--------------------------- MODULE SwallowProofs ---------------------------
(***************************************************************************)
(* Swallowing: structs and windows are exchanged and freed so that no      *)
(* window is held twice or by nobody, the lists and the focus stay right,  *)
(* every window that dwm manages stays managed while it is mapped, and the *)
(* screen shows the view until a client swallows another.                  *)
(***************************************************************************)
EXTENDS Swallow, ClientInvariant

-----------------------------------------------------------------------------
(* What the handlers of DwmHandlers keep                                   *)

\* What FocusSurvivesSwallow says, with the list invariant for its first part.
Sound(s) == ListInv(s) /\ Settled(s) /\ Keyed(s)

SameIn(s, t) == \A c : In(t, c) <=> In(s, c)

LEMMA ManagedIff ==
  ASSUME NEW s, ListInv(s)
  PROVE  \A c : c \in Managed(s) <=> In(s, c)
<1>1. s \in State
  BY DEF ListInv
<1>2. \A c : c \in Managed(s) \/ In(s, c) => c \in Client
  BY DEF Managed, In
<1>3. \A c \in Client : c \in Managed(s) => In(s, c)
  BY ManagedIn
<1>4. \A c \in Client : c \notin Managed(s) => ~In(s, c)
  BY <1>1, ManagedIn, OutNotIn
<1> QED BY <1>2, <1>3, <1>4

LEMMA SameManaged ==
  ASSUME NEW s, NEW t, ListInv(s), ListInv(t), SameIn(s, t)
  PROVE  Managed(t) = Managed(s)
BY ManagedIff DEF SameIn

\* focus(NULL), with which every change of the lists ends.
LEMMA FocusSound ==
  ASSUME NEW s, ListInv(s)
  PROVE  Sound(Focus(s, NULL)) /\ SameIn(s, Focus(s, NULL))
<1>1. s \in State /\ NULL \in ClientOrNull
  BY DEF ListInv, ClientOrNull
<1>2. Reordered(s, Focus(s, NULL))
  BY FocusInv
<1>3. Settled(Focus(s, NULL)) /\ Keyed(Focus(s, NULL))
  BY <1>1, FocusSettles, FocusKeyed
<1> QED BY <1>2, <1>3, ReorderedSameIn DEF Sound, SameIn, Reordered

LEMMA ArrangeSound ==
  ASSUME NEW s, Sound(s), NEW m
  PROVE  Sound(Arrange(s, m)) /\ SameIn(s, Arrange(s, m))
<1>1. s \in State
  BY DEF Sound, ListInv
<1>2. Reordered(s, Arrange(s, m))
  BY ArrangeInv DEF Sound
<1>3. Settled(Arrange(s, m))
  BY ArrangeSettled DEF Sound
<1>4. Keyed(Arrange(s, m))
  BY <1>1, ArrangeKeys, SameKeysKeyed DEF Sound
<1> QED BY <1>2, <1>3, <1>4, ReorderedSameIn DEF Sound, SameIn, Reordered

\* view() of one tag.
LEMMA ViewSound ==
  ASSUME NEW s, Sound(s), NEW ui \in SUBSET Tag
  PROVE  Sound(View(s, ui)) /\ SameIn(s, View(s, ui))
<1> DEFINE m == s.selmon
           k == s.seltags[m]
           old == IF ui = {} THEN s.tagset[m][1 - k] ELSE ui
           t == [s EXCEPT !.seltags[m] = 1 - k, !.tagset[m][1 - k] = old]
<1>1. s \in State
  BY DEF Sound, ListInv
<1>2. Reordered(s, View(s, ui)) /\ Keyed(View(s, ui))
  BY <1>1, ViewInv, ViewKeyed DEF Sound
<1>3. t \in State
  <2>1. m \in Mon /\ k \in Slot /\ 1 - k \in Slot
    BY <1>1, StateFields
  <2>2. old \in SUBSET Tag
    BY <1>1, <2>1 DEF State
  <2> HIDE DEF m, k, old
  <2> QED BY <1>1, <2>1, <2>2, SetViewType
<1>4. View(s, ui) = s \/ View(s, ui) = Refresh(t)
  BY DEF View, t, m, k, old
<1> HIDE DEF t
<1>5. Settled(View(s, ui))
  BY <1>3, <1>4, RefreshSettles DEF Sound
<1> QED BY <1>2, <1>5, ReorderedSameIn DEF Sound, SameIn, Reordered

LEMMA FocusMonSound ==
  ASSUME NEW s, Sound(s), NEW dir
  PROVE  Sound(FocusMon(s, dir)) /\ SameIn(s, FocusMon(s, dir))
<1>1. s \in State /\ DirToMon(s, dir) \in Mon
  BY DirToMonType DEF Sound, ListInv
<1>2. Reordered(s, FocusMon(s, dir)) /\ Keyed(FocusMon(s, dir))
  BY <1>1, FocusMonInv, FocusMonKeyed DEF Sound
<1>3. Settled(FocusMon(s, dir))
  BY <1>1, SetSelmonType, RefreshSettles DEF Sound, FocusMon
<1> QED BY <1>2, <1>3, ReorderedSameIn DEF Sound, SameIn, Reordered

LEMMA TagMonSound ==
  ASSUME NEW s, Sound(s), NEW dir
  PROVE  Sound(TagMon(s, dir)) /\ SameIn(s, TagMon(s, dir))
<1> DEFINE c == s.sel[s.selmon]
           m == DirToMon(s, dir)
           out == DetachStack(Detach(Unfocus(s, c), c), c)
           view == ViewOf(s, m)
           moved == [out EXCEPT !.mon[c] = m, !.tags[c] = view]
           l == AttachStack(AttachBelow(moved, c), c)
<1>1. s \in State /\ m \in Mon /\ c \in ClientOrNull
  BY DirToMonType, StateFields DEF Sound, ListInv
<1>2. /\ ListInv(TagMon(s, dir)) /\ SameIn(s, TagMon(s, dir))
      /\ Keyed(TagMon(s, dir))
  BY <1>1, TagMonInv, TagMonKeyed DEF Sound, SameIn
<1>3. TagMon(s, dir) = s \/ (c # NULL /\ TagMon(s, dir) = ArrangeAll(Focus(l, NULL)))
  BY DEF TagMon, SendMon
<1>4. ASSUME c # NULL
      PROVE  l \in State
  <2>1. c \in Client
    BY <1>1, <1>4 DEF ClientOrNull
  <2>2. view \in SUBSET Tag
    BY <1>1, ViewOfType
  <2>3. out \in State
    BY <1>1, <2>1, UnfocusType, DetachType, DetachStackType
  <2> HIDE DEF out, view, m, c
  <2> QED BY <1>1, <2>1, <2>2, <2>3, MoveRetagType, AttachBelowType,
             AttachStackType
<1> HIDE DEF l
<1>5. c # NULL => Settled(ArrangeAll(Focus(l, NULL)))
  BY <1>4, RefreshSettles, ArrangeSettled
<1> HIDE DEF c
<1>6. Settled(TagMon(s, dir))
  BY <1>3, <1>5 DEF Sound
<1> QED BY <1>2, <1>6 DEF Sound

LEMMA SetFullscreenSound ==
  ASSUME NEW s, Sound(s), NEW c \in Client, NEW on \in BOOLEAN
  PROVE  Sound(SetFullscreen(s, c, on)) /\ SameIn(s, SetFullscreen(s, c, on))
<1> DEFINE float == s.isfloating[c]
           old == s.oldstate[c]
           t == [s EXCEPT !.isfullscreen[c] = TRUE, !.oldstate[c] = float,
                          !.isfloating[c] = TRUE, !.shown[c] = TRUE]
           u == [s EXCEPT !.isfullscreen[c] = FALSE, !.isfloating[c] = old,
                          !.shown[c] = TRUE]
<1>1. s \in State /\ float \in BOOLEAN /\ old \in BOOLEAN
  BY StateFlags DEF Sound, ListInv
<1>2. /\ Reordered(s, SetFullscreen(s, c, on))
      /\ Keyed(SetFullscreen(s, c, on))
  BY <1>1, SetFullscreenInv, SetFullscreenKeyed DEF Sound
<1> HIDE DEF float, old
<1>3. t \in State /\ u \in State
  BY <1>1, SetFullscreenFieldsType
<1>4. /\ SameView(s, t) /\ t.sel = s.sel /\ t.selmon = s.selmon
      /\ t.stack = s.stack /\ t.isurgent = s.isurgent
  BY <1>1 DEF SameView, State
<1>5. /\ SameView(s, u) /\ u.sel = s.sel /\ u.selmon = s.selmon
      /\ u.stack = s.stack /\ u.isurgent = s.isurgent
  BY <1>1 DEF SameView, State
<1>6. \/ SetFullscreen(s, c, on) = s \/ SetFullscreen(s, c, on) = t
      \/ SetFullscreen(s, c, on) = Arrange(u, s.mon[c])
  BY DEF SetFullscreen, t, u, float, old
<1> HIDE DEF t, u
<1>7. Settled(t) /\ \A m : Settled(Arrange(u, m))
  BY <1>3, <1>4, <1>5, SettledKept, ArrangeSettled DEF Sound
<1>8. Settled(SetFullscreen(s, c, on))
  BY <1>6, <1>7 DEF Sound
<1> QED BY <1>2, <1>8, ReorderedSameIn DEF Sound, SameIn, Reordered

LEMMA ToggleFullscrSound ==
  ASSUME NEW s, Sound(s)
  PROVE  Sound(ToggleFullscr(s)) /\ SameIn(s, ToggleFullscr(s))
<1> DEFINE c == s.sel[s.selmon]
           on == ~s.isfullscreen[c]
<1>1. s \in State /\ c \in ClientOrNull
  BY StateFields DEF Sound, ListInv
<1>2. CASE c = NULL
  BY <1>2 DEF ToggleFullscr, SameIn
<1>3. CASE c # NULL
  <2>1. c \in Client /\ on \in BOOLEAN
    BY <1>1, <1>3 DEF ClientOrNull
  <2>2. ToggleFullscr(s) = SetFullscreen(s, c, on)
    BY <1>3 DEF ToggleFullscr
  <2> HIDE DEF c, on
  <2> QED BY <2>1, <2>2, SetFullscreenSound
<1> QED BY <1>2, <1>3

LEMMA ConfigureNotifySound ==
  ASSUME NEW s, Sound(s), NEW n \in Mon, NEW p \in 1 .. n
  PROVE  /\ Sound(ConfigureNotify(s, n, p))
         /\ SameIn(s, ConfigureNotify(s, n, p))
<1>1. s \in State /\ p \in Mon
  BY ConstantsAssumption DEF Sound, ListInv, Mon
<1>2. PICK u \in State : ConfigureNotify(s, n, p) = ArrangeAll(Focus(u, NULL))
  BY <1>1, ConfigureNotifyStep
<1>3. Settled(ConfigureNotify(s, n, p)) /\ Keyed(ConfigureNotify(s, n, p))
  BY <1>1, <1>2, RefreshSettles, ArrangeSettled, ConfigureNotifyKeyed
<1> QED BY <1>3, ConfigureNotifyInv DEF Sound, SameIn

\* Windows of the clients in S leave the screen.
LEMMA OffSound ==
  ASSUME NEW s, Sound(s), NEW S \in SUBSET Client
  PROVE  LET t == [s EXCEPT !.gone = [c \in Client |-> @[c] \/ c \in S],
                            !.xfocus = IF @ \in S THEN NULL ELSE @]
         IN Sound(t) /\ SameIn(s, t)
<1> DEFINE gone == [c \in Client |-> s.gone[c] \/ c \in S]
           xfocus == IF s.xfocus \in S THEN NULL ELSE s.xfocus
           t == [s EXCEPT !.gone = gone, !.xfocus = xfocus]
           d == SelOf(s)
<1>1. s \in State
  BY DEF Sound, ListInv
<1>2. gone \in [Client -> BOOLEAN] /\ xfocus \in ClientOrNull
  BY <1>1 DEF State, ClientOrNull
<1> HIDE DEF gone, xfocus
<1>3. t \in State
  BY <1>1, <1>2, ZenonT(60) DEF State
<1>4. /\ SameLists(s, t) /\ SameView(s, t) /\ t.isurgent = s.isurgent
      /\ t.neverfocus = s.neverfocus /\ t.gone = gone /\ t.xfocus = xfocus
  BY <1>1 DEF SameLists, SameView, State
<1> HIDE DEF t
<1>5. Reordered(s, t)
  BY <1>3, <1>4, ReorderedSame DEF Sound
<1>6. Settled(t)
  BY <1>3, <1>4, SettledKept DEF Sound, SameLists
<1>7. Keyed(t)
  <2>1. SelOf(t) = d /\ d \in ClientOrNull
    BY <1>1, <1>4, StateFields DEF SelOf, SameLists
  <2>2. NULL \notin S
    BY ConstantsAssumption
  <2>3. CASE d = NULL
    BY <1>4, <2>1, <2>3 DEF Keyed, Sound, xfocus
  <2>4. CASE d # NULL
    <3>1. d \in Client /\ gone[d] = (s.gone[d] \/ d \in S)
      BY <2>1, <2>4 DEF ClientOrNull, gone
    <3>2. s.neverfocus[d] \/ s.gone[d] \/ s.xfocus = d
      BY <2>4 DEF Sound, Keyed
    <3>3. s.xfocus = d => d \in S \/ xfocus = d
      BY DEF xfocus
    <3> HIDE DEF d
    <3> QED BY <1>4, <2>1, <2>4, <3>1, <3>2, <3>3 DEF Keyed
  <2> QED BY <2>3, <2>4
<1>8. t = [s EXCEPT !.gone = [c \in Client |-> @[c] \/ c \in S],
                    !.xfocus = IF @ \in S THEN NULL ELSE @]
  BY DEF t, gone, xfocus
<1> QED BY <1>5, <1>6, <1>7, <1>8, ReorderedSameIn
        DEF Sound, SameIn, Reordered

LEMMA InitialSound ==
  ASSUME NEW n \in Mon, NEW m \in 1 .. n
  PROVE  LET s == InitialState(n, m)
         IN Sound(s) /\ Managed(s) = {}
<1> DEFINE s == InitialState(n, m)
<1>1. m \in Mon /\ m <= n /\ m \in Nat /\ n \in Nat
  BY ConstantsAssumption DEF Mon
<1>2. s \in State
  BY <1>1, InitialStateType
<1>3. /\ s.clients = [i \in Mon |-> << >>] /\ s.stack = [i \in Mon |-> << >>]
      /\ s.sel = [i \in Mon |-> NULL] /\ s.selmon = m /\ s.nmon = n
      /\ s.xfocus = NULL
  BY DEF InitialState
<1> HIDE DEF s
<1>4. Linked(s)
  BY <1>3, EmptyList DEF Linked
<1>5. Owned(s)
  BY <1>3 DEF Owned
<1>6. Connected(s)
  BY <1>1, <1>3, EmptyList DEF Connected
<1>7. ListInv(s)
  BY <1>2, <1>4, <1>5, <1>6 DEF ListInv
<1>8. SelOf(s) = NULL
  BY <1>1, <1>3 DEF SelOf
<1>9. FirstVisible(s, s.stack[s.selmon]) = NULL
  <2>1. s.stack[s.selmon] = << >> /\ << >> \in Seq(Client)
    BY <1>1, <1>3
  <2>2. FirstVisible(s, << >>) \in ToSet(<< >>) \cup {NULL}
    BY <2>1, FirstVisibleType
  <2> QED BY <2>1, <2>2, EmptyList
<1>10. Settled(s) /\ Keyed(s)
  BY <1>2, <1>3, <1>8, <1>9 DEF Settled, Keyed, SelOf
<1>11. Managed(s) = {}
  <2>1. \A c : ~In(s, c)
    BY <1>2, <1>3, EmptyList DEF In, State
  <2> QED BY <1>7, <2>1, ManagedIff
<1> QED BY <1>7, <1>10, <1>11 DEF Sound, s

\* manage() up to the last call of focus(), without a transient hint.
LEMMA ManageArrangedSound ==
  ASSUME NEW s, ListInv(s), NEW c, Out(s, c), NEW kind \in Kind
  PROVE  LET t == ManageArranged(s, c, kind, NULL)
         IN ListInv(t) /\ \A d : In(t, d) <=> In(s, d) \/ d = c
<1> DEFINE r == ManageArranged(s, c, kind, NULL)
<1>1. PICK t : /\ r = Arrange(t, t.mon[c])
               /\ ListInv(t) /\ In(t, c) /\ OthersStay(s, t, c)
  BY ManageLinks
<1> HIDE DEF r
<1>2. Reordered(t, r)
  BY <1>1, ArrangeInv
<1>3. s \in State
  BY DEF ListInv
<1>4. \A d : In(r, d) <=> In(t, d)
  BY <1>1, <1>2, ReorderedSameIn
<1>5. \A d : d # c => (In(t, d) <=> In(s, d))
  BY <1>1, <1>3, OthersIn
<1>6. ListInv(r) /\ \A d : In(r, d) <=> In(s, d) \/ d = c
  BY <1>1, <1>2, <1>4, <1>5 DEF Reordered
<1> QED BY <1>6 DEF r

\* A struct on no list is freed.
LEMMA FreeOutSound ==
  ASSUME NEW s, ListInv(s), NEW c, Out(s, c)
  PROVE  LET t == FreeClient(s, c)
         IN ListInv(t) /\ Out(t, c) /\ SameIn(s, t)
<1> DEFINE t == FreeClient(s, c)
<1>1. s \in State /\ c \in Client
  BY DEF ListInv, Out
<1>2. /\ t \in State
      /\ t.clients = s.clients /\ t.stack = s.stack /\ t.sel = s.sel
      /\ t.selmon = s.selmon /\ t.nmon = s.nmon /\ t.lost = s.lost
      /\ t.mon = [s.mon EXCEPT ![c] = 1]
  BY <1>1, FreeClientType, FreeClientFields
<1> HIDE DEF t
<1>3. \A d \in Client \ {c} : t.mon[d] = s.mon[d]
  BY <1>1, <1>2 DEF State
<1>4. ListInv(t) /\ Out(t, c) /\ OthersStay(s, t, c)
  BY <1>2, <1>3, OutFieldsInv
<1>5. ~In(s, c) /\ ~In(t, c)
  BY <1>1, <1>2, <1>4, OutNotIn
<1>6. \A d : d # c => (In(t, d) <=> In(s, d))
  BY <1>1, <1>4, OthersIn
<1> QED BY <1>4, <1>5, <1>6 DEF SameIn, t

LEMMA UnmanageSound ==
  ASSUME NEW s, ListInv(s), NEW c, In(s, c)
  PROVE  /\ Sound(Unmanage(s, c))
         /\ \A d : In(Unmanage(s, c), d) <=> In(s, d) /\ d # c
<1> DEFINE out == FreeClient(DetachStack(Detach(s, c), c), c)
           t == Arrange(out, s.mon[c])
<1>1. s \in State /\ c \in Client
  BY DEF ListInv, In
<1>2. t \in State
  BY <1>1, DetachType, DetachStackType, FreeClientType, ArrangeType
<1>3. Unmanage(s, c) = Focus(t, NULL)
  BY DEF Unmanage
<1> HIDE DEF t
<1>4. Settled(Unmanage(s, c))
  BY <1>2, <1>3, RefreshSettles
<1> QED BY <1>1, <1>4, UnmanageInv, UnmanageKeyed DEF Sound

-----------------------------------------------------------------------------
(* Swallowing and its end                                                  *)

\* The fields that no list depends on.
LEMMA SetGoneSound ==
  ASSUME NEW s, ListInv(s), NEW c \in Client, NEW gone \in BOOLEAN
  PROVE  /\ ListInv([s EXCEPT !.gone[c] = gone])
         /\ SameIn(s, [s EXCEPT !.gone[c] = gone])
<1> DEFINE t == [s EXCEPT !.gone[c] = gone]
<1>1. s \in State
  BY DEF ListInv
<1>2. t \in State
  BY <1>1, ZenonT(60) DEF State
<1>3. SameLists(s, t)
  BY <1>1 DEF SameLists, State
<1> HIDE DEF t
<1>4. Reordered(s, t)
  BY <1>2, <1>3, ReorderedSame
<1> QED BY <1>4, ReorderedSameIn DEF SameIn, Reordered, t

LEMMA SetShownSound ==
  ASSUME NEW s, ListInv(s), NEW c \in Client
  PROVE  /\ ListInv([s EXCEPT !.shown[c] = TRUE])
         /\ SameIn(s, [s EXCEPT !.shown[c] = TRUE])
<1> DEFINE t == [s EXCEPT !.shown[c] = TRUE]
<1>1. s \in State
  BY DEF ListInv
<1>2. t \in State
  BY <1>1, ZenonT(60) DEF State
<1>3. SameLists(s, t)
  BY <1>1 DEF SameLists, State
<1> HIDE DEF t
<1>4. Reordered(s, t)
  BY <1>2, <1>3, ReorderedSame
<1> QED BY <1>4, ReorderedSameIn DEF SameIn, Reordered, t

\* applyrules() of swallow() and unswallow().
LEMMA ApplyRulesSound ==
  ASSUME NEW s, ListInv(s), NEW p \in Client, NEW w \in Window
  PROVE  ListInv(ApplyRules(s, p, w)) /\ SameIn(s, ApplyRules(s, p, w))
<1> DEFINE rule == RuleFor[w]
           float == rule.matches /\ rule.isfloating
           left == IF rule.matches THEN rule.isLeft ELSE s.isLeft[p]
           tags == RuleTags(s, s.mon[p], rule)
           t == [s EXCEPT !.isfloating[p] = float, !.isLeft[p] = left,
                          !.tags[p] = tags]
<1>1. /\ s \in State /\ rule \in Rule /\ s.mon[p] \in Mon
      /\ s.isLeft[p] \in BOOLEAN
  BY SwallowAssumption DEF ListInv, State
<1>2. /\ rule.matches \in BOOLEAN /\ rule.isfloating \in BOOLEAN
      /\ rule.isLeft \in BOOLEAN /\ rule.tags \in SUBSET Tag
  BY <1>1 DEF Rule
<1>3. tags \in SUBSET Tag
  <2>1. s.seltags[s.mon[p]] \in Slot
    BY <1>1 DEF State
  <2>2. s.createtag[s.mon[p]][s.seltags[s.mon[p]]] \in Tag
    BY <1>1, <2>1 DEF State
  <2> QED BY <1>2, <2>2 DEF RuleTags
<1>4. float \in BOOLEAN /\ left \in BOOLEAN
  BY <1>1, <1>2
<1>5. ApplyRules(s, p, w) = t
  BY DEF ApplyRules
<1> HIDE DEF rule, float, left, tags
<1>6. t \in State
  BY <1>1, <1>3, <1>4, ZenonT(60) DEF State
<1>7. SameLists(s, t)
  BY <1>1 DEF SameLists, State
<1> HIDE DEF t
<1>8. Reordered(s, t)
  BY <1>6, <1>7, ReorderedSame
<1> QED BY <1>5, <1>8, ReorderedSameIn DEF SameIn, Reordered

\* swallow(): c is on no list any more.
LEMMA SwallowClientSound ==
  ASSUME NEW s, ListInv(s), NEW p, In(s, p), NEW c, In(s, c), p # c,
         NEW w \in Window
  PROVE  LET t == SwallowClient(s, p, c, w)
         IN ListInv(t) /\ \A d : In(t, d) <=> In(s, d) /\ d # c
<1> DEFINE out == Unlink(s, c)
           m == s.mon[p]
           gone == s.gone[c]
           xfocus == IF out.xfocus = p THEN NULL ELSE out.xfocus
           taken == [out EXCEPT !.mon[c] = m, !.gone[p] = gone,
                                !.xfocus = xfocus]
           a == Arrange(taken, m)
           t == ApplyRules(a, p, w)
<1>1. s \in State /\ p \in Client /\ c \in Client
  BY DEF In, ListInv
<1>2. ListInv(out) /\ Out(out, c) /\ OthersStay(s, out, c)
  BY UnlinkInv
<1>3. out \in State
  BY <1>2 DEF ListInv
<1>4. t = SwallowClient(s, p, c, w)
  BY DEF SwallowClient, Unlink
<1> HIDE DEF out
<1>5. m \in Mon /\ gone \in BOOLEAN /\ xfocus \in ClientOrNull
  BY <1>1, <1>3 DEF State, ClientOrNull
<1> HIDE DEF m, gone, xfocus
<1>6. taken \in State
  BY <1>1, <1>3, <1>5, ZenonT(60) DEF State
<1>7. /\ taken.clients = out.clients /\ taken.stack = out.stack
      /\ taken.sel = out.sel /\ taken.selmon = out.selmon
      /\ taken.nmon = out.nmon /\ taken.lost = out.lost
      /\ taken.mon = [out.mon EXCEPT ![c] = m]
  BY <1>3 DEF State
<1> HIDE DEF taken
<1>8. \A d \in Client \ {c} : taken.mon[d] = out.mon[d]
  BY <1>3, <1>7 DEF State
<1>9. ListInv(taken) /\ Out(taken, c) /\ OthersStay(s, taken, c)
  BY <1>2, <1>6, <1>7, <1>8, OutFieldsInv, OthersStayTwice
<1>10. Reordered(taken, a)
  BY <1>9, ArrangeInv
<1> HIDE DEF a
<1>11. ListInv(a) /\ SameIn(taken, a)
  BY <1>9, <1>10, ReorderedSameIn DEF Reordered, SameIn
<1>12. ListInv(t) /\ SameIn(a, t)
  BY <1>1, <1>11, ApplyRulesSound
<1>13. \A d : In(taken, d) <=> In(s, d) /\ d # c
  BY <1>1, <1>6, <1>9, OthersIn, OutNotIn
<1> HIDE DEF t
<1> QED BY <1>4, <1>11, <1>12, <1>13 DEF SameIn

LEMMA SameInTwice ==
  ASSUME NEW s, NEW t, NEW u, SameIn(s, t), SameIn(t, u)
  PROVE  SameIn(s, u)
BY DEF SameIn

\* unswallow(): p stays on its lists.
LEMMA UnswallowSound ==
  ASSUME NEW s, ListInv(s), NEW p, In(s, p), Out(s, swallowing[p]),
         NEW exists \in BOOLEAN
  PROVE  LET t == Unswallow(s, p, exists)
         IN Sound(t) /\ SameIn(s, t)
<1> DEFINE c == swallowing[p]
           gone == ~exists
           set == [s EXCEPT !.gone[p] = gone]
           back == FreeClient(set, c)
           full == SetFullscreen(back, p, FALSE)
           a == Arrange(full, s.mon[p])
           placed == [a EXCEPT !.shown[p] = TRUE]
           f == Focus(placed, NULL)
           t == Arrange(f, s.mon[p])
<1>1. s \in State /\ p \in Client /\ gone \in BOOLEAN
  BY DEF ListInv, In
<1>2. t = Unswallow(s, p, exists)
  BY DEF Unswallow
<1> HIDE DEF gone
<1>3. ListInv(set) /\ SameIn(s, set)
  BY <1>1, SetGoneSound
<1>4. Out(set, c)
  <2>1. set.clients = s.clients
    BY <1>1 DEF State
  <2> QED BY <2>1 DEF Out
<1> HIDE DEF set, c
<1>5. ListInv(back) /\ SameIn(s, back)
  BY <1>3, <1>4, FreeOutSound, SameInTwice
<1> HIDE DEF back
<1>6. ListInv(full) /\ SameIn(s, full)
  <2>1. Reordered(back, full)
    BY <1>1, <1>5, SetFullscreenInv
  <2>2. ListInv(full) /\ SameIn(back, full)
    BY <1>5, <2>1, ReorderedSameIn DEF Reordered, SameIn
  <2> QED BY <1>5, <2>2, SameInTwice
<1> HIDE DEF full
<1>7. ListInv(a) /\ SameIn(s, a)
  <2>1. Reordered(full, a)
    BY <1>6, ArrangeInv
  <2>2. ListInv(a) /\ SameIn(full, a)
    BY <1>6, <2>1, ReorderedSameIn DEF Reordered, SameIn
  <2> QED BY <1>6, <2>2, SameInTwice
<1> HIDE DEF a
<1>8. ListInv(placed) /\ SameIn(s, placed)
  BY <1>1, <1>7, SetShownSound, SameInTwice
<1> HIDE DEF placed
<1>9. Sound(f) /\ SameIn(s, f)
  BY <1>8, FocusSound, SameInTwice
<1> HIDE DEF f
<1>10. Sound(t) /\ SameIn(s, t)
  BY <1>9, ArrangeSound, SameInTwice
<1> QED BY <1>2, <1>10

\* unmanage() of a swallowed client.
LEMMA StandAloneSound ==
  ASSUME NEW s, ListInv(s), NEW p, Out(s, swallowing[p])
  PROVE  LET t == StandAlone(s, p)
         IN Sound(t) /\ SameIn(s, t)
<1> DEFINE c == swallowing[p]
           m == s.mon[c]
           freed == FreeClient(s, c)
           a == Arrange(freed, m)
           r == IF m \in Mons(s) THEN a ELSE freed
<1>1. StandAlone(s, p) = Focus(r, NULL)
  BY DEF StandAlone
<1>2. ListInv(freed) /\ SameIn(s, freed)
  BY FreeOutSound
<1> HIDE DEF freed, m
<1>3. ListInv(a) /\ SameIn(s, a)
  <2>1. Reordered(freed, a)
    BY <1>2, ArrangeInv
  <2>2. ListInv(a) /\ SameIn(freed, a)
    BY <1>2, <2>1, ReorderedSameIn DEF Reordered, SameIn
  <2> QED BY <1>2, <2>2, SameInTwice
<1> HIDE DEF a
<1>4. ListInv(r) /\ SameIn(s, r)
  BY <1>2, <1>3
<1> HIDE DEF r
<1> QED BY <1>1, <1>4, FocusSound, SameInTwice

-----------------------------------------------------------------------------
(* Structs and their windows                                               *)

Used == Managed(wm) \cup Swallowed

\* What WindowsHeldOnce says besides the types.
Structs ==
  /\ \A c, d \in Used : win[c] = win[d] => c = d
  /\ \A c \in Used : win[c] # NULL
  /\ Managed(wm) \cap Swallowed = {}
  /\ \A p, q \in Managed(wm) :
       swallowing[p] = swallowing[q] /\ p # q => swallowing[p] = NULL
  /\ \A c \in Client \ Managed(wm) : swallowing[c] = NULL

\* The windows on the screen in place of another, with that other.
Pairs == {<<win[p], win[swallowing[p]]>> :
            p \in {q \in Managed(wm) : swallowing[q] # NULL}}

LEMMA ManagedClients ==
  ASSUME TypeOK, Structs, ListInv(wm)
  PROVE  /\ Managed(wm) \subseteq Client /\ Swallowed \subseteq Client
         /\ NULL \notin Client /\ NULL \notin Window
         /\ \A c \in Client : swallowing[c] \in Client \cup {NULL}
         /\ \A c \in Client : win[c] \in Window \cup {NULL}
<1>1. Managed(wm) \subseteq Client
  BY ManagedIff DEF In
<1>2. \A c \in Client : swallowing[c] \in Client \cup {NULL}
  BY DEF TypeOK
<1>3. NULL \notin Client /\ NULL \notin Window
  BY ConstantsAssumption, SwallowAssumption
<1>4. \A c \in Client : win[c] \in Window \cup {NULL}
  BY DEF TypeOK
<1> QED BY <1>1, <1>2, <1>3, <1>4 DEF Swallowed

\* No window is both on a list and hidden.
LEMMA HeldOrHidden ==
  ASSUME TypeOK, Structs, ListInv(wm)
  PROVE  /\ Held \cap Hidden = {} /\ Held \subseteq Window
         /\ Hidden \subseteq Window
         /\ \A pair \in Pairs : pair[1] \in Held /\ pair[2] \in Hidden
<1>1. Held \cap Hidden = {}
  BY DEF Held, Hidden, Structs, Used
<1>2. \A c \in Managed(wm) \cup Swallowed : win[c] \in Window
  BY ManagedClients DEF Structs, Used
<1>3. Held \subseteq Window /\ Hidden \subseteq Window
  BY <1>2 DEF Held, Hidden
<1>4. ASSUME NEW p \in Managed(wm), swallowing[p] # NULL
      PROVE  win[p] \in Held /\ win[swallowing[p]] \in Hidden
  BY <1>4 DEF Held, Hidden, Swallowed
<1> QED BY <1>1, <1>3, <1>4 DEF Pairs

\* The structs stay as they are.
LEMMA NothingMoves ==
  ASSUME Structs, Managed(wm') = Managed(wm), UNCHANGED <<win, swallowing>>
  PROVE  Structs' /\ Held' = Held /\ Hidden' = Hidden /\ Pairs' = Pairs
BY DEF Structs, Held, Hidden, Pairs, Used, Swallowed

\* A new client with a window that no struct holds.
LEMMA Arrives ==
  ASSUME TypeOK, Structs, ListInv(wm), NEW c \in Unused, NEW w \in Window,
         w \notin Held \cup Hidden,
         Managed(wm') = Managed(wm) \cup {c}, win' = [win EXCEPT ![c] = w],
         UNCHANGED swallowing
  PROVE  /\ Structs' /\ Held' = Held \cup {w} /\ Hidden' = Hidden
         /\ Pairs' = Pairs
<1> DEFINE M == Managed(wm)
           S == Swallowed
<1>1. /\ M \subseteq Client /\ S \subseteq Client /\ c \in Client \ (M \cup S)
      /\ NULL \notin Client /\ NULL \notin Window
      /\ \A d \in Client : swallowing[d] \in Client \cup {NULL}
  BY ManagedClients DEF Unused
<1>2. win'[c] = w /\ \A d \in Client \ {c} : win'[d] = win[d]
  BY <1>1 DEF TypeOK
<1>3. swallowing[c] = NULL
  BY <1>1 DEF Structs
<1>4. Swallowed' = S
  BY <1>1, <1>3 DEF Swallowed
<1>5. \A d \in M \cup S : win'[d] = win[d] /\ win'[d] # w
  BY <1>1, <1>2 DEF Held, Hidden
<1>6. Held' = Held \cup {w}
  BY <1>2, <1>5 DEF Held
<1>7. Hidden' = Hidden
  BY <1>4, <1>5 DEF Hidden
<1>8. Pairs' = Pairs
  <2>1. {q \in Managed(wm') : swallowing'[q] # NULL}
          = {q \in M : swallowing[q] # NULL}
    BY <1>3
  <2>2. \A q \in M : swallowing[q] # NULL => swallowing[q] \in S
    BY DEF Swallowed
  <2> QED BY <1>5, <2>1, <2>2 DEF Pairs
<1>9. Structs'
  <2>1. Used' = Used \cup {c}
    BY <1>4 DEF Used
  <2>2. \A d \in Used : win'[d] = win[d] /\ win'[d] # w /\ win'[d] # NULL
    BY <1>5 DEF Structs, Used
  <2>3. \A d, e \in Used' : win'[d] = win'[e] => d = e
    BY <1>2, <2>1, <2>2 DEF Structs
  <2>4. \A d \in Used' : win'[d] # NULL
    BY <1>1, <1>2, <2>1, <2>2
  <2>5. Managed(wm') \cap Swallowed' = {}
    BY <1>1, <1>4 DEF Structs
  <2>6. \A p, q \in Managed(wm') :
          swallowing'[p] = swallowing'[q] /\ p # q => swallowing'[p] = NULL
    BY <1>3 DEF Structs
  <2>7. \A d \in Client \ Managed(wm') : swallowing'[d] = NULL
    BY DEF Structs
  <2> QED BY <2>3, <2>4, <2>5, <2>6, <2>7 DEF Structs
<1> QED BY <1>6, <1>7, <1>8, <1>9

\* swallow(): p takes over window w and c holds the window of p.
LEMMA Swallows ==
  ASSUME TypeOK, Structs, ListInv(wm), NEW p \in Managed(wm),
         swallowing[p] = NULL, NEW c \in Unused, NEW w \in Window,
         w \notin Held \cup Hidden, Managed(wm') = Managed(wm),
         win' = [win EXCEPT ![p] = w, ![c] = win[p]],
         swallowing' = [swallowing EXCEPT ![p] = c]
  PROVE  /\ Structs' /\ Held' = (Held \ {win[p]}) \cup {w}
         /\ Hidden' = Hidden \cup {win[p]}
         /\ Pairs' = Pairs \cup {<<w, win[p]>>}
<1> DEFINE M == Managed(wm)
           S == Swallowed
           h == win[p]
<1>1. /\ M \subseteq Client /\ S \subseteq Client /\ c \in Client \ (M \cup S)
      /\ NULL \notin Client /\ NULL \notin Window
      /\ \A d \in Client : swallowing[d] \in Client \cup {NULL}
      /\ p \in M /\ p \in Client /\ p # c
  BY ManagedClients DEF Unused
<1>2. /\ win'[c] = h /\ win'[p] = w
      /\ \A d \in Client \ {c, p} : win'[d] = win[d]
  BY <1>1 DEF TypeOK
<1>3. /\ swallowing'[p] = c
      /\ \A d \in Client \ {p} : swallowing'[d] = swallowing[d]
  BY <1>1 DEF TypeOK
<1>4. p \notin S
  BY <1>1 DEF Structs
<1>5. Swallowed' = S \cup {c}
  <2>1. ASSUME NEW d
        PROVE  d \in Swallowed' <=> d \in S \/ d = c
    <3>1. d \in Swallowed'
            <=> d # NULL /\ \E q \in M : swallowing'[q] = d
      BY DEF Swallowed
    <3>2. d \in S <=> d # NULL /\ \E q \in M : swallowing[q] = d
      BY DEF Swallowed
    <3> QED BY <1>1, <1>3, <3>1, <3>2
  <2> QED BY <2>1
<1>6. /\ \A d, e \in M \cup S : win[d] = win[e] => d = e
      /\ \A d \in M \cup S : win[d] # NULL /\ win[d] # w
  BY DEF Structs, Used, Held, Hidden
<1>7. \A d \in (M \cup S) \ {p} : win'[d] = win[d] /\ win'[d] # h
  BY <1>1, <1>2, <1>6
<1>8. Held' = (Held \ {h}) \cup {w}
  <2>1. ASSUME NEW x
        PROVE  x \in Held' <=> (x \in Held /\ x # h) \/ x = w
    <3>1. x \in Held' <=> \E d \in M : win'[d] = x
      BY DEF Held
    <3>2. x \in Held <=> \E d \in M : win[d] = x
      BY DEF Held
    <3> QED BY <1>1, <1>2, <1>7, <3>1, <3>2
  <2> QED BY <2>1
<1>9. Hidden' = Hidden \cup {h}
  <2>1. ASSUME NEW x
        PROVE  x \in Hidden' <=> x \in Hidden \/ x = h
    <3>1. x \in Hidden' <=> \E d \in S \cup {c} : win'[d] = x
      BY <1>5 DEF Hidden
    <3>2. x \in Hidden <=> \E d \in S : win[d] = x
      BY DEF Hidden
    <3> QED BY <1>1, <1>2, <1>4, <1>7, <3>1, <3>2
  <2> QED BY <2>1
<1>10. Pairs' = Pairs \cup {<<w, h>>}
  <2>1. {q \in Managed(wm') : swallowing'[q] # NULL}
          = {q \in M : swallowing[q] # NULL} \cup {p}
    BY <1>1, <1>3
  <2>2. ASSUME NEW q \in M, swallowing[q] # NULL
        PROVE  /\ q # p /\ win'[q] = win[q]
               /\ win'[swallowing'[q]] = win[swallowing[q]]
    <3>1. q # p /\ swallowing[q] \in S /\ swallowing'[q] = swallowing[q]
      BY <1>1, <1>3, <2>2 DEF Swallowed
    <3> QED BY <1>4, <1>7, <3>1
  <2>3. <<win'[p], win'[swallowing'[p]]>> = <<w, h>>
    BY <1>2, <1>3
  <2>4. ASSUME NEW x
        PROVE  x \in Pairs' <=> x \in Pairs \/ x = <<w, h>>
    <3>1. x \in Pairs' <=> \E q \in {r \in M : swallowing[r] # NULL} \cup {p} :
                             x = <<win'[q], win'[swallowing'[q]]>>
      BY <2>1 DEF Pairs
    <3>2. x \in Pairs <=> \E q \in {r \in M : swallowing[r] # NULL} :
                            x = <<win[q], win[swallowing[q]]>>
      BY DEF Pairs
    <3> QED BY <2>2, <2>3, <3>1, <3>2
  <2> QED BY <2>4
<1>11. Structs'
  <2>1. Used' = M \cup S \cup {c}
    BY <1>5 DEF Used
  <2>2. \A d, e \in Used' : win'[d] = win'[e] => d = e
    BY <1>1, <1>2, <1>6, <1>7, <2>1
  <2>3. \A d \in Used' : win'[d] # NULL
    BY <1>1, <1>2, <1>6, <1>7, <2>1
  <2>4. Managed(wm') \cap Swallowed' = {}
    BY <1>1, <1>5 DEF Structs
  <2>5. \A q, r \in Managed(wm') :
          swallowing'[q] = swallowing'[r] /\ q # r => swallowing'[q] = NULL
    <3>1. \A q \in M \ {p} : swallowing'[q] = swallowing[q] /\ swallowing[q] # c
      BY <1>1, <1>3 DEF Swallowed
    <3> QED BY <1>3, <3>1 DEF Structs
  <2>6. \A d \in Client \ Managed(wm') : swallowing'[d] = NULL
    BY <1>3 DEF Structs
  <2> QED BY <2>2, <2>3, <2>4, <2>5, <2>6 DEF Structs
<1> QED BY <1>8, <1>9, <1>10, <1>11

\* unmanage() of a client that stands in for none: the struct is freed.
LEMMA Leaves ==
  ASSUME TypeOK, Structs, ListInv(wm), NEW p \in Managed(wm),
         swallowing[p] = NULL, Managed(wm') = Managed(wm) \ {p},
         win' = [win EXCEPT ![p] = NULL],
         swallowing' = [swallowing EXCEPT ![p] = NULL]
  PROVE  /\ Structs' /\ Held' = Held \ {win[p]} /\ Hidden' = Hidden
         /\ Pairs' = Pairs
<1> DEFINE M == Managed(wm)
           S == Swallowed
<1>1. /\ M \subseteq Client /\ S \subseteq Client /\ p \in M
      /\ NULL \notin Client /\ NULL \notin Window
      /\ \A d \in Client : swallowing[d] \in Client \cup {NULL}
  BY ManagedClients
<1>2. win'[p] = NULL /\ \A d \in Client \ {p} : win'[d] = win[d]
  BY <1>1 DEF TypeOK
<1>3. \A d \in Client : swallowing'[d] = swallowing[d]
  BY <1>1 DEF TypeOK
<1>4. Swallowed' = S
  BY <1>1, <1>3 DEF Swallowed
<1>5. p \notin S
  BY <1>1 DEF Structs
<1>6. /\ \A d, e \in M \cup S : win[d] = win[e] => d = e
      /\ \A d \in M \cup S : win[d] # NULL
  BY DEF Structs, Used
<1>7. \A d \in (M \cup S) \ {p} : win'[d] = win[d] /\ win[d] # win[p]
  BY <1>1, <1>2, <1>6
<1>8. Held' = Held \ {win[p]}
  <2>1. ASSUME NEW x
        PROVE  x \in Held' <=> x \in Held /\ x # win[p]
    <3>1. x \in Held' <=> \E d \in M \ {p} : win'[d] = x
      BY DEF Held
    <3>2. x \in Held <=> \E d \in M : win[d] = x
      BY DEF Held
    <3> QED BY <1>1, <1>7, <3>1, <3>2
  <2> QED BY <2>1
<1>9. Hidden' = Hidden
  BY <1>4, <1>5, <1>7 DEF Hidden
<1>10. Pairs' = Pairs
  <2>1. {q \in Managed(wm') : swallowing'[q] # NULL}
          = {q \in M : swallowing[q] # NULL}
    BY <1>1, <1>3
  <2>2. ASSUME NEW q \in M, swallowing[q] # NULL
        PROVE  /\ win'[q] = win[q]
               /\ win'[swallowing'[q]] = win[swallowing[q]]
    <3>1. q # p /\ swallowing[q] \in S /\ swallowing'[q] = swallowing[q]
      BY <1>1, <1>3, <2>2 DEF Swallowed
    <3> QED BY <1>5, <1>7, <3>1
  <2> QED BY <2>1, <2>2 DEF Pairs
<1>11. Structs'
  <2>1. Used' = (M \cup S) \ {p}
    BY <1>4, <1>5 DEF Used
  <2>2. /\ \A d, e \in Used' : win'[d] = win'[e] => d = e
        /\ \A d \in Used' : win'[d] # NULL
    BY <1>6, <1>7, <2>1
  <2>3. Managed(wm') \cap Swallowed' = {}
    BY <1>4 DEF Structs
  <2>4. /\ \A q, r \in Managed(wm') :
             swallowing'[q] = swallowing'[r] /\ q # r => swallowing'[q] = NULL
        /\ \A d \in Client \ Managed(wm') : swallowing'[d] = NULL
    BY <1>1, <1>3 DEF Structs
  <2> QED BY <2>2, <2>3, <2>4 DEF Structs
<1> QED BY <1>8, <1>9, <1>10, <1>11

\* The struct that p has swallowed is freed. Of the two windows p keeps y.
LEMMA Frees ==
  ASSUME TypeOK, Structs, ListInv(wm), NEW p \in Managed(wm),
         swallowing[p] # NULL, NEW y \in {win[p], win[swallowing[p]]},
         Managed(wm') = Managed(wm),
         win' = [win EXCEPT ![p] = y, ![swallowing[p]] = NULL],
         swallowing' = [swallowing EXCEPT ![p] = NULL]
  PROVE  /\ Structs' /\ Held' = (Held \ {win[p]}) \cup {y}
         /\ Hidden' = Hidden \ {win[swallowing[p]]}
         /\ Pairs' \subseteq Pairs
<1> DEFINE M == Managed(wm)
           S == Swallowed
           c == swallowing[p]
<1>1. /\ M \subseteq Client /\ S \subseteq Client /\ p \in M /\ c \in S
      /\ NULL \notin Client /\ NULL \notin Window
      /\ \A d \in Client : swallowing[d] \in Client \cup {NULL}
  BY ManagedClients DEF Swallowed
<1>2. M \cap S = {} /\ p # c
  BY <1>1 DEF Structs
<1>3. /\ win'[p] = y /\ win'[c] = NULL
      /\ \A d \in Client \ {p, c} : win'[d] = win[d]
  BY <1>1, <1>2 DEF TypeOK
<1>4. /\ swallowing'[p] = NULL
      /\ \A d \in Client \ {p} : swallowing'[d] = swallowing[d]
  BY <1>1 DEF TypeOK
<1>5. \A q \in M \ {p} : swallowing[q] # c
  BY <1>1 DEF Structs
<1>6. Swallowed' = S \ {c}
  <2>1. ASSUME NEW d
        PROVE  d \in Swallowed' <=> d \in S /\ d # c
    <3>1. d \in Swallowed'
            <=> d # NULL /\ \E q \in M : swallowing'[q] = d
      BY DEF Swallowed
    <3>2. d \in S <=> d # NULL /\ \E q \in M : swallowing[q] = d
      BY DEF Swallowed
    <3> QED BY <1>1, <1>4, <1>5, <3>1, <3>2
  <2> QED BY <2>1
<1>7. /\ \A d, e \in M \cup S : win[d] = win[e] => d = e
      /\ \A d \in M \cup S : win[d] # NULL
  BY DEF Structs, Used
<1>8. \A d \in (M \cup S) \ {p, c} :
        win'[d] = win[d] /\ win[d] # win[p] /\ win[d] # win[c]
  BY <1>1, <1>3, <1>7
<1>9. Held' = (Held \ {win[p]}) \cup {y}
  <2>1. ASSUME NEW x
        PROVE  x \in Held' <=> (x \in Held /\ x # win[p]) \/ x = y
    <3>1. x \in Held' <=> \E d \in M : win'[d] = x
      BY DEF Held
    <3>2. x \in Held <=> \E d \in M : win[d] = x
      BY DEF Held
    <3> QED BY <1>1, <1>2, <1>3, <1>8, <3>1, <3>2
  <2> QED BY <2>1
<1>10. Hidden' = Hidden \ {win[c]}
  <2>1. ASSUME NEW x
        PROVE  x \in Hidden' <=> x \in Hidden /\ x # win[c]
    <3>1. x \in Hidden' <=> \E d \in S \ {c} : win'[d] = x
      BY <1>6 DEF Hidden
    <3>2. x \in Hidden <=> \E d \in S : win[d] = x
      BY DEF Hidden
    <3> QED BY <1>1, <1>2, <1>8, <3>1, <3>2
  <2> QED BY <2>1
<1>11. Pairs' \subseteq Pairs
  <2>1. {q \in Managed(wm') : swallowing'[q] # NULL}
          = {q \in M : swallowing[q] # NULL} \ {p}
    BY <1>1, <1>4
  <2>2. ASSUME NEW q \in M \ {p}, swallowing[q] # NULL
        PROVE  /\ win'[q] = win[q]
               /\ win'[swallowing'[q]] = win[swallowing[q]]
    <3>1. swallowing[q] \in S \ {c} /\ swallowing'[q] = swallowing[q]
      BY <1>1, <1>4, <1>5, <2>2 DEF Swallowed
    <3> QED BY <1>1, <1>2, <1>8, <3>1
  <2>3. ASSUME NEW x \in Pairs'
        PROVE  x \in Pairs
    <3>1. PICK q \in {r \in M : swallowing[r] # NULL} \ {p} :
            x = <<win'[q], win'[swallowing'[q]]>>
      BY <2>1 DEF Pairs
    <3>2. x = <<win[q], win[swallowing[q]]>>
      BY <2>2, <3>1
    <3> QED BY <3>1, <3>2 DEF Pairs
  <2> QED BY <2>3
<1>12. Structs'
  <2>1. Used' = (M \cup S) \ {c}
    BY <1>2, <1>1, <1>6 DEF Used
  <2>2. /\ \A d, e \in Used' : win'[d] = win'[e] => d = e
        /\ \A d \in Used' : win'[d] # NULL
    <3>1. \A d \in Used' \ {p} :
            d \in (M \cup S) \ {p, c} /\ win'[d] # y /\ win'[d] # NULL
      BY <1>1, <1>7, <1>8, <2>1
    <3>2. y # NULL
      BY <1>1, <1>7
    <3>3. \A d, e \in Used' \ {p} : win'[d] = win'[e] => d = e
      BY <1>7, <1>8, <3>1
    <3>4. win'[p] = y
      BY <1>3
    <3> QED BY <3>1, <3>2, <3>3, <3>4
  <2>3. Managed(wm') \cap Swallowed' = {}
    BY <1>6 DEF Structs
  <2>4. \A q, r \in Managed(wm') :
          swallowing'[q] = swallowing'[r] /\ q # r => swallowing'[q] = NULL
    BY <1>1, <1>4 DEF Structs
  <2>5. \A d \in Client \ Managed(wm') : swallowing'[d] = NULL
    BY <1>1, <1>4 DEF Structs
  <2> QED BY <2>2, <2>3, <2>4, <2>5 DEF Structs
<1> QED BY <1>9, <1>10, <1>11, <1>12

-----------------------------------------------------------------------------
(* Windows and the events that are on their way                            *)

\* An event of type for window w is queued.
Queued(type, w) ==
  \E i \in 1 .. Len(queue) : queue[i].type = type /\ queue[i].win = w

\* What dwm does not know of its windows yet, an event will tell.
ToldSoon ==
  /\ \A w \in Held :
       window[w] = "mapped" \/ Queued("unmap", w) \/ Queued("destroy", w)
  /\ \A w \in Held \cup Hidden : window[w] = "none" => Queued("destroy", w)

\* A window that asks to be mapped is nobody's, and has no other event but
\* that of its end.
MapsAlone ==
  \A i \in 1 .. Len(queue) :
    LET w == queue[i].win
    IN queue[i].type = "map" =>
         /\ w \notin Held \cup Hidden /\ window[w] # "mapped"
         /\ \A j \in 1 .. Len(queue) :
              queue[j].win = w /\ j # i => queue[j].type = "destroy"

\* Events are still true when they are handled, but for dwm's own.
StillTrue ==
  /\ \A w \in Hidden : window[w] # "mapped"
  /\ \A i \in 1 .. Len(queue) :
       LET w == queue[i].win
       IN /\ queue[i].type = "destroy" => window[w] = "none"
          /\ queue[i].type = "unmap" /\ ~queue[i].own => window[w] # "mapped"

\* What became of a terminal's window before it was hidden is handled before
\* anything that happens to the window in its place.
InOrder ==
  \A pair \in Pairs : \A i, j \in 1 .. Len(queue) :
    /\ queue[i].type = "unmap" /\ ~queue[i].own /\ queue[i].win = pair[2]
    /\ queue[j].win = pair[1]
    => i < j

QueueInv == ToldSoon /\ MapsAlone /\ StillTrue /\ InOrder

SwallowInv == TypeOK /\ Sound(wm) /\ Structs /\ QueueInv
-----------------------------------------------------------------------------
(* What a step does to the queue                                           *)

LEMMA EventTypes ==
  ASSUME TypeOK
  PROVE  /\ Len(queue) \in Nat
         /\ \A i \in 1 .. Len(queue) :
              /\ queue[i] \in Event /\ queue[i].win \in Window
              /\ queue[i].type \in {"map", "unmap", "destroy"}
<1>1. queue \in Seq(Event)
  BY DEF TypeOK
<1>2. Len(queue) \in Nat /\ \A i \in 1 .. Len(queue) : queue[i] \in Event
  BY <1>1
<1>3. \A e \in Event : /\ e.win \in Window
                       /\ e.type \in {"map", "unmap", "destroy"}
  BY DEF Event
<1> QED BY <1>2, <1>3

LEMMA HeadGone ==
  ASSUME TypeOK, queue # << >>
  PROVE  /\ Tail(queue) \in Seq(Event) /\ Head(queue) = queue[1]
         /\ Len(queue) >= 1 /\ Len(Tail(queue)) = Len(queue) - 1
         /\ \A i \in 1 .. Len(queue) - 1 : Tail(queue)[i] = queue[i + 1]
BY DEF TypeOK

\* The first event is handled; its window leaves its list unless it is a new
\* one, a window that is mapped has no event that says otherwise, and the
\* windows on a list are the old ones, a mapped one, or one that was hidden
\* and has been destroyed.
LEMMA EventHandled ==
  ASSUME TypeOK, QueueInv, queue # << >>, queue' = Tail(queue),
         Hidden' \subseteq Hidden, Pairs' \subseteq Pairs,
         \A y \in Held' \ Held :
           \/ window'[y] = "mapped"
           \/ y \in Hidden /\ window'[y] = "none",
         \A y \in Held' \ (Held \cup Hidden) : \A i \in 2 .. Len(queue) :
           ~(queue[i].win = y /\ queue[i].type = "map"),
         \A y \in Window :
           \/ window'[y] = window[y]
           \/ /\ window[y] = "unmapped" /\ window'[y] = "mapped"
              /\ y \notin Hidden'
              /\ \A i \in 2 .. Len(queue) : queue[i].win = y =>
                   /\ queue[i].type # "map"
                   /\ queue[i].type = "unmap" => queue[i].own,
         Held' \cup Hidden' \subseteq Window,
         Head(queue).type = "unmap" => Head(queue).win \notin Held',
         Head(queue).type = "destroy" =>
           Head(queue).win \notin Held' \cup Hidden'
  PROVE  QueueInv'
<1> DEFINE n == Len(queue)
           q == queue'
<1>1. /\ n \in Nat /\ n >= 1 /\ Len(q) = n - 1 /\ Head(queue) = queue[1]
      /\ \A i \in 1 .. n - 1 : q[i] = queue[i + 1]
  BY HeadGone, EventTypes
<1>2. \A i \in 1 .. n : /\ queue[i].win \in Window
                        /\ queue[i].type \in {"map", "unmap", "destroy"}
  BY EventTypes
<1>3. \A i \in 1 .. n - 1 : i + 1 \in 2 .. n /\ i + 1 \in 1 .. n
  BY <1>1
<1> HIDE DEF n, q
<1>4. ASSUME NEW type, NEW w, Queued(type, w),
             ~(queue[1].type = type /\ queue[1].win = w)
      PROVE  (Queued(type, w))'
  <2>1. PICK i \in 1 .. n : queue[i].type = type /\ queue[i].win = w
    BY <1>4 DEF Queued, n
  <2>2. i - 1 \in 1 .. n - 1 /\ (i - 1) + 1 = i
    BY <1>1, <1>4, <2>1
  <2>3. /\ i - 1 \in 1 .. Len(q) /\ q[i - 1].type = type
        /\ q[i - 1].win = w
    BY <1>1, <2>1, <2>2
  <2> QED BY <2>3 DEF Queued, q
<1>5. ToldSoon'
  <2>1. ASSUME NEW w \in Held'
        PROVE  window'[w] = "mapped" \/ (Queued("unmap", w) \/ Queued("destroy", w))'
    <3>1. CASE w \notin Held
      <4>1. window'[w] = "mapped" \/ (w \in Hidden /\ window'[w] = "none")
        BY <3>1
      <4>2. CASE w \in Hidden /\ window'[w] = "none"
        <5>1. window[w] = "none" /\ w \in Window
          BY <4>2
        <5>2. Queued("destroy", w)
          BY <4>2, <5>1 DEF QueueInv, ToldSoon
        <5>3. ~(queue[1].type = "destroy" /\ queue[1].win = w)
          BY <1>1
        <5> QED BY <1>4, <5>2, <5>3
      <4> QED BY <4>1, <4>2
    <3>2. CASE w \in Held
      <4>1. \/ window[w] = "mapped" \/ Queued("unmap", w)
            \/ Queued("destroy", w)
        BY <3>2 DEF QueueInv, ToldSoon
      <4>2. /\ ~(queue[1].type = "unmap" /\ queue[1].win = w)
            /\ ~(queue[1].type = "destroy" /\ queue[1].win = w)
        BY <1>1
      <4>3. window[w] = "mapped" => window'[w] = "mapped"
        OBVIOUS
      <4> QED BY <1>4, <4>1, <4>2, <4>3
    <3> QED BY <3>1, <3>2
  <2>2. ASSUME NEW w \in Held' \cup Hidden', window'[w] = "none"
        PROVE  (Queued("destroy", w))'
    <3>1. window[w] = "none" /\ w \in Window
      BY <2>2
    <3>2. w \in Held \cup Hidden
      BY <2>2
    <3>3. Queued("destroy", w)
      BY <3>1, <3>2 DEF QueueInv, ToldSoon
    <3>4. ~(queue[1].type = "destroy" /\ queue[1].win = w)
      BY <1>1
    <3> QED BY <1>4, <3>3, <3>4
  <2> QED BY <2>1, <2>2 DEF ToldSoon
<1>6. MapsAlone'
  <2>1. ASSUME NEW i \in 1 .. Len(q), q[i].type = "map"
        PROVE  /\ q[i].win \notin Held' \cup Hidden'
               /\ window'[q[i].win] # "mapped"
               /\ \A j \in 1 .. Len(q) :
                    q[j].win = q[i].win /\ j # i => q[j].type = "destroy"
    <3> DEFINE w == queue[i + 1].win
    <3>1. /\ i + 1 \in 2 .. n /\ i + 1 \in 1 .. n /\ q[i] = queue[i + 1]
          /\ w \in Window /\ queue[i + 1].type = "map"
      BY <1>1, <1>2, <1>3, <2>1
    <3>2. /\ w \notin Held \cup Hidden /\ window[w] # "mapped"
          /\ \A j \in 1 .. n :
               queue[j].win = w /\ j # i + 1 => queue[j].type = "destroy"
      BY <3>1 DEF QueueInv, MapsAlone, n
    <3>3. w \notin Held' \cup Hidden'
      BY <3>1, <3>2 DEF n
    <3>4. window'[w] # "mapped"
      BY <3>1, <3>2 DEF n
    <3>5. \A j \in 1 .. Len(q) :
            q[j].win = w /\ j # i => q[j].type = "destroy"
      <4> TAKE j \in 1 .. Len(q)
      <4>1. j + 1 \in 1 .. n /\ q[j] = queue[j + 1] /\ (j # i => j + 1 # i + 1)
        BY <1>1, <1>3
      <4> QED BY <3>2, <4>1
    <3> QED BY <3>1, <3>3, <3>4, <3>5
  <2> QED BY <2>1 DEF MapsAlone, q
<1>7. StillTrue'
  <2>1. \A w \in Hidden' : window'[w] # "mapped"
    BY DEF QueueInv, StillTrue
  <2>2. ASSUME NEW i \in 1 .. Len(q)
        PROVE  /\ q[i].type = "destroy" => window'[q[i].win] = "none"
               /\ q[i].type = "unmap" /\ ~q[i].own =>
                    window'[q[i].win] # "mapped"
    <3>1. /\ i + 1 \in 2 .. n /\ i + 1 \in 1 .. n /\ q[i] = queue[i + 1]
          /\ queue[i + 1].win \in Window
      BY <1>1, <1>2, <1>3
    <3>2. /\ queue[i + 1].type = "destroy" => window[queue[i + 1].win] = "none"
          /\ queue[i + 1].type = "unmap" /\ ~queue[i + 1].own =>
               window[queue[i + 1].win] # "mapped"
      BY <3>1 DEF QueueInv, StillTrue, n
    <3> QED BY <3>1, <3>2 DEF n
  <2> QED BY <2>1, <2>2 DEF StillTrue, q
<1>8. InOrder'
  <2>1. ASSUME NEW pair \in Pairs', NEW i \in 1 .. Len(q), NEW j \in 1 .. Len(q),
               q[i].type = "unmap", ~q[i].own, q[i].win = pair[2],
               q[j].win = pair[1]
        PROVE  i < j
    <3>1. /\ i + 1 \in 1 .. n /\ q[i] = queue[i + 1]
          /\ j + 1 \in 1 .. n /\ q[j] = queue[j + 1] /\ pair \in Pairs
      BY <1>1, <1>3
    <3>2. i + 1 < j + 1
      BY <2>1, <3>1 DEF QueueInv, InOrder, n
    <3>3. i \in Nat /\ j \in Nat
      BY <1>1
    <3> QED BY <3>2, <3>3
  <2> QED BY <2>1 DEF InOrder, q
<1> QED BY <1>5, <1>6, <1>7, <1>8 DEF QueueInv

\* A program changes its window w to v, and the events in evs follow.
LEMMA EventsCaused ==
  ASSUME TypeOK, QueueInv, Structs, ListInv(wm),
         NEW w \in Window, NEW v \in {"none", "unmapped"},
         NEW evs \in Seq(Event), window' = [window EXCEPT ![w] = v],
         queue' = queue \o evs,
         Held' = Held, Hidden' = Hidden, Pairs' = Pairs,
         \A k \in 1 .. Len(evs) : evs[k].win = w,
         w \in Held => \E k \in 1 .. Len(evs) : evs[k].type \in {"unmap", "destroy"},
         v = "none" => \E k \in 1 .. Len(evs) : evs[k].type = "destroy",
         \A k \in 1 .. Len(evs) : evs[k].type = "map" =>
           Len(evs) = 1 /\ w \notin Held \cup Hidden /\ ~Pending(w),
         Queued("map", w) =>
           \A k \in 1 .. Len(evs) : evs[k].type = "destroy",
         \A k \in 1 .. Len(evs) : evs[k].type = "destroy" => v = "none",
         Queued("destroy", w) => v = "none",
         \A k \in 1 .. Len(evs) : evs[k].type = "unmap" => w \notin Hidden
  PROVE  QueueInv'
<1> DEFINE n == Len(queue)
           m == Len(evs)
           q == queue'
<1>1. n \in Nat /\ m \in Nat /\ Len(q) = n + m /\ queue \in Seq(Event)
  BY EventTypes DEF TypeOK
<1>2. /\ \A j \in 1 .. n : q[j] = queue[j] /\ j \in 1 .. Len(q)
      /\ \A k \in 1 .. m : q[n + k] = evs[k] /\ n + k \in 1 .. Len(q)
  BY <1>1
<1>3. \A j \in 1 .. Len(q) :
        \/ j \in 1 .. n /\ q[j] = queue[j]
        \/ j \notin 1 .. n /\ j - n \in 1 .. m /\ q[j] = evs[j - n]
  BY <1>1
<1>4. \A j \in 1 .. n : queue[j].win \in Window
  BY EventTypes
<1>5. \A y \in Window : window'[y] = IF y = w THEN v ELSE window[y]
  BY DEF TypeOK
<1>6. /\ Held \cap Hidden = {} /\ Held \cup Hidden \subseteq Window
      /\ \A pair \in Pairs : pair[1] \in Held /\ pair[2] \in Hidden
  BY HeldOrHidden
<1>7. DOMAIN queue = 1 .. n
  BY <1>1
<1> HIDE DEF n, m, q
<1>8. ASSUME NEW type, NEW y, Queued(type, y)
      PROVE  (Queued(type, y))'
  <2>1. PICK i \in 1 .. n : queue[i].type = type /\ queue[i].win = y
    BY <1>8 DEF Queued, n
  <2>2. i \in 1 .. Len(q) /\ q[i].type = type /\ q[i].win = y
    BY <1>2, <2>1
  <2> QED BY <2>2 DEF Queued, q
<1>9. ASSUME NEW k \in 1 .. m
      PROVE  (Queued(evs[k].type, w))'
  <2>1. /\ n + k \in 1 .. Len(q) /\ q[n + k].type = evs[k].type
        /\ q[n + k].win = w
    BY <1>2 DEF m
  <2> QED BY <2>1 DEF Queued, q
<1>10. ToldSoon'
  <2>1. ASSUME NEW y \in Held
        PROVE  window'[y] = "mapped" \/ (Queued("unmap", y))'
                                     \/ (Queued("destroy", y))'
    <3>1. CASE y = w
      <4>1. PICK k \in 1 .. m : evs[k].type \in {"unmap", "destroy"}
        BY <2>1, <3>1 DEF m
      <4> QED BY <1>9, <3>1, <4>1
    <3>2. CASE y # w
      <4>1. window'[y] = window[y]
        BY <1>5, <1>6, <3>2
      <4>2. \/ window[y] = "mapped" \/ Queued("unmap", y)
            \/ Queued("destroy", y)
        BY DEF QueueInv, ToldSoon
      <4> QED BY <1>8, <4>1, <4>2
    <3> QED BY <3>1, <3>2
  <2>2. ASSUME NEW y \in Held \cup Hidden, window'[y] = "none"
        PROVE  (Queued("destroy", y))'
    <3>1. CASE y = w
      <4>1. v = "none"
        BY <1>5, <2>2, <3>1
      <4>2. PICK k \in 1 .. m : evs[k].type = "destroy"
        BY <4>1 DEF m
      <4> QED BY <1>9, <3>1, <4>2
    <3>2. CASE y # w
      <4>1. window[y] = "none"
        BY <1>5, <1>6, <2>2, <3>2
      <4>2. Queued("destroy", y)
        BY <4>1 DEF QueueInv, ToldSoon
      <4> QED BY <1>8, <4>2
    <3> QED BY <3>1, <3>2
  <2> QED BY <2>1, <2>2 DEF ToldSoon
<1>11. MapsAlone'
  <2>1. ASSUME NEW i \in 1 .. Len(q), q[i].type = "map"
        PROVE  /\ q[i].win \notin Held \cup Hidden
               /\ window'[q[i].win] # "mapped"
               /\ \A j \in 1 .. Len(q) :
                    q[j].win = q[i].win /\ j # i => q[j].type = "destroy"
    <3>1. CASE i \in 1 .. n /\ q[i] = queue[i]
      <4> DEFINE y == queue[i].win
      <4>1. /\ y \notin Held \cup Hidden /\ window[y] # "mapped"
            /\ \A j \in 1 .. n :
                 queue[j].win = y /\ j # i => queue[j].type = "destroy"
        BY <2>1, <3>1 DEF QueueInv, MapsAlone, n
      <4>2. window'[y] # "mapped"
        BY <1>4, <1>5, <3>1, <4>1
      <4>3. y = w => \A k \in 1 .. m : evs[k].type = "destroy"
        BY <2>1, <3>1 DEF Queued, n, m
      <4>4. \A j \in 1 .. Len(q) :
              q[j].win = y /\ j # i => q[j].type = "destroy"
        <5> TAKE j \in 1 .. Len(q)
        <5>1. CASE j \in 1 .. n /\ q[j] = queue[j]
          BY <4>1, <5>1
        <5>2. CASE j \notin 1 .. n /\ j - n \in 1 .. m /\ q[j] = evs[j - n]
          <6>1. q[j].win = w
            BY <5>2 DEF m
          <6> QED BY <4>3, <5>2, <6>1
        <5> QED BY <1>3, <5>1, <5>2
      <4> QED BY <3>1, <4>1, <4>2, <4>4
    <3>2. CASE i \notin 1 .. n /\ i - n \in 1 .. m /\ q[i] = evs[i - n]
      <4>1. /\ m = 1 /\ w \notin Held \cup Hidden /\ ~Pending(w)
            /\ q[i].win = w
        BY <2>1, <3>2 DEF m
      <4>2. window'[w] # "mapped"
        BY <1>5
      <4>3. \A j \in 1 .. n : queue[j].win # w
        BY <1>7, <4>1 DEF Pending
      <4>4. \A j \in 1 .. Len(q) : q[j].win = w => j = i
        <5> TAKE j \in 1 .. Len(q)
        <5>1. CASE j \in 1 .. n /\ q[j] = queue[j]
          BY <4>3, <5>1
        <5>2. CASE j - n \in 1 .. m
          BY <1>1, <3>2, <4>1, <5>2
        <5> QED BY <1>3, <5>1, <5>2
      <4> QED BY <4>1, <4>2, <4>4
    <3> QED BY <1>3, <3>1, <3>2
  <2> QED BY <2>1 DEF MapsAlone, q
<1>12. StillTrue'
  <2>1. \A y \in Hidden : window'[y] # "mapped"
    BY <1>5, <1>6 DEF QueueInv, StillTrue
  <2>2. ASSUME NEW i \in 1 .. Len(q)
        PROVE  /\ q[i].type = "destroy" => window'[q[i].win] = "none"
               /\ q[i].type = "unmap" /\ ~q[i].own =>
                    window'[q[i].win] # "mapped"
    <3>1. CASE i \in 1 .. n /\ q[i] = queue[i]
      <4> DEFINE y == queue[i].win
      <4>1. /\ queue[i].type = "destroy" => window[y] = "none"
            /\ queue[i].type = "unmap" /\ ~queue[i].own =>
                 window[y] # "mapped"
        BY <3>1 DEF QueueInv, StillTrue, n
      <4>2. queue[i].type = "destroy" /\ y = w => v = "none"
        BY <3>1 DEF Queued, n
      <4>3. window'[y] = IF y = w THEN v ELSE window[y]
        BY <1>4, <1>5, <3>1
      <4> QED BY <3>1, <4>1, <4>2, <4>3
    <3>2. CASE i - n \in 1 .. m /\ q[i] = evs[i - n]
      <4>1. q[i].win = w /\ (q[i].type = "destroy" => v = "none")
        BY <3>2 DEF m
      <4> QED BY <1>5, <4>1
    <3> QED BY <1>3, <3>1, <3>2
  <2> QED BY <2>1, <2>2 DEF StillTrue, q
<1>13. InOrder'
  <2>1. ASSUME NEW pair \in Pairs, NEW i \in 1 .. Len(q), NEW j \in 1 .. Len(q),
               q[i].type = "unmap", ~q[i].own, q[i].win = pair[2],
               q[j].win = pair[1]
        PROVE  i < j
    <3>1. i \in 1 .. n /\ q[i] = queue[i]
      <4>1. ASSUME i - n \in 1 .. m, q[i] = evs[i - n]
            PROVE  FALSE
        <5>1. q[i].win = w /\ w \notin Hidden
          BY <2>1, <4>1 DEF m
        <5> QED BY <1>6, <2>1, <5>1
      <4> QED BY <1>3, <4>1
    <3>2. CASE j \in 1 .. n /\ q[j] = queue[j]
      BY <2>1, <3>1, <3>2 DEF QueueInv, InOrder, n
    <3>3. CASE j \notin 1 .. n
      BY <1>1, <3>1, <3>3
    <3> QED BY <1>3, <3>2, <3>3
  <2> QED BY <2>1 DEF InOrder, q
<1> QED BY <1>10, <1>11, <1>12, <1>13 DEF QueueInv

\* The request to map w ends with w in the place of h, which is unmapped; the
\* program may have changed w meanwhile.
LEMMA RequestSwallowed ==
  ASSUME TypeOK, QueueInv, Structs, ListInv(wm), queue # << >>,
         NEW w \in Window, Head(queue).type = "map", Head(queue).win = w,
         window[w] # "none", NEW h \in Held,
         NEW left \in {"mapped", "unmapped", "none"},
         NEW evs \in Seq(Event), queue' = Tail(queue) \o evs,
         window' = [window EXCEPT
            ![w] = left, ![h] = IF @ = "mapped" THEN "unmapped" ELSE @],
         Held' = (Held \ {h}) \cup {w}, Hidden' = Hidden \cup {h},
         Pairs' = Pairs \cup {<<w, h>>},
         \A k \in 1 .. Len(evs) :
           \/ evs[k] = Unmapped(w, FALSE) /\ left # "mapped"
           \/ evs[k] = Destroyed(w) /\ left = "none"
           \/ evs[k] = Unmapped(h, TRUE),
         left # "mapped" => \E k \in 1 .. Len(evs) : evs[k] = Unmapped(w, FALSE),
         left = "none" => \E k \in 1 .. Len(evs) : evs[k] = Destroyed(w)
  PROVE  QueueInv'
<1> DEFINE n == Len(queue)
           m == Len(evs)
           q == queue'
<1>1. /\ n \in Nat /\ n >= 1 /\ m \in Nat /\ Len(q) = (n - 1) + m
      /\ Head(queue) = queue[1]
      /\ \A j \in 1 .. n - 1 : Tail(queue)[j] = queue[j + 1]
      /\ Tail(queue) \in Seq(Event) /\ Len(Tail(queue)) = n - 1
  BY HeadGone, EventTypes
<1>2. /\ \A j \in 2 .. n : q[j - 1] = queue[j] /\ j - 1 \in 1 .. Len(q)
      /\ \A k \in 1 .. m : /\ q[(n - 1) + k] = evs[k]
                           /\ (n - 1) + k \in 1 .. Len(q)
  <2>1. \A j \in 2 .. n : j - 1 \in 1 .. n - 1 /\ (j - 1) + 1 = j
    BY <1>1
  <2> QED BY <1>1, <2>1
<1>3. \A j \in 1 .. Len(q) :
        \/ /\ j \in 1 .. n - 1 /\ j + 1 \in 2 .. n /\ j + 1 \in 1 .. n
           /\ q[j] = queue[j + 1]
        \/ /\ j \notin 1 .. n - 1 /\ j - (n - 1) \in 1 .. m
           /\ q[j] = evs[j - (n - 1)]
  BY <1>1
<1>4. \A j \in 1 .. n : queue[j].win \in Window
  BY EventTypes
<1>5. /\ Held \cap Hidden = {} /\ Held \cup Hidden \subseteq Window
      /\ \A pair \in Pairs : pair[1] \in Held /\ pair[2] \in Hidden
  BY HeldOrHidden
<1>6. /\ w \notin Held \cup Hidden
      /\ \A j \in 1 .. n : queue[j].win = w /\ j # 1 => queue[j].type = "destroy"
  BY <1>1 DEF QueueInv, MapsAlone
<1>7. \A j \in 2 .. n : queue[j].win # w
  <2>1. \A j \in 1 .. n : queue[j].type = "destroy" => window[queue[j].win] = "none"
    BY DEF QueueInv, StillTrue
  <2>2. \A j \in 2 .. n : j \in 1 .. n /\ j # 1
    BY <1>1
  <2> QED BY <1>6, <2>1, <2>2
<1>8. w # h /\ h \in Window
  BY <1>5, <1>6
<1>9. /\ window'[w] = left
      /\ window'[h] # "mapped"
      /\ window'[h] = "none" <=> window[h] = "none"
      /\ window[h] # "mapped" => window'[h] = window[h]
      /\ \A y \in Window \ {w, h} : window'[y] = window[y]
  <2>1. window \in [Window -> {"none", "unmapped", "mapped"}]
    BY DEF TypeOK
  <2>2. window'[h] = IF window[h] = "mapped" THEN "unmapped" ELSE window[h]
    BY <1>8, <2>1
  <2>3. CASE window[h] = "mapped"
    BY <1>8, <2>1, <2>2, <2>3
  <2>4. CASE window[h] # "mapped"
    BY <1>8, <2>1, <2>2, <2>4
  <2> QED BY <2>3, <2>4
<1>10. \A k \in 1 .. m :
         /\ evs[k].type # "map" /\ evs[k].win \in {w, h}
         /\ evs[k].type = "destroy" => evs[k].win = w /\ left = "none"
         /\ evs[k].type = "unmap" /\ ~evs[k].own =>
              evs[k].win = w /\ left # "mapped"
  BY DEF Unmapped, Destroyed
<1> HIDE DEF n, m, q
<1>11. ASSUME NEW type, type # "map", NEW y, Queued(type, y)
       PROVE  (Queued(type, y))'
  <2>1. PICK i \in 1 .. n : queue[i].type = type /\ queue[i].win = y
    BY <1>11 DEF Queued, n
  <2>2. i \in 2 .. n
    BY <1>1, <1>11, <2>1
  <2>3. i - 1 \in 1 .. Len(q) /\ q[i - 1].type = type /\ q[i - 1].win = y
    BY <1>2, <2>1, <2>2
  <2> QED BY <2>3 DEF Queued, q
<1>12. ASSUME NEW k \in 1 .. m
       PROVE  (Queued(evs[k].type, evs[k].win))'
  <2>1. /\ (n - 1) + k \in 1 .. Len(q) /\ q[(n - 1) + k] = evs[k]
    BY <1>2
  <2> QED BY <2>1 DEF Queued, q
<1>13. left # "mapped" => (Queued("unmap", w))'
  <2>1. ASSUME left # "mapped"
        PROVE  (Queued("unmap", w))'
    <3>1. PICK k \in 1 .. m : evs[k] = Unmapped(w, FALSE)
      BY <2>1 DEF m
    <3>2. evs[k].type = "unmap" /\ evs[k].win = w
      BY <3>1 DEF Unmapped
    <3> QED BY <1>12, <3>2
  <2> QED BY <2>1
<1>14. left = "none" => (Queued("destroy", w))'
  <2>1. ASSUME left = "none"
        PROVE  (Queued("destroy", w))'
    <3>1. PICK k \in 1 .. m : evs[k] = Destroyed(w)
      BY <2>1 DEF m
    <3>2. evs[k].type = "destroy" /\ evs[k].win = w
      BY <3>1 DEF Destroyed
    <3> QED BY <1>12, <3>2
  <2> QED BY <2>1
<1>15. ToldSoon'
  <2>1. ASSUME NEW y \in Held'
        PROVE  window'[y] = "mapped" \/ (Queued("unmap", y))'
                                     \/ (Queued("destroy", y))'
    <3>1. CASE y = w
      BY <1>9, <1>13, <3>1
    <3>2. CASE y # w
      <4>1. y \in Held /\ y \in Window \ {w, h}
        BY <1>5, <3>2
      <4>2. \/ window[y] = "mapped" \/ Queued("unmap", y)
            \/ Queued("destroy", y)
        BY <4>1 DEF QueueInv, ToldSoon
      <4> QED BY <1>9, <1>11, <4>1, <4>2
    <3> QED BY <3>1, <3>2
  <2>2. ASSUME NEW y \in Held' \cup Hidden', window'[y] = "none"
        PROVE  (Queued("destroy", y))'
    <3>1. CASE y = w
      BY <1>9, <1>14, <2>2, <3>1
    <3>2. CASE y # w
      <4>1. y \in Held \cup Hidden /\ y \in Window /\ window[y] = "none"
        BY <1>5, <1>8, <1>9, <2>2, <3>2
      <4>2. Queued("destroy", y)
        BY <4>1 DEF QueueInv, ToldSoon
      <4> QED BY <1>11, <4>2
    <3> QED BY <3>1, <3>2
  <2> QED BY <2>1, <2>2 DEF ToldSoon
<1>16. MapsAlone'
  <2>1. ASSUME NEW i \in 1 .. Len(q), q[i].type = "map"
        PROVE  /\ q[i].win \notin Held' \cup Hidden'
               /\ window'[q[i].win] # "mapped"
               /\ \A j \in 1 .. Len(q) :
                    q[j].win = q[i].win /\ j # i => q[j].type = "destroy"
    <3> DEFINE y == queue[i + 1].win
    <3>1. /\ i + 1 \in 2 .. n /\ i + 1 \in 1 .. n /\ q[i] = queue[i + 1]
          /\ i \in 1 .. n - 1
      BY <1>3, <1>10, <2>1
    <3>2. /\ y \notin Held \cup Hidden /\ window[y] # "mapped"
          /\ \A j \in 1 .. n :
               queue[j].win = y /\ j # i + 1 => queue[j].type = "destroy"
      BY <2>1, <3>1 DEF QueueInv, MapsAlone, n
    <3>3. y \in Window \ {w, h}
      BY <1>4, <1>7, <3>1, <3>2
    <3>4. \A j \in 1 .. Len(q) : q[j].win = y /\ j # i => q[j].type = "destroy"
      <4> TAKE j \in 1 .. Len(q)
      <4>1. CASE j + 1 \in 1 .. n /\ q[j] = queue[j + 1]
        <5>1. j # i => j + 1 # i + 1
          BY <1>1, <3>1
        <5> QED BY <3>2, <4>1, <5>1
      <4>2. CASE j - (n - 1) \in 1 .. m /\ q[j] = evs[j - (n - 1)]
        BY <1>10, <3>3, <4>2
      <4> QED BY <1>3, <4>1, <4>2
    <3> QED BY <1>9, <3>1, <3>2, <3>3, <3>4
  <2> QED BY <2>1 DEF MapsAlone, q
<1>17. StillTrue'
  <2>1. \A y \in Hidden' : window'[y] # "mapped"
    <3> TAKE y \in Hidden'
    <3>1. CASE y = h
      BY <1>9, <3>1
    <3>2. CASE y # h
      <4>1. y \in Hidden /\ y \in Window \ {w, h}
        BY <1>5, <1>6, <3>2
      <4> QED BY <1>9, <4>1 DEF QueueInv, StillTrue
    <3> QED BY <3>1, <3>2
  <2>2. ASSUME NEW i \in 1 .. Len(q)
        PROVE  /\ q[i].type = "destroy" => window'[q[i].win] = "none"
               /\ q[i].type = "unmap" /\ ~q[i].own =>
                    window'[q[i].win] # "mapped"
    <3>1. CASE i + 1 \in 2 .. n /\ i + 1 \in 1 .. n /\ q[i] = queue[i + 1]
      <4> DEFINE y == queue[i + 1].win
      <4>1. /\ queue[i + 1].type = "destroy" => window[y] = "none"
            /\ queue[i + 1].type = "unmap" /\ ~queue[i + 1].own =>
                 window[y] # "mapped"
        BY <3>1 DEF QueueInv, StillTrue, n
      <4>2. y \in Window /\ y # w
        BY <1>4, <1>7, <3>1
      <4>3. window[y] # "mapped" => window'[y] = window[y]
        BY <1>9, <4>2
      <4> QED BY <3>1, <4>1, <4>3
    <3>2. CASE i - (n - 1) \in 1 .. m /\ q[i] = evs[i - (n - 1)]
      BY <1>9, <1>10, <3>2
    <3> QED BY <1>3, <3>1, <3>2
  <2> QED BY <2>1, <2>2 DEF StillTrue, q
<1>18. InOrder'
  <2>1. ASSUME NEW pair \in Pairs', NEW i \in 1 .. Len(q), NEW j \in 1 .. Len(q),
               q[i].type = "unmap", ~q[i].own, q[i].win = pair[2],
               q[j].win = pair[1]
        PROVE  i < j
    <3>1. pair[2] # w
      <4>1. CASE pair \in Pairs
        BY <1>5, <1>6, <4>1
      <4>2. CASE pair = <<w, h>>
        BY <1>8, <4>2
      <4>3. pair \in Pairs \/ pair = <<w, h>>
        BY <2>1, Zenon
      <4> QED BY <4>1, <4>2, <4>3
    <3>2. i \in 1 .. n - 1 /\ i + 1 \in 1 .. n /\ q[i] = queue[i + 1]
      <4>1. ASSUME i - (n - 1) \in 1 .. m, q[i] = evs[i - (n - 1)]
            PROVE  FALSE
        <5>1. q[i].win = w
          BY <1>10, <2>1, <4>1
        <5> QED BY <2>1, <3>1, <5>1
      <4> QED BY <1>3, <4>1
    <3>3. CASE j \notin 1 .. n - 1
      BY <1>1, <3>2, <3>3
    <3>4. CASE j + 1 \in 2 .. n /\ j + 1 \in 1 .. n /\ q[j] = queue[j + 1]
      <4>1. pair[1] # w
        BY <1>7, <2>1, <3>4
      <4>2. pair \in Pairs
        BY <4>1
      <4>3. i + 1 < j + 1
        BY <2>1, <3>2, <3>4, <4>2 DEF QueueInv, InOrder, n
      <4>4. i \in Nat /\ j \in Nat
        BY <1>1
      <4> QED BY <4>3, <4>4
    <3> QED BY <1>3, <3>3, <3>4
  <2> QED BY <2>1 DEF InOrder, q
<1> QED BY <1>15, <1>16, <1>17, <1>18 DEF QueueInv

-----------------------------------------------------------------------------
(* The structs in each step                                                *)

LEMMA ManagedGrows ==
  ASSUME NEW s, NEW t, ListInv(s), ListInv(t), NEW c,
         \A d : In(t, d) <=> In(s, d) \/ d = c
  PROVE  Managed(t) = Managed(s) \cup {c}
<1>1. \A d : d \in Managed(t) <=> d \in Managed(s) \/ d = c
  BY ManagedIff
<1> QED BY <1>1

LEMMA ManagedShrinks ==
  ASSUME NEW s, NEW t, ListInv(s), ListInv(t), NEW c,
         \A d : In(t, d) <=> In(s, d) /\ d # c
  PROVE  Managed(t) = Managed(s) \ {c}
<1>1. \A d : d \in Managed(t) <=> d \in Managed(s) /\ d # c
  BY ManagedIff
<1> QED BY <1>1

\* calloc() returns a struct that no list and no pointer refers to.
LEMMA UnusedOut ==
  ASSUME SwallowInv, NEW c \in Unused
  PROVE  c \in Client /\ Out(wm, c) /\ c \notin Managed(wm)
BY ManagedIn DEF Unused, SwallowInv, Sound

\* A swallowed client is on no list.
LEMMA SwallowedOut ==
  ASSUME SwallowInv, NEW p \in Managed(wm), swallowing[p] # NULL
  PROVE  Out(wm, swallowing[p]) /\ swallowing[p] \in Client
<1>1. swallowing[p] \in Swallowed /\ swallowing[p] \in Client
  BY ManagedClients DEF SwallowInv, Sound, Swallowed
<1>2. swallowing[p] \notin Managed(wm)
  BY <1>1 DEF SwallowInv, Structs
<1> QED BY <1>1, <1>2, ManagedIn DEF SwallowInv, Sound

\* termforwin() finds a client on a list that has swallowed none.
LEMMA TermForWinFinds ==
  ASSUME NEW s, ListInv(s), NEW term, NEW c, NEW w,
         TermForWin(s, term, c, w) # NULL
  PROVE  LET p == TermForWin(s, term, c, w)
         IN p \in Managed(s) /\ swallowing[p] = NULL
<1> DEFINE Swallower(p) ==
             term[p] /\ swallowing[p] = NULL /\ pid[p] \in Ancestors(w)
           I(m) == {i \in 1 .. Len(s.clients[m]) : Swallower(s.clients[m][i])}
           First(m) == IF I(m) # {} THEN Min(I(m)) ELSE 0
           ms == {m \in Mons(s) : First(m) # 0}
           p == TermForWin(s, term, c, w)
<1>1. p = IF term[c] \/ ms = {} THEN NULL
          ELSE s.clients[Min(ms)][First(Min(ms))]
  BY DEF TermForWin, SelectInSeq
<1> HIDE DEF p
<1>2. s \in State /\ Mons(s) \subseteq Mon /\ Mon \subseteq Nat
  <2>1. s \in State /\ s.nmon \in Mon
    BY DEF ListInv, State
  <2>2. MaxMon \in Nat
    BY ConstantsAssumption
  <2> QED BY <2>1, <2>2 DEF Mon, Mons
<1>3. ms # {} /\ ms \in SUBSET Nat
  BY <1>1, <1>2 DEF p
<1>4. Min(ms) \in ms
  BY <1>3, MinNat
<1> DEFINE m == Min(ms)
           q == s.clients[m]
           i == First(m)
<1>5. m \in Mons(s) /\ i # 0 /\ q \in Seq(Client)
  BY <1>2, <1>4 DEF State
<1>6. p = q[i]
  BY <1>1, <1>3 DEF p
<1> HIDE DEF ms, m
<1>7. I(m) # {} /\ I(m) \in SUBSET Nat
  BY <1>5
<1>8. i \in I(m)
  BY <1>7, MinNat
<1>9. i \in 1 .. Len(q) /\ Swallower(q[i])
  BY <1>8
<1> HIDE DEF i, q
<1>10. Contains(q, p) /\ p \in Client
  BY <1>5, <1>6, <1>9 DEF Contains
<1>11. p \in Managed(s)
  BY <1>5, <1>10 DEF Managed, q
<1> QED BY <1>6, <1>9, <1>11 DEF p

\* The structs are as they were and each stays on its lists.
LEMMA NobodyMoves ==
  ASSUME SwallowInv, Sound(wm'), SameIn(wm, wm'),
         UNCHANGED <<win, pid, isterminal, swallowing>>
  PROVE  /\ wm' \in State /\ Structs' /\ Held' = Held /\ Hidden' = Hidden
         /\ Pairs' = Pairs
<1>1. Managed(wm') = Managed(wm)
  BY SameManaged DEF SwallowInv, Sound
<1>2. wm' \in State
  BY DEF Sound, ListInv
<1> QED BY <1>1, <1>2, NothingMoves DEF SwallowInv

LEMMA InitSwallow ==
  ASSUME Init
  PROVE  SwallowInv
<1>1. PICK n \in Mon : \E m \in 1 .. n : wm = InitialState(n, m)
  BY DEF Init
<1>2. PICK m \in 1 .. n : wm = InitialState(n, m)
  BY <1>1
<1>3. Sound(wm) /\ Managed(wm) = {} /\ wm \in State
  BY <1>2, InitialSound DEF Sound, ListInv
<1>4. /\ win = [c \in Client |-> NULL] /\ pid = [c \in Client |-> NULL]
      /\ isterminal = [c \in Client |-> FALSE]
      /\ swallowing = [c \in Client |-> NULL]
      /\ window = [w \in Window |-> "none"] /\ queue = << >>
  BY DEF Init
<1>5. TypeOK
  <2>1. queue \in Seq(Event)
    BY <1>4
  <2> QED BY <1>3, <1>4, <2>1 DEF TypeOK
<1>6. Swallowed = {}
  BY <1>3 DEF Swallowed
<1>7. Held = {} /\ Hidden = {} /\ Used = {}
  BY <1>3, <1>6 DEF Held, Hidden, Used
<1>8. Structs
  BY <1>3, <1>4, <1>6, <1>7 DEF Structs
<1>9. \A i : i \notin 1 .. Len(queue)
  BY <1>4
<1>10. QueueInv
  BY <1>7, <1>9 DEF QueueInv, ToldSoon, MapsAlone, StillTrue, InOrder
<1> QED BY <1>3, <1>5, <1>8, <1>10 DEF SwallowInv

LEMMA UserCommandSwallow ==
  ASSUME SwallowInv, UserCommand
  PROVE  SwallowInv' /\ Held' = Held
<1>1. Sound(wm)
  BY DEF SwallowInv
<1>2. /\ UNCHANGED <<win, pid, isterminal, swallowing, window, queue>>
      /\ \/ \E tag \in Tag : wm' = View(wm, {tag})
         \/ \E dir \in {1, -1} : wm' = FocusMon(wm, dir)
         \/ \E dir \in {1, -1} : wm' = TagMon(wm, dir)
         \/ wm' = ToggleFullscr(wm)
         \/ \E n \in Mon : \E p \in 1 .. n : wm' = ConfigureNotify(wm, n, p)
  BY DEF UserCommand, Command, Others
<1>3. Sound(wm') /\ SameIn(wm, wm')
  <2>1. CASE \E tag \in Tag : wm' = View(wm, {tag})
    <3>1. PICK tag \in Tag : wm' = View(wm, {tag})
      BY <2>1
    <3>2. {tag} \in SUBSET Tag
      OBVIOUS
    <3> QED BY <1>1, <3>1, <3>2, ViewSound
  <2>2. CASE \E dir \in {1, -1} : wm' = FocusMon(wm, dir)
    BY <1>1, <2>2, FocusMonSound
  <2>3. CASE \E dir \in {1, -1} : wm' = TagMon(wm, dir)
    BY <1>1, <2>3, TagMonSound
  <2>4. CASE wm' = ToggleFullscr(wm)
    BY <1>1, <2>4, ToggleFullscrSound
  <2>5. CASE \E n \in Mon : \E p \in 1 .. n : wm' = ConfigureNotify(wm, n, p)
    BY <1>1, <2>5, ConfigureNotifySound
  <2> QED BY <1>2, <2>1, <2>2, <2>3, <2>4, <2>5
<1>4. /\ wm' \in State /\ Structs' /\ Held' = Held /\ Hidden' = Hidden
      /\ Pairs' = Pairs
  BY <1>2, <1>3, NobodyMoves
<1>5. TypeOK'
  BY <1>2, <1>4 DEF SwallowInv, TypeOK
<1>6. QueueInv'
  BY <1>2, <1>4
     DEF SwallowInv, QueueInv, ToldSoon, MapsAlone, StillTrue, InOrder, Queued
<1> QED BY <1>3, <1>4, <1>5, <1>6 DEF SwallowInv

\* What a program does leaves the structs alone.
LEMMA ProgramActs ==
  ASSUME SwallowInv, Sound(wm'), SameIn(wm, wm'), UNCHANGED Others,
         NEW w \in Window, NEW v \in {"none", "unmapped"},
         window' = [window EXCEPT ![w] = v],
         NEW evs \in Seq(Event), queue' = queue \o evs
  PROVE  /\ TypeOK' /\ Structs' /\ Held' = Held /\ Hidden' = Hidden
         /\ Pairs' = Pairs
<1>1. UNCHANGED <<win, pid, isterminal, swallowing>>
  BY DEF Others
<1>2. /\ wm' \in State /\ Structs' /\ Held' = Held /\ Hidden' = Hidden
      /\ Pairs' = Pairs
  BY <1>1, NobodyMoves
<1>3. window' \in [Window -> {"none", "unmapped", "mapped"}]
  BY DEF SwallowInv, TypeOK
<1>4. queue' \in Seq(Event)
  BY ConcatProperties DEF SwallowInv, TypeOK
<1>5. /\ win' \in [Client -> Window \cup {NULL}]
      /\ pid' \in [Client -> Window \cup {NULL}]
      /\ isterminal' \in [Client -> BOOLEAN]
      /\ swallowing' \in [Client -> Client \cup {NULL}]
  BY <1>1 DEF SwallowInv, TypeOK
<1> QED BY <1>2, <1>3, <1>4, <1>5 DEF TypeOK

LEMMA MapWindowSwallow ==
  ASSUME SwallowInv, NEW w \in Window, MapWindow(w)
  PROVE  SwallowInv'
<1> DEFINE e == [type |-> "map", win |-> w, own |-> FALSE]
           evs == <<e>>
<1>1. e \in Event /\ e.type = "map" /\ e.win = w
  BY DEF Event
<1>2. /\ evs \in Seq(Event) /\ Len(evs) = 1
      /\ \A k \in 1 .. Len(evs) : evs[k] = e
  <2> HIDE DEF e
  <2> QED BY <1>1
<1>3. /\ window[w] # "mapped" /\ w \notin Hidden /\ ~Pending(w)
      /\ window[w] = "none" => Holding(w) = {}
      /\ window' = [window EXCEPT ![w] = "unmapped"]
      /\ queue' = Append(queue, e) /\ wm' = wm /\ UNCHANGED Others
  BY DEF MapWindow
<1>4. queue' = queue \o evs
  BY <1>1, <1>3, AppendIsConcat DEF SwallowInv, TypeOK
<1> HIDE DEF evs, e
<1>5. Sound(wm') /\ SameIn(wm, wm')
  BY <1>3 DEF SwallowInv, SameIn
<1>6. /\ TypeOK' /\ Structs' /\ Held' = Held /\ Hidden' = Hidden
      /\ Pairs' = Pairs
  BY <1>2, <1>3, <1>4, <1>5, ProgramActs
<1>7. \A type : ~Queued(type, w)
  <2>1. DOMAIN queue = 1 .. Len(queue)
    BY DEF SwallowInv, TypeOK
  <2> QED BY <1>3, <2>1 DEF Queued, Pending
<1>8. w \notin Held
  <2>1. ASSUME w \in Held
        PROVE  FALSE
    <3>1. window[w] # "none"
      BY <1>3, <2>1 DEF Held, Holding
    <3> QED BY <1>3, <1>7, <2>1 DEF SwallowInv, QueueInv, ToldSoon
  <2> QED BY <2>1
<1>9. QueueInv'
  <2>1. TypeOK /\ QueueInv /\ Structs /\ ListInv(wm)
    BY DEF SwallowInv, Sound
  <2>2. \A k \in 1 .. Len(evs) : evs[k].type = "map" /\ evs[k].win = w
    BY <1>1, <1>2
  <2> QED BY <1>2, <1>3, <1>4, <1>6, <1>7, <1>8, <2>1, <2>2, EventsCaused
<1> QED BY <1>5, <1>6, <1>9 DEF SwallowInv

LEMMA WindowOffSound ==
  ASSUME SwallowInv, NEW w
  PROVE  Sound(WindowOff(w)) /\ SameIn(wm, WindowOff(w))
<1> DEFINE S == Holding(w)
<1>1. S \in SUBSET Client
  BY ManagedClients DEF Holding, SwallowInv, Sound
<1>2. WindowOff(w) = [wm EXCEPT !.gone = [c \in Client |-> @[c] \/ c \in S],
                                !.xfocus = IF @ \in S THEN NULL ELSE @]
  BY DEF WindowOff
<1>3. Sound(wm)
  BY DEF SwallowInv
<1> HIDE DEF S
<1>4. /\ Sound([wm EXCEPT !.gone = [c \in Client |-> @[c] \/ c \in S],
                        !.xfocus = IF @ \in S THEN NULL ELSE @])
      /\ SameIn(wm, [wm EXCEPT !.gone = [c \in Client |-> @[c] \/ c \in S],
                               !.xfocus = IF @ \in S THEN NULL ELSE @])
  BY <1>1, <1>3, OffSound, Zenon
<1> QED BY <1>2, <1>4, Zenon

LEMMA UnmapWindowSwallow ==
  ASSUME SwallowInv, NEW w \in Window, UnmapWindow(w)
  PROVE  SwallowInv'
<1> DEFINE e == Unmapped(w, FALSE)
           evs == <<e>>
<1>1. e \in Event /\ e.type = "unmap" /\ e.win = w
  BY DEF Event, Unmapped
<1>2. /\ evs \in Seq(Event) /\ Len(evs) = 1
      /\ \A k \in 1 .. Len(evs) : evs[k] = e
      /\ \E k \in 1 .. Len(evs) : evs[k] = e
  <2> HIDE DEF e
  <2> QED BY <1>1
<1>3. /\ window[w] = "mapped" /\ window' = [window EXCEPT ![w] = "unmapped"]
      /\ queue' = Append(queue, e) /\ wm' = WindowOff(w) /\ UNCHANGED Others
  BY DEF UnmapWindow
<1>4. queue' = queue \o evs
  BY <1>1, <1>3, AppendIsConcat DEF SwallowInv, TypeOK
<1> HIDE DEF evs, e
<1>5. Sound(wm') /\ SameIn(wm, wm')
  BY <1>3, WindowOffSound
<1>6. /\ TypeOK' /\ Structs' /\ Held' = Held /\ Hidden' = Hidden
      /\ Pairs' = Pairs
  BY <1>2, <1>3, <1>4, <1>5, ProgramActs
<1>7. w \notin Hidden /\ ~Queued("map", w) /\ ~Queued("destroy", w)
  BY <1>3 DEF SwallowInv, QueueInv, StillTrue, MapsAlone, Queued
<1>8. QueueInv'
  <2>1. TypeOK /\ QueueInv /\ Structs /\ ListInv(wm)
    BY DEF SwallowInv, Sound
  <2>2. /\ \A k \in 1 .. Len(evs) : evs[k].type = "unmap" /\ evs[k].win = w
        /\ \E k \in 1 .. Len(evs) : evs[k].type \in {"unmap", "destroy"}
    BY <1>1, <1>2
  <2> QED BY <1>2, <1>3, <1>4, <1>6, <1>7, <2>1, <2>2, EventsCaused
<1> QED BY <1>5, <1>6, <1>8 DEF SwallowInv

LEMMA ConcatElements ==
  ASSUME NEW a \in Seq(Event), NEW b \in Seq(Event)
  PROVE  /\ a \o b \in Seq(Event)
         /\ \A k \in 1 .. Len(a \o b) :
              \/ \E i \in 1 .. Len(a) : (a \o b)[k] = a[i]
              \/ \E i \in 1 .. Len(b) : (a \o b)[k] = b[i]
         /\ \A i \in 1 .. Len(a) : \E k \in 1 .. Len(a \o b) : (a \o b)[k] = a[i]
         /\ \A i \in 1 .. Len(b) : \E k \in 1 .. Len(a \o b) : (a \o b)[k] = b[i]
<1> DEFINE q == a \o b
           n == Len(a)
           m == Len(b)
<1>1. /\ n \in Nat /\ m \in Nat /\ q \in Seq(Event) /\ Len(q) = n + m
      /\ \A i \in 1 .. n + m : q[i] = IF i <= n THEN a[i] ELSE b[i - n]
  BY ConcatProperties, LenProperties
<1> HIDE DEF q, n, m
<1>2. ASSUME NEW k \in 1 .. n + m
      PROVE  (\E i \in 1 .. n : q[k] = a[i]) \/ \E i \in 1 .. m : q[k] = b[i]
  <2>1. CASE k <= n
    <3>1. k \in 1 .. n /\ q[k] = a[k]
      BY <1>1, <2>1
    <3> QED BY <3>1
  <2>2. CASE ~(k <= n)
    <3>1. k - n \in 1 .. m /\ q[k] = b[k - n]
      BY <1>1, <2>2
    <3> QED BY <3>1
  <2> QED BY <2>1, <2>2
<1>3. \A i \in 1 .. n : i \in 1 .. n + m /\ q[i] = a[i]
  BY <1>1
<1>4. \A i \in 1 .. m : n + i \in 1 .. n + m /\ q[n + i] = b[i]
  <2> TAKE i \in 1 .. m
  <2>1. n + i \in 1 .. n + m /\ ~(n + i <= n) /\ (n + i) - n = i
    BY <1>1
  <2> QED BY <1>1, <2>1
<1>5. /\ \A i \in 1 .. n : \E k \in 1 .. n + m : q[k] = a[i]
      /\ \A i \in 1 .. m : \E k \in 1 .. n + m : q[k] = b[i]
  BY <1>3, <1>4
<1> QED BY <1>1, <1>2, <1>5 DEF q, n, m

LEMMA ConcatTwice ==
  ASSUME NEW a \in Seq(Event), NEW b \in Seq(Event), NEW c \in Seq(Event)
  PROVE  (a \o b) \o c = a \o (b \o c)
BY ConcatAssociative

LEMMA DestroyWindowSwallow ==
  ASSUME SwallowInv, NEW w \in Window, DestroyWindow(w)
  PROVE  SwallowInv'
<1> DEFINE e == Unmapped(w, FALSE)
           d == Destroyed(w)
           first == IF window[w] = "mapped" THEN <<e>> ELSE << >>
           last == <<d>>
           evs == first \o last
<1>1. /\ e \in Event /\ e.type = "unmap" /\ e.win = w
      /\ d \in Event /\ d.type = "destroy" /\ d.win = w
  BY DEF Event, Unmapped, Destroyed
<1>2. /\ window' = [window EXCEPT ![w] = "none"]
      /\ queue' = (queue \o first) \o last /\ wm' = WindowOff(w)
      /\ UNCHANGED Others
  BY DEF DestroyWindow
<1> HIDE DEF e, d
<1>3. /\ first \in Seq(Event) /\ last \in Seq(Event)
      /\ \A k \in 1 .. Len(first) : first[k] = e /\ window[w] = "mapped"
      /\ \A k \in 1 .. Len(last) : last[k] = d
      /\ 1 \in 1 .. Len(last) /\ last[1] = d
  <2>1. /\ last \in Seq(Event) /\ 1 \in 1 .. Len(last) /\ last[1] = d
        /\ \A k \in 1 .. Len(last) : last[k] = d
    BY <1>1
  <2>2. CASE window[w] = "mapped"
    <3>1. first = <<e>>
      BY <2>2
    <3>2. first \in Seq(Event) /\ \A k \in 1 .. Len(first) : first[k] = e
      BY <1>1, <3>1
    <3> QED BY <2>1, <2>2, <3>2
  <2>3. CASE window[w] # "mapped"
    <3>1. first = << >>
      BY <2>3
    <3> HIDE DEF first, last
    <3> QED BY <2>1, <3>1
  <2> QED BY <2>2, <2>3
<1> HIDE DEF first, last
<1>4. /\ evs \in Seq(Event)
      /\ \A k \in 1 .. Len(evs) :
           (evs[k] = e /\ window[w] = "mapped") \/ evs[k] = d
      /\ \E k \in 1 .. Len(evs) : evs[k] = d
  <2>1. /\ evs \in Seq(Event)
        /\ \A k \in 1 .. Len(evs) :
             \/ \E i \in 1 .. Len(first) : evs[k] = first[i]
             \/ \E i \in 1 .. Len(last) : evs[k] = last[i]
        /\ \A i \in 1 .. Len(last) : \E k \in 1 .. Len(evs) : evs[k] = last[i]
    BY <1>3, ConcatElements
  <2> HIDE DEF evs
  <2> QED BY <1>3, <2>1
<1>5. queue' = queue \o evs
  <2>1. queue \in Seq(Event)
    BY DEF SwallowInv, TypeOK
  <2>2. (queue \o first) \o last = queue \o evs
    BY <1>3, <2>1, ConcatAssociative
  <2> QED BY <1>2, <2>2
<1> HIDE DEF evs
<1>6. Sound(wm') /\ SameIn(wm, wm')
  BY <1>2, WindowOffSound
<1>7. /\ TypeOK' /\ Structs' /\ Held' = Held /\ Hidden' = Hidden
      /\ Pairs' = Pairs
  BY <1>2, <1>4, <1>5, <1>6, ProgramActs
<1>8. window[w] = "mapped" => w \notin Hidden /\ ~Queued("map", w)
  BY DEF SwallowInv, QueueInv, StillTrue, MapsAlone, Queued
<1>9. QueueInv'
  <2>1. TypeOK /\ QueueInv /\ Structs /\ ListInv(wm)
    BY DEF SwallowInv, Sound
  <2>2. /\ \A k \in 1 .. Len(evs) :
             /\ evs[k].win = w
             /\ \/ evs[k].type = "unmap" /\ window[w] = "mapped"
                \/ evs[k].type = "destroy"
        /\ \E k \in 1 .. Len(evs) : evs[k].type = "destroy"
    BY <1>1, <1>4
  <2>3. \A k \in 1 .. Len(evs) : evs[k].type # "map"
    BY <2>2
  <2> QED BY <1>2, <1>4, <1>5, <1>7, <1>8, <2>1, <2>2, <2>3, EventsCaused
<1> QED BY <1>6, <1>7, <1>9 DEF SwallowInv

\* An event that concerns no client.
LEMMA IgnoreSwallow ==
  ASSUME SwallowInv, queue # << >>, Ignore, queue' = Tail(queue),
         Head(queue).type = "unmap" => Head(queue).win \notin Held,
         Head(queue).type = "destroy" =>
           Head(queue).win \notin Held \cup Hidden
  PROVE  SwallowInv'
<1>1. /\ wm' = wm /\ UNCHANGED <<win, pid, isterminal, swallowing>>
      /\ window' = window
  BY DEF Ignore
<1>2. Sound(wm') /\ SameIn(wm, wm') /\ TypeOK /\ Structs /\ QueueInv
  BY <1>1 DEF SwallowInv, SameIn
<1>3. /\ wm' \in State /\ Structs' /\ Held' = Held /\ Hidden' = Hidden
      /\ Pairs' = Pairs
  BY <1>1, <1>2, NobodyMoves
<1>4. queue' \in Seq(Event)
  BY <1>2, HeadGone
<1>5. TypeOK'
  BY <1>1, <1>2, <1>3, <1>4 DEF TypeOK
<1>6. Held' \cup Hidden' \subseteq Window
  BY <1>2, <1>3, HeldOrHidden DEF SwallowInv, Sound
<1>7. QueueInv'
  BY <1>1, <1>2, <1>3, <1>6, EventHandled
<1> QED BY <1>2, <1>3, <1>5, <1>7 DEF SwallowInv

\* The client whose window has gone is unmanaged, or gets back the window of
\* the terminal.
LEMMA UnmanageWindowSwallow ==
  ASSUME SwallowInv, queue # << >>, Head(queue).type \in {"unmap", "destroy"},
         NEW c \in Holding(Head(queue).win), UnmanageWindow(c),
         queue' = Tail(queue)
  PROVE  /\ SwallowInv'
         /\ Held \subseteq Held' \cup {Head(queue).win}
         /\ \A p \in Managed(wm) :
              swallowing[p] # NULL /\ swallowing'[p] # swallowing[p] =>
                LET w == win[swallowing[p]]
                IN \/ window'[w] = "none"
                   \/ window'[w] = "mapped" /\ w \in Held'
<1> DEFINE x == Head(queue).win
           k == swallowing[c]
           freed == IF k = NULL THEN c ELSE k
           w == win[freed]
<1>1. TypeOK /\ Structs /\ QueueInv /\ Sound(wm) /\ ListInv(wm)
  BY DEF SwallowInv, Sound
<1>2. c \in Managed(wm) /\ win[c] = x /\ c \in Client /\ In(wm, c)
  BY <1>1, ManagedClients, ManagedIff DEF Holding
<1>3. k \in Client \cup {NULL} /\ freed \in Client
  BY <1>1, <1>2, ManagedClients
<1>4. /\ pid' = [pid EXCEPT ![freed] = NULL]
      /\ isterminal' = [isterminal EXCEPT ![freed] = FALSE]
      /\ swallowing' = [swallowing EXCEPT ![c] = NULL]
  BY DEF UnmanageWindow
<1>5. /\ pid' \in [Client -> Window \cup {NULL}]
      /\ isterminal' \in [Client -> BOOLEAN]
      /\ swallowing' \in [Client -> Client \cup {NULL}]
  BY <1>1, <1>3, <1>4 DEF TypeOK
<1>6. queue' \in Seq(Event)
  BY <1>1, HeadGone
<1>7. /\ Held \cap Hidden = {} /\ Held \subseteq Window /\ Hidden \subseteq Window
      /\ \A pair \in Pairs : pair[1] \in Held /\ pair[2] \in Hidden
      /\ NULL \notin Client /\ NULL \notin Window
  BY <1>1, HeldOrHidden, ManagedClients
<1>8. x \in Held
  BY <1>2 DEF Held
<1>9. CASE k = NULL
  <2>1. freed = c /\ wm' = Unmanage(wm, c) /\ win' = [win EXCEPT ![c] = NULL]
        /\ window' = window
    BY <1>9 DEF UnmanageWindow
  <2>2. Sound(wm') /\ \A d : In(wm', d) <=> In(wm, d) /\ d # c
    BY <1>1, <1>2, <2>1, UnmanageSound
  <2>3. Managed(wm') = Managed(wm) \ {c} /\ wm' \in State
    BY <1>1, <2>2, ManagedShrinks DEF Sound, ListInv
  <2>4. /\ Structs' /\ Held' = Held \ {x} /\ Hidden' = Hidden /\ Pairs' = Pairs
    BY <1>1, <1>2, <1>4, <1>9, <2>1, <2>3, Leaves
  <2>5. win' \in [Client -> Window \cup {NULL}]
    BY <1>1, <2>1 DEF TypeOK
  <2>6. TypeOK'
    BY <1>1, <1>5, <1>6, <2>1, <2>3, <2>5 DEF TypeOK
  <2>7. QueueInv'
    BY <1>1, <1>7, <1>8, <2>1, <2>4, EventHandled
  <2>8. \A p \in Client : swallowing'[p] = swallowing[p]
    BY <1>1, <1>2, <1>4, <1>9 DEF TypeOK
  <2> QED BY <1>1, <2>2, <2>4, <2>6, <2>7, <2>8, ManagedClients DEF SwallowInv
<1>10. CASE k # NULL
  <2> DEFINE exists == window[w] # "none"
  <2>1. freed = k
    BY <1>10
  <2>2. freed # c
    BY <1>1, <1>2, <1>10, <2>1 DEF Structs, Swallowed
  <2>3. /\ wm' = Unswallow(wm, c, exists)
        /\ win' = [win EXCEPT ![c] = w, ![freed] = NULL]
        /\ window' = MapAgain(w)
    BY <2>2 DEF UnmanageWindow
  <2>4. Out(wm, k)
    BY <1>2, <1>10, SwallowedOut
  <2>5. exists \in BOOLEAN
    OBVIOUS
  <2> HIDE DEF exists
  <2>6. Sound(wm') /\ SameIn(wm, wm')
    BY <1>1, <1>2, <2>3, <2>4, <2>5, UnswallowSound
  <2>7. Managed(wm') = Managed(wm) /\ wm' \in State
    BY <1>1, <2>6, SameManaged DEF Sound, ListInv
  <2>8. /\ Structs' /\ Held' = (Held \ {x}) \cup {w} /\ Hidden' = Hidden \ {w}
        /\ Pairs' \subseteq Pairs
    BY <1>1, <1>2, <1>4, <1>10, <2>1, <2>3, <2>7, Frees
  <2>9. <<x, w>> \in Pairs /\ w \in Hidden
    <3>1. <<x, w>> \in Pairs
      BY <1>2, <1>10, <2>1 DEF Pairs
    <3> QED BY <1>7, <3>1
  <2> HIDE DEF w
  <2>10. w \in Window /\ w # x
    BY <1>7, <1>8, <2>9
  <2>11. win' \in [Client -> Window \cup {NULL}]
    BY <1>1, <2>3, <2>10 DEF TypeOK
  <2>12. /\ window' \in [Window -> {"none", "unmapped", "mapped"}]
         /\ window'[w] = IF window[w] = "none" THEN "none" ELSE "mapped"
         /\ \A y \in Window \ {w} : window'[y] = window[y]
    BY <1>1, <2>3, <2>10 DEF TypeOK, MapAgain
  <2>13. TypeOK'
    BY <1>5, <1>6, <2>7, <2>11, <2>12 DEF TypeOK
  <2>14. \A i \in 1 .. Len(queue) : queue[i].win = w =>
           /\ queue[i].type # "map"
           /\ queue[i].type = "unmap" => queue[i].own
    <3> SUFFICES ASSUME NEW i \in 1 .. Len(queue), queue[i].win = w
                 PROVE  /\ queue[i].type # "map"
                        /\ queue[i].type = "unmap" => queue[i].own
      OBVIOUS
    <3>1. queue[i].type # "map"
      BY <1>1, <2>9 DEF QueueInv, MapsAlone
    <3>2. 1 \in 1 .. Len(queue) /\ queue[1].win = x /\ ~(i < 1)
      BY <1>1, HeadGone
    <3>3. <<x, w>>[1] = x /\ <<x, w>>[2] = w
      OBVIOUS
    <3>4. ASSUME queue[i].type = "unmap", ~queue[i].own
          PROVE  FALSE
      <4>1. \A a, b \in 1 .. Len(queue) :
              /\ queue[a].type = "unmap" /\ ~queue[a].own
              /\ queue[a].win = w /\ queue[b].win = x
              => a < b
        BY <1>1, <2>9, <3>3 DEF QueueInv, InOrder
      <4> QED BY <3>2, <3>4, <4>1
    <3> QED BY <3>1, <3>4
  <2>15. \A y \in Window :
           \/ window'[y] = window[y]
           \/ /\ window[y] = "unmapped" /\ window'[y] = "mapped"
              /\ y \notin Hidden'
              /\ \A i \in 2 .. Len(queue) : queue[i].win = y =>
                   /\ queue[i].type # "map"
                   /\ queue[i].type = "unmap" => queue[i].own
    <3> TAKE y \in Window
    <3>1. CASE y # w
      BY <2>12, <3>1
    <3>2. CASE y = w
      <4>1. window[w] \in {"none", "unmapped", "mapped"}
        BY <1>1, <2>10 DEF TypeOK
      <4>2. \A i \in 2 .. Len(queue) : i \in 1 .. Len(queue)
        BY <1>1, EventTypes
      <4>3. w \notin Hidden'
        BY <2>8
      <4> QED BY <2>12, <2>14, <3>2, <4>1, <4>2, <4>3
    <3> QED BY <3>1, <3>2
  <2>16. QueueInv'
    <3>1. \A y \in Held' \ Held :
            \/ window'[y] = "mapped"
            \/ y \in Hidden /\ window'[y] = "none"
      BY <2>8, <2>9, <2>12
    <3>2. /\ Held' \cup Hidden' \subseteq Held \cup Hidden
          /\ Hidden' \subseteq Hidden /\ x \notin Held' \cup Hidden'
      BY <1>7, <1>8, <2>8, <2>9, <2>10
    <3>3. Held' \cup Hidden' \subseteq Window
      BY <1>7, <3>2
    <3> QED BY <1>1, <2>8, <2>15, <3>1, <3>2, <3>3, EventHandled
  <2>17. /\ \A p \in Client \ {c} : swallowing'[p] = swallowing[p]
         /\ w = win[swallowing[c]]
    BY <1>1, <1>2, <1>4, <2>1 DEF TypeOK, w
  <2>18. \/ window'[w] = "none"
         \/ window'[w] = "mapped" /\ w \in Held'
    BY <2>8, <2>12
  <2>19. SwallowInv' /\ Held \subseteq Held' \cup {x}
    BY <2>6, <2>8, <2>13, <2>16 DEF SwallowInv
  <2> QED BY <1>1, <2>17, <2>18, <2>19, ManagedClients
<1> QED BY <1>9, <1>10

LEMMA UnmapNotifySwallow ==
  ASSUME SwallowInv, UnmapNotifyEvent
  PROVE  /\ SwallowInv'
         /\ Held \subseteq Held' \cup {Head(queue).win}
         /\ \A p \in Managed(wm) :
              swallowing[p] # NULL /\ swallowing'[p] # swallowing[p] =>
                LET w == win[swallowing[p]]
                IN \/ window'[w] = "none"
                   \/ window'[w] = "mapped" /\ w \in Held'
<1> DEFINE held == Holding(Head(queue).win)
<1>1. /\ queue # << >> /\ Head(queue).type = "unmap" /\ queue' = Tail(queue)
      /\ IF held = {} THEN Ignore ELSE \E c \in held : UnmanageWindow(c)
  BY DEF UnmapNotifyEvent
<1>2. CASE held = {}
  <2>1. SwallowInv'
    BY <1>1, <1>2, IgnoreSwallow DEF Held, Holding
  <2>2. Held' = Held /\ swallowing' = swallowing
    BY <1>1, <1>2 DEF Ignore, Held
  <2> QED BY <2>1, <2>2
<1>3. CASE held # {}
  <2>1. PICK c \in held : UnmanageWindow(c)
    BY <1>1, <1>3
  <2> QED BY <1>1, <2>1, UnmanageWindowSwallow
<1> QED BY <1>2, <1>3

\* A terminal whose window is destroyed while another stands in for it keeps
\* that one.
LEMMA TerminalGone ==
  ASSUME SwallowInv, queue # << >>, Head(queue).type = "destroy",
         Holding(Head(queue).win) = {}, NEW p \in StandingIn(Head(queue).win),
         queue' = Tail(queue), wm' = StandAlone(wm, p),
         win' = [win EXCEPT ![swallowing[p]] = NULL],
         pid' = [pid EXCEPT ![swallowing[p]] = NULL],
         isterminal' = [isterminal EXCEPT ![swallowing[p]] = FALSE],
         swallowing' = [swallowing EXCEPT ![p] = NULL], window' = window
  PROVE  SwallowInv' /\ Held' = Held
<1> DEFINE x == Head(queue).win
           k == swallowing[p]
<1>1. TypeOK /\ Structs /\ QueueInv /\ Sound(wm) /\ ListInv(wm)
  BY DEF SwallowInv, Sound
<1>2. /\ p \in Managed(wm) /\ k # NULL /\ win[k] = x /\ p \in Client
      /\ k \in Client /\ Out(wm, k)
  BY <1>1, ManagedClients, SwallowedOut DEF StandingIn
<1>3. k # p /\ win[p] \in Held
  BY <1>1, <1>2 DEF Structs, Swallowed, Held
<1>4. Sound(wm') /\ SameIn(wm, wm')
  BY <1>1, <1>2, StandAloneSound
<1>5. Managed(wm') = Managed(wm) /\ wm' \in State
  BY <1>1, <1>4, SameManaged DEF Sound, ListInv
<1>6. win' = [win EXCEPT ![p] = win[p], ![k] = NULL]
  BY <1>1, <1>2, <1>3 DEF TypeOK
<1>7. /\ Structs' /\ Held' = (Held \ {win[p]}) \cup {win[p]}
      /\ Hidden' = Hidden \ {x} /\ Pairs' \subseteq Pairs
  BY <1>1, <1>2, <1>5, <1>6, Frees
<1>8. Held' = Held
  BY <1>3, <1>7
<1>9. queue' \in Seq(Event)
  BY <1>1, HeadGone
<1>10. TypeOK'
  BY <1>1, <1>2, <1>5, <1>9 DEF TypeOK
<1>11. Held' \cup Hidden' \subseteq Window /\ x \notin Held'
  BY <1>1, <1>7, <1>8, HeldOrHidden DEF Held, Holding
<1>12. QueueInv'
  BY <1>1, <1>7, <1>8, <1>11, EventHandled
<1> QED BY <1>4, <1>7, <1>8, <1>10, <1>12 DEF SwallowInv

LEMMA DestroyNotifySwallow ==
  ASSUME SwallowInv, DestroyNotifyEvent
  PROVE  /\ SwallowInv'
         /\ Held \subseteq Held' \cup {Head(queue).win}
         /\ \A p \in Managed(wm) :
              swallowing[p] # NULL /\ swallowing'[p] # swallowing[p] =>
                LET w == win[swallowing[p]]
                IN \/ window'[w] = "none"
                   \/ window'[w] = "mapped" /\ w \in Held'
<1> DEFINE x == Head(queue).win
<1>1. queue # << >> /\ Head(queue).type = "destroy" /\ queue' = Tail(queue)
  BY DEF DestroyNotifyEvent
<1>2. CASE Holding(x) # {}
  <2>1. PICK c \in Holding(x) : UnmanageWindow(c)
    BY <1>2 DEF DestroyNotifyEvent
  <2> QED BY <1>1, <2>1, UnmanageWindowSwallow
<1>3. CASE Holding(x) = {} /\ StandingIn(x) = {}
  <2>1. x \notin Held /\ Ignore
    BY <1>3 DEF DestroyNotifyEvent, Held, Holding
  <2>2. x \notin Hidden
    BY <1>3 DEF Hidden, Swallowed, StandingIn
  <2>3. SwallowInv'
    BY <1>1, <2>1, <2>2, IgnoreSwallow
  <2>4. Held' = Held /\ swallowing' = swallowing
    BY <2>1 DEF Ignore, Held
  <2> QED BY <2>3, <2>4
<1>4. CASE Holding(x) = {} /\ StandingIn(x) # {}
  <2>1. PICK p \in StandingIn(x) :
          /\ wm' = StandAlone(wm, p)
          /\ win' = [win EXCEPT ![swallowing[p]] = NULL]
          /\ pid' = [pid EXCEPT ![swallowing[p]] = NULL]
          /\ isterminal' = [isterminal EXCEPT ![swallowing[p]] = FALSE]
          /\ swallowing' = [swallowing EXCEPT ![p] = NULL]
          /\ UNCHANGED window
    BY <1>4 DEF DestroyNotifyEvent
  <2>2. SwallowInv' /\ Held' = Held
    BY <1>1, <1>4, <2>1, TerminalGone
  <2>3. \A q \in Managed(wm) \ {p} : swallowing'[q] = swallowing[q]
    <3>1. /\ Managed(wm) \subseteq Client
          /\ swallowing \in [Client -> Client \cup {NULL}]
      BY ManagedClients DEF SwallowInv, Sound, TypeOK
    <3> QED BY <2>1, <3>1
  <2>4. window'[win[swallowing[p]]] = "none"
    <3>1. 1 \in 1 .. Len(queue) /\ queue[1] = Head(queue)
      BY <1>1, HeadGone DEF SwallowInv
    <3>2. window[x] = "none"
      BY <1>1, <3>1 DEF SwallowInv, QueueInv, StillTrue
    <3>3. win[swallowing[p]] = x
      BY DEF StandingIn
    <3> QED BY <2>1, <3>2, <3>3
  <2> QED BY <2>2, <2>3, <2>4
<1> QED BY <1>2, <1>3, <1>4

\* manage() of a window that no terminal swallows.
LEMMA ManageWindowSwallow ==
  ASSUME SwallowInv, queue # << >>, Head(queue).type = "map",
         NEW w, w = Head(queue).win, window[w] # "none", NEW c \in Unused,
         NEW kind \in Kind, NEW term \in [Client -> BOOLEAN],
         pid' = [pid EXCEPT ![c] = w],
         ManageWindow(c, w, ManageArranged(wm, c, kind, NULL), term)
  PROVE  SwallowInv' /\ Held \subseteq Held' /\ Hidden' = Hidden
<1> DEFINE s == ManageArranged(wm, c, kind, NULL)
<1>1. TypeOK /\ Structs /\ QueueInv /\ Sound(wm) /\ ListInv(wm)
  BY DEF SwallowInv, Sound
<1>2. /\ wm' = Focus(s, NULL) /\ win' = [win EXCEPT ![c] = w]
      /\ window' = [window EXCEPT ![w] = "mapped"] /\ isterminal' = term
      /\ queue' = Tail(queue) /\ UNCHANGED swallowing
  BY DEF ManageWindow
<1>3. c \in Client /\ Out(wm, c) /\ c \notin Managed(wm)
  BY UnusedOut
<1>4. ListInv(s) /\ \A d : In(s, d) <=> In(wm, d) \/ d = c
  BY <1>1, <1>3, ManageArrangedSound
<1> HIDE DEF s
<1>5. Sound(wm') /\ SameIn(s, wm')
  BY <1>2, <1>4, FocusSound
<1>6. Managed(wm') = Managed(wm) \cup {c} /\ wm' \in State
  <2>1. \A d : In(wm', d) <=> In(wm, d) \/ d = c
    BY <1>4, <1>5 DEF SameIn
  <2> QED BY <1>1, <1>5, <2>1, ManagedGrows DEF Sound, ListInv
<1>7. /\ 1 \in 1 .. Len(queue) /\ queue[1] = Head(queue)
      /\ \A i \in 2 .. Len(queue) : i \in 1 .. Len(queue) /\ i # 1
  BY <1>1, HeadGone, EventTypes
<1>8. w \in Window
  BY <1>1, <1>7, EventTypes
<1>9. /\ w \notin Held \cup Hidden /\ window[w] # "mapped"
      /\ \A j \in 1 .. Len(queue) :
           queue[j].win = w /\ j # 1 => queue[j].type = "destroy"
  BY <1>1, <1>7 DEF QueueInv, MapsAlone
<1>10. \A j \in 2 .. Len(queue) : queue[j].win # w
  <2>1. \A j \in 1 .. Len(queue) :
          queue[j].type = "destroy" => window[queue[j].win] = "none"
    BY <1>1 DEF QueueInv, StillTrue
  <2> QED BY <1>7, <1>9, <2>1
<1>11. /\ Structs' /\ Held' = Held \cup {w} /\ Hidden' = Hidden
       /\ Pairs' = Pairs
  BY <1>1, <1>2, <1>6, <1>8, <1>9, Arrives
<1>12. TypeOK'
  <2>1. queue' \in Seq(Event)
    BY <1>1, <1>2, HeadGone
  <2>2. /\ win' \in [Client -> Window \cup {NULL}]
        /\ pid' \in [Client -> Window \cup {NULL}]
        /\ window' \in [Window -> {"none", "unmapped", "mapped"}]
    BY <1>1, <1>2, <1>3, <1>8 DEF TypeOK
  <2> QED BY <1>1, <1>2, <1>6, <2>1, <2>2 DEF TypeOK
<1>13. /\ window[w] = "unmapped" /\ window'[w] = "mapped"
       /\ \A y \in Window \ {w} : window'[y] = window[y]
  BY <1>1, <1>2, <1>8, <1>9 DEF TypeOK
<1>14. Held' \cup Hidden' \subseteq Window
  BY <1>1, <1>8, <1>11, HeldOrHidden
<1>15. QueueInv'
  <2>1. \A y \in Window :
          \/ window'[y] = window[y]
          \/ /\ window[y] = "unmapped" /\ window'[y] = "mapped"
             /\ y \notin Hidden'
             /\ \A i \in 2 .. Len(queue) : queue[i].win = y =>
                  /\ queue[i].type # "map"
                  /\ queue[i].type = "unmap" => queue[i].own
    BY <1>9, <1>10, <1>11, <1>13
  <2>2. \A y \in Held' \ Held : y = w
    BY <1>11
  <2> QED BY <1>1, <1>2, <1>10, <1>11, <1>13, <1>14, <2>1, <2>2, EventHandled
<1> QED BY <1>5, <1>11, <1>12, <1>15 DEF SwallowInv

\* manage() of a window that terminal p swallows.
LEMMA ManageSwallowedSwallow ==
  ASSUME SwallowInv, queue # << >>, Head(queue).type = "map",
         NEW w, w = Head(queue).win, window[w] # "none", NEW c \in Unused,
         NEW kind \in Kind, NEW term \in [Client -> BOOLEAN],
         pid' = [pid EXCEPT ![c] = w],
         NEW p \in Managed(wm), swallowing[p] = NULL,
         ManageSwallowed(p, c, w, ManageArranged(wm, c, kind, NULL), term)
  PROVE  SwallowInv' /\ Held \subseteq Held' \cup Hidden'
                     /\ \A y \in Hidden' \ Hidden : window'[y] # "mapped"
<1> DEFINE s == ManageArranged(wm, c, kind, NULL)
           h == win[p]
<1>1. TypeOK /\ Structs /\ QueueInv /\ Sound(wm) /\ ListInv(wm)
  BY DEF SwallowInv, Sound
<1>2. PICK left \in {"mapped", "unmapped", "none"} :
        LET met == [s EXCEPT !.gone[c] = left # "mapped"]
        IN /\ wm' = Focus(SwallowClient(met, p, c, w), NULL)
           /\ win' = [win EXCEPT ![p] = w, ![c] = h]
           /\ window' = [window EXCEPT
                ![w] = left, ![h] = IF @ = "mapped" THEN "unmapped" ELSE @]
           /\ isterminal' = RuledTerminal(term, p, w)
           /\ swallowing' = [swallowing EXCEPT ![p] = c]
           /\ queue' = Tail(queue)
                \o (IF left = "mapped" THEN << >> ELSE <<Unmapped(w, FALSE)>>)
                \o (IF left = "none" THEN <<Destroyed(w)>> ELSE << >>)
                \o (IF window[h] = "mapped" THEN <<Unmapped(h, TRUE)>>
                                            ELSE << >>)
  BY DEF ManageSwallowed
<1> DEFINE gone == left # "mapped"
           met == [s EXCEPT !.gone[c] = gone]
           t == SwallowClient(met, p, c, w)
           a == IF left = "mapped" THEN << >> ELSE <<Unmapped(w, FALSE)>>
           b == IF left = "none" THEN <<Destroyed(w)>> ELSE << >>
           d == IF window[h] = "mapped" THEN <<Unmapped(h, TRUE)>> ELSE << >>
           evs == a \o (b \o d)
<1>3. c \in Client /\ Out(wm, c) /\ c \notin Managed(wm) /\ p \in Client
      /\ In(wm, p) /\ p # c
  BY <1>1, UnusedOut, ManagedIff DEF In
<1>4. ListInv(s) /\ \A e : In(s, e) <=> In(wm, e) \/ e = c
  BY <1>1, <1>3, ManageArrangedSound
<1>5. wm' = Focus(t, NULL) /\ gone \in BOOLEAN
  BY <1>2
<1> HIDE DEF s, gone
<1>6. ListInv(met) /\ SameIn(s, met)
  BY <1>3, <1>4, <1>5, SetGoneSound
<1> HIDE DEF met
<1>7. /\ 1 \in 1 .. Len(queue) /\ queue[1] = Head(queue)
      /\ \A i \in 2 .. Len(queue) : i \in 1 .. Len(queue) /\ i # 1
  BY <1>1, HeadGone, EventTypes
<1>8. w \in Window
  BY <1>1, <1>7, EventTypes
<1>9. ListInv(t) /\ \A e : In(t, e) <=> In(wm, e)
  <2>1. In(met, p) /\ In(met, c)
    BY <1>3, <1>4, <1>6 DEF SameIn
  <2>2. ListInv(t) /\ \A e : In(t, e) <=> In(met, e) /\ e # c
    BY <1>3, <1>6, <1>8, <2>1, SwallowClientSound
  <2>3. ~In(wm, c)
    BY <1>1, <1>3, ManagedIff
  <2> QED BY <1>4, <1>6, <2>2, <2>3 DEF SameIn
<1> HIDE DEF t
<1>10. Sound(wm') /\ SameIn(t, wm')
  BY <1>5, <1>9, FocusSound
<1>11. Managed(wm') = Managed(wm) /\ wm' \in State
  <2>1. SameIn(wm, wm')
    BY <1>9, <1>10 DEF SameIn
  <2> QED BY <1>1, <1>10, <2>1, SameManaged DEF Sound, ListInv
<1>12. /\ w \notin Held \cup Hidden /\ window[w] # "mapped"
  BY <1>1, <1>7 DEF QueueInv, MapsAlone
<1>13. /\ h \in Held /\ h \in Window /\ Held \subseteq Window
       /\ Hidden \subseteq Window
  BY <1>1, HeldOrHidden DEF Held
<1>14. /\ Structs' /\ Held' = (Held \ {h}) \cup {w} /\ Hidden' = Hidden \cup {h}
       /\ Pairs' = Pairs \cup {<<w, h>>}
  BY <1>1, <1>2, <1>8, <1>11, <1>12, Swallows
<1>15. /\ a \in Seq(Event) /\ b \in Seq(Event) /\ d \in Seq(Event)
       /\ \A i \in 1 .. Len(a) : a[i] = Unmapped(w, FALSE) /\ left # "mapped"
       /\ \A i \in 1 .. Len(b) : b[i] = Destroyed(w) /\ left = "none"
       /\ \A i \in 1 .. Len(d) : d[i] = Unmapped(h, TRUE)
       /\ left # "mapped" => \E i \in 1 .. Len(a) : a[i] = Unmapped(w, FALSE)
       /\ left = "none" => \E i \in 1 .. Len(b) : b[i] = Destroyed(w)
  <2>1. ASSUME NEW e \in Event
        PROVE  /\ <<e>> \in Seq(Event) /\ \A i \in 1 .. Len(<<e>>) : <<e>>[i] = e
               /\ \E i \in 1 .. Len(<<e>>) : <<e>>[i] = e
    OBVIOUS
  <2>2. << >> \in Seq(Event) /\ \A i : i \notin 1 .. Len(<< >>)
    OBVIOUS
  <2>3. /\ Unmapped(w, FALSE) \in Event /\ Destroyed(w) \in Event
        /\ Unmapped(h, TRUE) \in Event
    BY <1>8, <1>13 DEF Event, Unmapped, Destroyed
  <2>4. /\ a \in Seq(Event)
        /\ \A i \in 1 .. Len(a) : a[i] = Unmapped(w, FALSE) /\ left # "mapped"
        /\ left # "mapped" => \E i \in 1 .. Len(a) : a[i] = Unmapped(w, FALSE)
    <3>1. CASE left = "mapped"
      <4>1. a = << >>
        BY <3>1
      <4> HIDE DEF a
      <4> QED BY <2>2, <3>1, <4>1
    <3>2. CASE left # "mapped"
      <4>1. a = <<Unmapped(w, FALSE)>>
        BY <3>2
      <4> HIDE DEF a
      <4> QED BY <2>1, <2>3, <3>2, <4>1
    <3> QED BY <3>1, <3>2
  <2>5. /\ b \in Seq(Event)
        /\ \A i \in 1 .. Len(b) : b[i] = Destroyed(w) /\ left = "none"
        /\ left = "none" => \E i \in 1 .. Len(b) : b[i] = Destroyed(w)
    <3>1. CASE left # "none"
      <4>1. b = << >>
        BY <3>1
      <4> HIDE DEF b
      <4> QED BY <2>2, <3>1, <4>1
    <3>2. CASE left = "none"
      <4>1. b = <<Destroyed(w)>>
        BY <3>2
      <4> HIDE DEF b
      <4> QED BY <2>1, <2>3, <3>2, <4>1
    <3> QED BY <3>1, <3>2
  <2>6. /\ d \in Seq(Event)
        /\ \A i \in 1 .. Len(d) : d[i] = Unmapped(h, TRUE)
    <3>1. CASE window[h] # "mapped"
      <4>1. d = << >>
        BY <3>1
      <4> HIDE DEF d
      <4> QED BY <2>2, <4>1
    <3>2. CASE window[h] = "mapped"
      <4>1. d = <<Unmapped(h, TRUE)>>
        BY <3>2
      <4> HIDE DEF d
      <4> QED BY <2>1, <2>3, <4>1
    <3> QED BY <3>1, <3>2
  <2> QED BY <2>4, <2>5, <2>6
<1>16. /\ queue' = ((Tail(queue) \o a) \o b) \o d
       /\ win' = [win EXCEPT ![p] = w, ![c] = h]
       /\ window' = [window EXCEPT
            ![w] = left, ![h] = IF @ = "mapped" THEN "unmapped" ELSE @]
       /\ isterminal' = RuledTerminal(term, p, w)
       /\ swallowing' = [swallowing EXCEPT ![p] = c]
  BY <1>2
<1> HIDE DEF a, b, d, h
<1>17. queue' = Tail(queue) \o evs /\ evs \in Seq(Event)
  <2>1. Tail(queue) \in Seq(Event) /\ b \o d \in Seq(Event)
    BY <1>1, <1>15, HeadGone, ConcatElements
  <2>2. Tail(queue) \o a \in Seq(Event) /\ evs \in Seq(Event)
    BY <1>15, <2>1, ConcatElements
  <2>3. a \in Seq(Event) /\ b \in Seq(Event) /\ d \in Seq(Event)
    BY <1>15
  <2> DEFINE y == Tail(queue)
             q == y \o a
  <2>4. y \in Seq(Event) /\ q \in Seq(Event)
    BY <2>1, <2>2
  <2>5. queue' = (q \o b) \o d /\ evs = a \o (b \o d)
    BY <1>16
  <2> HIDE DEF q
  <2>6. (q \o b) \o d = q \o (b \o d)
    BY <2>3, <2>4, ConcatTwice, ZenonT(60)
  <2>7. q = y \o a
    BY DEF q
  <2> HIDE DEF y, evs
  <2>8. (y \o a) \o (b \o d) = y \o (a \o (b \o d))
    BY <2>1, <2>3, <2>4, ConcatTwice, ZenonT(60)
  <2>9. queue' = y \o evs
    BY <2>5, <2>6, <2>7, <2>8, ZenonT(60)
  <2> QED BY <2>2, <2>9 DEF y
<1>18. /\ \A k \in 1 .. Len(evs) :
            \/ evs[k] = Unmapped(w, FALSE) /\ left # "mapped"
            \/ evs[k] = Destroyed(w) /\ left = "none"
            \/ evs[k] = Unmapped(h, TRUE)
       /\ left # "mapped" => \E k \in 1 .. Len(evs) : evs[k] = Unmapped(w, FALSE)
       /\ left = "none" => \E k \in 1 .. Len(evs) : evs[k] = Destroyed(w)
  <2> DEFINE r == b \o d
  <2>1. /\ r \in Seq(Event)
        /\ \A k \in 1 .. Len(r) : \/ \E i \in 1 .. Len(b) : r[k] = b[i]
                                  \/ \E i \in 1 .. Len(d) : r[k] = d[i]
        /\ \A i \in 1 .. Len(b) : \E k \in 1 .. Len(r) : r[k] = b[i]
    BY <1>15, ConcatElements
  <2>2. evs = a \o r
    OBVIOUS
  <2> HIDE DEF r, evs
  <2>3. /\ \A k \in 1 .. Len(evs) : \/ \E i \in 1 .. Len(a) : evs[k] = a[i]
                                    \/ \E i \in 1 .. Len(r) : evs[k] = r[i]
        /\ \A i \in 1 .. Len(a) : \E k \in 1 .. Len(evs) : evs[k] = a[i]
        /\ \A i \in 1 .. Len(r) : \E k \in 1 .. Len(evs) : evs[k] = r[i]
    <3>1. a \in Seq(Event) /\ r \in Seq(Event)
      BY <1>15, <2>1
    <3>2. /\ \A k \in 1 .. Len(a \o r) :
               \/ \E i \in 1 .. Len(a) : (a \o r)[k] = a[i]
               \/ \E i \in 1 .. Len(r) : (a \o r)[k] = r[i]
          /\ \A i \in 1 .. Len(a) :
               \E k \in 1 .. Len(a \o r) : (a \o r)[k] = a[i]
          /\ \A i \in 1 .. Len(r) :
               \E k \in 1 .. Len(a \o r) : (a \o r)[k] = r[i]
      BY <3>1, ConcatElements
    <3> QED BY <2>2, <3>2, Zenon
  <2>4. \A k \in 1 .. Len(r) : \/ r[k] = Destroyed(w) /\ left = "none"
                               \/ r[k] = Unmapped(h, TRUE)
    BY <1>15, <2>1
  <2>5. left = "none" => \E k \in 1 .. Len(r) : r[k] = Destroyed(w)
    BY <1>15, <2>1
  <2>6. ASSUME NEW k \in 1 .. Len(evs)
        PROVE  \/ evs[k] = Unmapped(w, FALSE) /\ left # "mapped"
               \/ evs[k] = Destroyed(w) /\ left = "none"
               \/ evs[k] = Unmapped(h, TRUE)
    <3>1. CASE \E i \in 1 .. Len(a) : evs[k] = a[i]
      BY <1>15, <3>1
    <3>2. CASE \E i \in 1 .. Len(r) : evs[k] = r[i]
      BY <2>4, <3>2
    <3> QED BY <2>3, <3>1, <3>2
  <2>7. left # "mapped" => \E k \in 1 .. Len(evs) : evs[k] = Unmapped(w, FALSE)
    BY <1>15, <2>3
  <2>8. left = "none" => \E k \in 1 .. Len(evs) : evs[k] = Destroyed(w)
    BY <2>3, <2>5
  <2> QED BY <2>6, <2>7, <2>8
<1> HIDE DEF evs
<1>19. QueueInv'
  BY <1>1, <1>8, <1>13, <1>14, <1>16, <1>17, <1>18, RequestSwallowed
<1>20. TypeOK'
  <2>1. queue' \in Seq(Event)
    <3>1. Tail(queue) \in Seq(Event)
      BY <1>1, HeadGone
    <3> QED BY <1>17, <3>1, ConcatElements
  <2>2. /\ win' \in [Client -> Window \cup {NULL}]
        /\ pid' \in [Client -> Window \cup {NULL}]
        /\ window' \in [Window -> {"none", "unmapped", "mapped"}]
        /\ swallowing' \in [Client -> Client \cup {NULL}]
    BY <1>1, <1>3, <1>8, <1>13, <1>16 DEF TypeOK
  <2>3. isterminal' \in [Client -> BOOLEAN]
    <3>1. RuleFor[w] \in Rule
      BY <1>8, SwallowAssumption
    <3>2. RuleFor[w].isterminal \in BOOLEAN
      BY <3>1 DEF Rule
    <3> QED BY <1>3, <1>16, <3>2 DEF RuledTerminal
  <2> QED BY <1>11, <2>1, <2>2, <2>3 DEF TypeOK
<1>21. window'[h] # "mapped"
  <2>1. window \in [Window -> {"none", "unmapped", "mapped"}] /\ w # h
    BY <1>1, <1>12, <1>13 DEF TypeOK
  <2>2. window'[h] = IF window[h] = "mapped" THEN "unmapped" ELSE window[h]
    BY <1>8, <1>13, <1>16, <2>1
  <2> QED BY <2>2
<1> QED BY <1>10, <1>14, <1>19, <1>20, <1>21 DEF SwallowInv

LEMMA MapRequestSwallow ==
  ASSUME SwallowInv, MapRequestEvent
  PROVE  /\ SwallowInv'
         /\ Held \subseteq Held' \cup Hidden'
         /\ \A y \in Hidden' \ Hidden : window'[y] # "mapped"
         /\ \A q \in Managed(wm) :
              swallowing[q] # NULL => swallowing'[q] = swallowing[q]
<1> DEFINE w == Head(queue).win
<1>1. queue # << >> /\ Head(queue).type = "map"
  BY DEF MapRequestEvent
<1>2. CASE window[w] = "none" \/ Holding(w) # {}
  <2>1. Ignore /\ queue' = Tail(queue)
    BY <1>2 DEF MapRequestEvent
  <2>2. SwallowInv'
    BY <1>1, <2>1, IgnoreSwallow
  <2>3. Held' = Held /\ Hidden' = Hidden
    BY <2>1 DEF Ignore, Held, Hidden, Swallowed
  <2>4. swallowing' = swallowing
    BY <2>1 DEF Ignore
  <2> QED BY <2>2, <2>3, <2>4
<1>3. CASE ~(window[w] = "none" \/ Holding(w) # {})
  <2> DEFINE rule == RuleFor[w]
             kind == [ transient |-> FALSE, tags |-> rule.tags,
                       isfloating |-> rule.matches /\ rule.isfloating,
                       isLeft |-> rule.matches /\ rule.isLeft,
                       fullscreen |-> FALSE, dialog |-> FALSE,
                       isfixed |-> FALSE, urgent |-> FALSE,
                       neverfocus |-> FALSE ]
             Term(c) == RuledTerminal([isterminal EXCEPT ![c] = FALSE], c, w)
             P(c) == TermForWin(wm, Term(c), c, w)
             s(c) == ManageArranged(wm, c, kind, NULL)
  <2>1. PICK c \in Unused :
          /\ pid' = [pid EXCEPT ![c] = w]
          /\ IF P(c) = NULL THEN ManageWindow(c, w, s(c), Term(c))
                            ELSE ManageSwallowed(P(c), c, w, s(c), Term(c))
    BY <1>3 DEF MapRequestEvent
  <2> DEFINE term == Term(c)
             p == P(c)
  <2>2. w \in Window /\ c \in Client
    <3>1. 1 \in 1 .. Len(queue) /\ queue[1] = Head(queue)
      BY <1>1, HeadGone DEF SwallowInv
    <3> QED BY <3>1, EventTypes, UnusedOut DEF SwallowInv
  <2>3. /\ rule.matches \in BOOLEAN /\ rule.isfloating \in BOOLEAN
        /\ rule.isterminal \in BOOLEAN /\ rule.isLeft \in BOOLEAN
        /\ rule.tags \in SUBSET Tag
    <3>1. rule \in Rule
      BY <2>2, SwallowAssumption
    <3> QED BY <3>1 DEF Rule
  <2>4. term \in [Client -> BOOLEAN]
    BY <2>2, <2>3 DEF RuledTerminal, SwallowInv, TypeOK
  <2>5. kind \in Kind
    <3>1. /\ (rule.matches /\ rule.isfloating) \in BOOLEAN
          /\ (rule.matches /\ rule.isLeft) \in BOOLEAN
      OBVIOUS
    <3> QED BY <2>3, <3>1 DEF Kind
  <2>6. ListInv(wm)
    BY DEF SwallowInv, Sound
  <2> HIDE DEF kind
  <2>7. CASE p = NULL
    <3>1. ManageWindow(c, w, ManageArranged(wm, c, kind, NULL), term)
      BY <2>1, <2>7
    <3> HIDE DEF term, p
    <3>2. SwallowInv' /\ Held \subseteq Held' /\ Hidden' = Hidden
      BY <1>1, <1>3, <2>1, <2>4, <2>5, <3>1, ManageWindowSwallow
    <3>3. swallowing' = swallowing
      BY <3>1 DEF ManageWindow
    <3> QED BY <3>2, <3>3
  <2>8. CASE p # NULL
    <3>1. ManageSwallowed(p, c, w, ManageArranged(wm, c, kind, NULL), term)
      BY <2>1, <2>8
    <3>2. p \in Managed(wm) /\ swallowing[p] = NULL
      BY <2>6, <2>8, TermForWinFinds
    <3> HIDE DEF term, p
    <3>3. /\ SwallowInv' /\ Held \subseteq Held' \cup Hidden'
          /\ \A y \in Hidden' \ Hidden : window'[y] # "mapped"
      BY <1>1, <1>3, <2>1, <2>4, <2>5, <3>1, <3>2, ManageSwallowedSwallow
    <3>4. \A q \in Managed(wm) :
            swallowing[q] # NULL => swallowing'[q] = swallowing[q]
      <4>1. /\ swallowing' = [swallowing EXCEPT ![p] = c]
            /\ swallowing \in [Client -> Client \cup {NULL}]
        BY <3>1 DEF ManageSwallowed, SwallowInv, TypeOK
      <4>2. Managed(wm) \subseteq Client
        BY ManagedClients DEF SwallowInv, Sound
      <4> QED BY <3>2, <4>1, <4>2
    <3> QED BY <3>3, <3>4
  <2> QED BY <2>7, <2>8
<1> QED BY <1>2, <1>3

-----------------------------------------------------------------------------
(* The invariant and what follows from it                                  *)

\* What a step does besides keeping the invariant: a window leaves the lists
\* when it is hidden, or with the event that is handled, and a terminal whose
\* stand-in goes has its window back or has lost it.
SwallowStep ==
  /\ SwallowInv'
  /\ \A w \in Held :
       \/ w \in Held'
       \/ window'[w] # "mapped"
       \/ queue # << >> /\ w = Head(queue).win
            /\ Head(queue).type \in {"unmap", "destroy"}
  /\ \A p \in Managed(wm) :
       swallowing[p] # NULL /\ swallowing'[p] # swallowing[p] =>
         LET w == win[swallowing[p]]
         IN \/ window'[w] = "none"
            \/ window'[w] = "mapped" /\ w \in Held'

LEMMA SwallowKept == SwallowInv /\ [Next]_vars => SwallowStep
<1> SUFFICES ASSUME SwallowInv, [Next]_vars
             PROVE  SwallowStep
  OBVIOUS
<1>1. CASE MapRequestEvent
  <2>1. \A w \in Held : w \in Held' \/ window'[w] # "mapped"
    BY <1>1, MapRequestSwallow, HeldOrHidden DEF SwallowInv, Sound
  <2> QED BY <1>1, <2>1, MapRequestSwallow DEF SwallowStep
<1>2. CASE UnmapNotifyEvent
  <2>1. queue # << >> /\ Head(queue).type = "unmap"
    BY <1>2 DEF UnmapNotifyEvent
  <2> QED BY <1>2, <2>1, UnmapNotifySwallow DEF SwallowStep
<1>3. CASE DestroyNotifyEvent
  <2>1. queue # << >> /\ Head(queue).type = "destroy"
    BY <1>3 DEF DestroyNotifyEvent
  <2> QED BY <1>3, <2>1, DestroyNotifySwallow DEF SwallowStep
<1>4. ASSUME SwallowInv', UNCHANGED <<win, swallowing>>,
             Managed(wm') = Managed(wm)
      PROVE  SwallowStep
  BY <1>4 DEF SwallowStep, Held
<1>5. ASSUME NEW w \in Window, MapWindow(w) \/ UnmapWindow(w) \/ DestroyWindow(w)
      PROVE  SwallowStep
  <2>1. SwallowInv'
    BY <1>5, MapWindowSwallow, UnmapWindowSwallow, DestroyWindowSwallow
  <2>2. UNCHANGED <<win, swallowing>> /\ (wm' = wm \/ wm' = WindowOff(w))
    BY <1>5 DEF MapWindow, UnmapWindow, DestroyWindow, Others
  <2>3. ListInv(wm) /\ ListInv(wm') /\ SameIn(wm, WindowOff(w))
    BY <2>1, WindowOffSound DEF SwallowInv, Sound
  <2>4. Managed(wm') = Managed(wm)
    BY <2>2, <2>3, SameManaged
  <2> QED BY <1>4, <2>1, <2>2, <2>4
<1>6. CASE UserCommand
  BY <1>6, UserCommandSwallow DEF SwallowStep, UserCommand, Command, Others
<1>7. CASE UNCHANGED vars
  <2>1. UNCHANGED <<wm, win, pid, isterminal, swallowing, window, queue>>
    BY <1>7 DEF vars
  <2>2. SwallowInv'
    BY <2>1 DEF SwallowInv, TypeOK, Structs, QueueInv, ToldSoon, MapsAlone,
                StillTrue, InOrder, Queued, Held, Hidden, Pairs, Used, Swallowed
  <2> QED BY <1>4, <2>1, <2>2
<1> QED BY <1>1, <1>2, <1>3, <1>5, <1>6, <1>7 DEF Next

LEMMA SwallowInductive == SwallowInv /\ [Next]_vars => SwallowInv'
BY SwallowKept DEF SwallowStep

\* What holds in every state, for any number of windows, terminals, tags,
\* monitors and events on their way.
LEMMA SwallowInvariant == Spec => []SwallowInv
BY InitSwallow, SwallowInductive, PTL DEF Spec

\* swallow(), unswallow(), manage(), unmanage() and destroynotify() never let
\* two structs hold one window, a pointer p->swallowing refer to a struct that
\* is freed or on a list, or a client on a list be without a window.
THEOREM HeldOnce == Spec => []WindowsHeldOnce
<1>1. SwallowInv => WindowsHeldOnce
  BY DEF SwallowInv, Structs, Used, WindowsHeldOnce
<1> QED BY <1>1, SwallowInvariant, PTL

\* Whatever the programs do meanwhile, once dwm has handled the X events each
\* client it manages has a window on the screen.
THEOREM NoGhostsLeft == Spec => []NoGhostClients
<1>1. SwallowInv => NoGhostClients
  <2> SUFFICES ASSUME SwallowInv, queue = << >>, NEW c \in Managed(wm)
               PROVE  window[win[c]] = "mapped"
    BY DEF NoGhostClients
  <2>1. win[c] \in Held
    BY DEF Held
  <2>2. \A i : i \notin 1 .. Len(queue)
    OBVIOUS
  <2> QED BY <2>1, <2>2 DEF SwallowInv, QueueInv, ToldSoon, Queued
<1> QED BY <1>1, SwallowInvariant, PTL

LEMMA WMSame ==
  ASSUME NEW s
  PROVE  /\ \A q : WM!FirstVisible(s, q) = FirstVisible(s, q)
         /\ WM!Mons(s) = Mons(s)
<1>1. \A q : WM!FirstVisible(s, q) = FirstVisible(s, q)
  BY DEF FirstVisible, WM!FirstVisible, At, WM!At, SelectInSeq,
         WM!SelectInSeq, Min, WM!Min, Visible, ViewOf, WM!Visible, WM!ViewOf
<1>2. WM!Mons(s) = Mons(s)
  BY DEF Mons, WM!Mons
<1> QED BY <1>1, <1>2

\* The lists, the selection and the X input focus are right after every event,
\* also after one in which a client takes the place of another or leaves it.
THEOREM FocusSurvives == Spec => []FocusSurvivesSwallow
<1>1. SwallowInv => FocusSurvivesSwallow
  <2> SUFFICES ASSUME SwallowInv
               PROVE  FocusSurvivesSwallow
    OBVIOUS
  <2>1. ListInv(wm) /\ Settled(wm) /\ Keyed(wm)
    BY DEF SwallowInv, Sound
  <2>2. WM!ListsAgree
    <3>1. ASSUME NEW m \in Mon
          PROVE  /\ IsInjective(wm.clients[m]) /\ IsInjective(wm.stack[m])
                 /\ ToSet(wm.clients[m]) = ToSet(wm.stack[m])
                 /\ \A c \in ToSet(wm.stack[m]) :
                      wm.mon[c] = m /\ m \in WM!Mons(wm)
      <4>1. /\ List(wm.clients[m]) /\ List(wm.stack[m])
            /\ ToSet(wm.clients[m]) = ToSet(wm.stack[m])
        BY <2>1 DEF ListInv, Linked
      <4>2. \A c \in ToSet(wm.clients[m]) : wm.mon[c] = m /\ m <= wm.nmon
        BY <2>1, InOfMonitor
      <4>3. m <= wm.nmon => m \in Mons(wm)
        <5>1. wm.nmon \in Mon
          BY <2>1 DEF ListInv, State
        <5> QED BY <5>1, ConstantsAssumption DEF Mons, Mon
      <4> QED BY <4>1, <4>2, <4>3, ListInjective, WMSame
    <3> QED BY <3>1 DEF WM!ListsAgree, WM!IsInjective, WM!ToSet, IsInjective,
                        ToSet, WM!Mon, Mon
  <2>3. WM!SelIsTopVisible
    BY <2>1, WMSame DEF Settled, SelOf, WM!SelIsTopVisible
  <2>4. WM!KeyboardFollowsSelection
    BY <2>1 DEF Keyed, SelOf, WM!KeyboardFollowsSelection
  <2> QED BY <2>2, <2>3, <2>4 DEF FocusSurvivesSwallow
<1> QED BY <1>1, SwallowInvariant, PTL

\* A window that dwm manages and that stays on the screen stays managed, but
\* for the UnmapNotify of swallow() that arrives late.
THEOREM WindowsStayManaged == Spec => WindowsKept
<1> DEFINE A == \A w \in Held :
                  window[w] = "mapped" /\ window'[w] = "mapped" =>
                    \/ w \in Held'
                    \/ Head(queue) = Unmapped(w, TRUE)
<1>1. SwallowInv /\ [Next]_vars => [A]_vars
  <2> SUFFICES ASSUME SwallowInv, SwallowStep, NEW w \in Held,
                      window[w] = "mapped", window'[w] = "mapped", w \notin Held'
               PROVE  Head(queue) = Unmapped(w, TRUE)
    BY SwallowKept
  <2> DEFINE e == Head(queue)
  <2>1. queue # << >> /\ w = e.win /\ e.type \in {"unmap", "destroy"}
    BY DEF SwallowStep
  <2>2. 1 \in 1 .. Len(queue) /\ queue[1] = e
    BY <2>1, HeadGone DEF SwallowInv
  <2>3. /\ e.type = "destroy" => window[w] = "none"
        /\ e.type = "unmap" /\ ~e.own => window[w] # "mapped"
    BY <2>1, <2>2 DEF SwallowInv, QueueInv, StillTrue
  <2>4. e \in Event
    BY <2>2, EventTypes DEF SwallowInv
  <2> HIDE DEF e
  <2>5. e.type = "unmap" /\ e.own = TRUE
    BY <2>1, <2>3, <2>4 DEF Event
  <2> QED BY <2>1, <2>4, <2>5 DEF Event, Unmapped, e
<1> QED BY <1>1, SwallowInvariant, PTL DEF Spec, WindowsKept

\* When a window that stands in for a terminal closes, the terminal's window is
\* mapped and managed again, unless the terminal has gone as well.
THEOREM TerminalsComeBack == Spec => TerminalComesBack
<1> DEFINE A == \A p \in Managed(wm) :
                  swallowing[p] # NULL /\ swallowing'[p] # swallowing[p] =>
                    LET w == win[swallowing[p]]
                    IN window'[w] = "none" \/ (window'[w] = "mapped" /\ w \in Held')
<1>1. SwallowInv /\ [Next]_vars => [A]_vars
  BY SwallowKept DEF SwallowStep
<1> QED BY <1>1, SwallowInvariant, PTL DEF Spec, TerminalComesBack

-----------------------------------------------------------------------------
(* What swallowing disturbs                                                *)

\* What every step keeps of tags and fullscreen clients.
Basic(s) == Based(s) /\ ~s.lost

SameTagged(s, t) ==
  /\ t.tags = s.tags /\ t.tagset = s.tagset
  /\ t.isfullscreen = s.isfullscreen /\ t.lost = s.lost

LEMMA SameTaggedTwice ==
  ASSUME NEW s, NEW t, NEW u, SameTagged(s, t), SameTagged(t, u)
  PROVE  SameTagged(s, u)
BY DEF SameTagged

LEMMA SameBasic ==
  ASSUME NEW s, Basic(s), NEW t, SameTagged(s, t), SameIn(s, t)
  PROVE  Basic(t)
BY DEF Basic, Based, SameTagged, SameIn

LEMMA UntouchedTagged ==
  ASSUME NEW s, NEW t, Untouched(s, t), t.lost = s.lost
  PROVE  SameTagged(s, t)
BY DEF Untouched, SameTagged

\* focus() and arrange().
LEMMA RefreshTagged ==
  ASSUME NEW s \in State, NEW m
  PROVE  /\ SameTagged(s, Focus(s, NULL)) /\ SameTagged(s, Arrange(s, m))
         /\ SameTagged(s, Refresh(s)) /\ SameTagged(s, Focus(Arrange(s, m), NULL))
         /\ SameTagged(s, ArrangeAll(Focus(s, NULL)))
<1>1. ASSUME NEW t \in State
      PROVE  SameTagged(t, Focus(t, NULL)) /\ Focus(t, NULL) \in State
  BY FocusLeaves, FocusType, UntouchedTagged DEF ClientOrNull
<1>2. ASSUME NEW t \in State
      PROVE  /\ \A i : SameTagged(t, Arrange(t, i)) /\ Arrange(t, i) \in State
             /\ SameTagged(t, ArrangeAll(t))
  <2>1. \A i : SameTagged(t, Arrange(t, i))
    BY ArrangeFields DEF Arrange, SameTagged
  <2>2. SameTagged(t, ArrangeAll(t))
    BY ArrangeFields DEF ArrangeAll, SameTagged
  <2> QED BY <2>1, <2>2, ArrangeType
<1>3. SameTagged(s, Refresh(s))
  BY <1>1, <1>2, SameTaggedTwice DEF Refresh
<1>4. SameTagged(s, Focus(Arrange(s, m), NULL))
  BY <1>1, <1>2, SameTaggedTwice
<1>5. SameTagged(s, ArrangeAll(Focus(s, NULL)))
  BY <1>1, <1>2, SameTaggedTwice
<1> QED BY <1>1, <1>2, <1>3, <1>4, <1>5

\* The tags of one client, or its being fullscreen, may change.
LEMMA OthersBasic ==
  ASSUME NEW s \in State, Basic(s), NEW c, NEW t, OthersStay(s, t, c),
         SameOthers(s, t, c), t.isfullscreen[c] => In(t, c),
         In(t, c) => t.tags[c] # {}
  PROVE  Basic(t)
<1>1. \A d : d # c => (In(t, d) <=> In(s, d))
  BY OthersIn
<1>2. \A d : In(s, d) => d \in Client
  BY DEF In
<1> QED BY <1>1, <1>2 DEF Basic, Based, OthersStay, SameOthers

LEMMA ViewBasic ==
  ASSUME NEW s, Sound(s), Basic(s), NEW ui \in SUBSET Tag, ui # {}
  PROVE  Basic(View(s, ui))
<1> DEFINE m == s.selmon
           k == 1 - s.seltags[m]
           t == [s EXCEPT !.seltags[m] = k, !.tagset[m][k] = ui]
<1>1. s \in State
  BY DEF Sound, ListInv
<1>2. m \in Mon /\ k \in Slot
  <2>1. s.seltags[m] \in Slot
    BY <1>1, StateFields
  <2> QED BY <1>1, <2>1, StateFields DEF Slot
<1>3. View(s, ui) = s \/ View(s, ui) = Refresh(t)
  BY DEF View, t, m, k
<1> HIDE DEF m, k
<1>4. t \in State
  BY <1>1, <1>2, SetViewType
<1>5. /\ t.tags = s.tags /\ t.isfullscreen = s.isfullscreen /\ t.lost = s.lost
      /\ t.tagset = [s.tagset EXCEPT ![m][k] = ui]
      /\ s.tagset \in [Mon -> [Slot -> SUBSET Tag]]
  BY <1>1 DEF State
<1> HIDE DEF t
<1>6. \A i \in Mon, j \in Slot : t.tagset[i][j] # {}
  BY <1>2, <1>5 DEF Basic, Based
<1>7. SameTagged(t, Refresh(t))
  BY <1>4, RefreshTagged
<1>8. SameIn(s, View(s, ui))
  BY ViewSound
<1> QED BY <1>3, <1>5, <1>6, <1>7, <1>8 DEF Basic, Based, SameTagged, SameIn

LEMMA FocusMonBasic ==
  ASSUME NEW s, Sound(s), Basic(s), NEW dir
  PROVE  Basic(FocusMon(s, dir))
<1> DEFINE m == DirToMon(s, dir)
           t == [s EXCEPT !.selmon = m]
<1>1. s \in State /\ m \in Mon
  BY DirToMonType DEF Sound, ListInv
<1>2. FocusMon(s, dir) = s \/ FocusMon(s, dir) = Focus(t, NULL)
  BY DEF FocusMon
<1> HIDE DEF m
<1>3. t \in State
  BY <1>1, SetSelmonType
<1>4. SameTagged(s, t)
  BY <1>1 DEF SameTagged, State
<1> HIDE DEF t
<1>5. SameTagged(s, Focus(t, NULL)) /\ SameTagged(s, s)
  BY <1>3, <1>4, RefreshTagged, SameTaggedTwice DEF SameTagged
<1> QED BY <1>2, <1>5, FocusMonSound, SameBasic

LEMMA TagMonBasic ==
  ASSUME NEW s, Sound(s), Basic(s), NEW dir
  PROVE  Basic(TagMon(s, dir))
<1> DEFINE c == s.sel[s.selmon]
           m == DirToMon(s, dir)
           u == Unfocus(s, c)
           out == Unlink(u, c)
           view == ViewOf(s, m)
           t == [out EXCEPT !.mon[c] = m, !.tags[c] = view]
           l == Link(t, c)
<1>1. s \in State /\ ListInv(s) /\ m \in Mon /\ m <= s.nmon
      /\ (c # NULL => c \in Client /\ In(s, c))
  BY SelmonFacts, DirToMonConnected DEF Sound, ListInv
<1>2. TagMon(s, dir) = s
      \/ (c # NULL /\ TagMon(s, dir) = ArrangeAll(Focus(l, NULL)))
  BY DEF TagMon, SendMon, Link, Unlink
<1>3. view \in SUBSET Tag /\ view # {}
  <2>1. s.seltags[m] \in Slot
    BY <1>1 DEF State
  <2> QED BY <1>1, <2>1, ViewOfType DEF Basic, Based, ViewOf
<1> HIDE DEF view, m, c
<1>4. ASSUME c # NULL
      PROVE  Basic(l) /\ l \in State /\ ListInv(l)
  <2>1. c \in Client /\ In(s, c)
    BY <1>1, <1>4
  <2>2. Reordered(s, u) /\ Untouched(s, u)
    <3>1. Reordered(s, u)
      BY <1>1, <2>1, UnfocusType, SetFocusFields, ReorderedSame DEF SameLists
    <3>2. Untouched(s, u)
      BY <1>1, StateDomain, ZenonT(60) DEF Untouched, Unfocus
    <3> QED BY <3>1, <3>2
  <2>3. ListInv(u) /\ In(u, c) /\ u.nmon = s.nmon /\ u.lost = s.lost /\ u \in State
    BY <1>1, <2>1, <2>2, ReorderedIn DEF Reordered, SamePlaces, ListInv
  <2> HIDE DEF u
  <2>4. out \in State /\ Untouched(u, out)
    BY <2>1, <2>3, DetachType, DetachStackType, UnlinkUntouched DEF Unlink
  <2>5. t \in State
    <3> HIDE DEF out
    <3> QED BY <1>1, <1>3, <2>1, <2>4, MoveRetagType
  <2>6. /\ t.clients = out.clients /\ t.stack = out.stack /\ t.sel = out.sel
        /\ t.selmon = out.selmon /\ t.nmon = out.nmon /\ t.lost = out.lost
        /\ t.mon = [out.mon EXCEPT ![c] = m]
    <3> HIDE DEF out
    <3> QED BY <2>4 DEF State
  <2>7. SameOthers(out, t, c) /\ t.tags[c] = view
    <3> HIDE DEF out
    <3> QED BY <2>1, <2>4 DEF SameOthers, State
  <2> HIDE DEF t
  <2>8. /\ ListInv(l) /\ In(l, c) /\ OthersStay(u, l, c)
    BY <1>1, <2>3, <2>5, <2>6, MoveInv
  <2>9. Untouched(t, l)
    BY <2>1, <2>5, LinkUntouched
  <2> HIDE DEF l, out
  <2>10. OthersStay(s, l, c)
    BY <2>2, <2>8, ReorderedStay, OthersStayTwice
  <2>11. SameOthers(s, l, c) /\ l.tags[c] = view
    BY <2>2, <2>4, <2>7, <2>9 DEF Untouched, SameOthers
  <2>12. Basic(l)
    BY <1>1, <1>3, <2>8, <2>10, <2>11, OthersBasic
  <2> QED BY <2>8, <2>12 DEF ListInv
<1> HIDE DEF l
<1>5. CASE TagMon(s, dir) = s
  BY <1>5
<1>6. CASE c # NULL /\ TagMon(s, dir) = ArrangeAll(Focus(l, NULL))
  <2>1. SameTagged(l, TagMon(s, dir)) /\ Basic(l)
    BY <1>4, <1>6, RefreshTagged
  <2>2. Reordered(l, Focus(l, NULL))
    BY <1>4, <1>6, FocusInv
  <2>3. Reordered(l, ArrangeAll(Focus(l, NULL)))
    BY <2>2, ArrangeInv, ReorderedTwice DEF Reordered
  <2>4. SameIn(l, ArrangeAll(Focus(l, NULL)))
    BY <1>4, <1>6, <2>3, ReorderedSameIn DEF SameIn
  <2> QED BY <1>6, <2>1, <2>4, SameBasic
<1> QED BY <1>2, <1>5, <1>6

\* focus() and arrange(), in any order.
LEMMA RefreshBasic ==
  ASSUME NEW s, ListInv(s), Basic(s), NEW m
  PROVE  /\ ListInv(Focus(s, NULL)) /\ Basic(Focus(s, NULL))
         /\ ListInv(Arrange(s, m)) /\ Basic(Arrange(s, m))
         /\ Basic(Focus(Arrange(s, m), NULL)) /\ Basic(ArrangeAll(Focus(s, NULL)))
<1>1. ASSUME NEW t, ListInv(t), Basic(t)
      PROVE  /\ ListInv(Focus(t, NULL)) /\ Basic(Focus(t, NULL))
             /\ \A i : ListInv(Arrange(t, i)) /\ Basic(Arrange(t, i))
             /\ Basic(ArrangeAll(t))
  <2>1. t \in State
    BY <1>1 DEF ListInv
  <2>2. /\ Reordered(t, Focus(t, NULL)) /\ Reordered(t, ArrangeAll(t))
        /\ \A i : Reordered(t, Arrange(t, i))
    BY <1>1, FocusInv, ArrangeInv
  <2>3. /\ SameIn(t, Focus(t, NULL)) /\ SameIn(t, ArrangeAll(t))
        /\ \A i : SameIn(t, Arrange(t, i))
    BY <1>1, <2>2, ReorderedSameIn DEF SameIn
  <2>4. /\ SameTagged(t, Focus(t, NULL)) /\ SameTagged(t, ArrangeAll(t))
        /\ \A i : SameTagged(t, Arrange(t, i))
    <3>1. SameTagged(t, ArrangeAll(t))
      BY <2>1, ArrangeFields DEF ArrangeAll, SameTagged
    <3> QED BY <2>1, <3>1, RefreshTagged
  <2> QED BY <1>1, <2>2, <2>3, <2>4, SameBasic DEF Reordered
<1> QED BY <1>1

\* Only whether c is fullscreen may change.
FullscreenOnly(s, t, c) ==
  /\ t.tags = s.tags /\ t.tagset = s.tagset /\ t.lost = s.lost
  /\ \A d \in Client \ {c} : t.isfullscreen[d] = s.isfullscreen[d]

LEMMA FullscreenBasic ==
  ASSUME NEW s, Basic(s), NEW c, In(s, c), NEW t, FullscreenOnly(s, t, c),
         SameIn(s, t)
  PROVE  Basic(t)
BY DEF Basic, Based, FullscreenOnly, SameIn

LEMMA SetFullscreenBasic ==
  ASSUME NEW s, ListInv(s), Basic(s), NEW c, In(s, c), NEW on \in BOOLEAN
  PROVE  /\ ListInv(SetFullscreen(s, c, on)) /\ Basic(SetFullscreen(s, c, on))
         /\ SameIn(s, SetFullscreen(s, c, on))
<1> DEFINE float == s.isfloating[c]
           old == s.oldstate[c]
           t == [s EXCEPT !.isfullscreen[c] = TRUE, !.oldstate[c] = float,
                          !.isfloating[c] = TRUE, !.shown[c] = TRUE]
           u == [s EXCEPT !.isfullscreen[c] = FALSE, !.isfloating[c] = old,
                          !.shown[c] = TRUE]
<1>1. s \in State /\ float \in BOOLEAN /\ old \in BOOLEAN /\ c \in Client
  BY StateFlags DEF ListInv, In
<1>2. Reordered(s, SetFullscreen(s, c, on))
  BY <1>1, SetFullscreenInv
<1>3. SameIn(s, SetFullscreen(s, c, on)) /\ ListInv(SetFullscreen(s, c, on))
  BY <1>2, ReorderedSameIn DEF SameIn, Reordered
<1> HIDE DEF float, old
<1>4. t \in State /\ u \in State
  BY <1>1, SetFullscreenFieldsType
<1>5. FullscreenOnly(s, s, c) /\ FullscreenOnly(s, t, c) /\ FullscreenOnly(s, u, c)
  BY <1>1 DEF FullscreenOnly, State
<1>6. \/ SetFullscreen(s, c, on) = s \/ SetFullscreen(s, c, on) = t
      \/ SetFullscreen(s, c, on) = Arrange(u, s.mon[c])
  BY DEF SetFullscreen, t, u, float, old
<1> HIDE DEF t, u
<1>7. \A m : FullscreenOnly(s, Arrange(u, m), c)
  <2>1. \A m : SameTagged(u, Arrange(u, m))
    BY <1>4, RefreshTagged
  <2> QED BY <1>5, <2>1 DEF FullscreenOnly, SameTagged
<1>8. FullscreenOnly(s, SetFullscreen(s, c, on), c)
  BY <1>5, <1>6, <1>7
<1> QED BY <1>3, <1>8, FullscreenBasic

LEMMA ToggleFullscrBasic ==
  ASSUME NEW s, Sound(s), Basic(s)
  PROVE  Basic(ToggleFullscr(s))
<1> DEFINE c == s.sel[s.selmon]
           on == ~s.isfullscreen[c]
<1>1. ListInv(s) /\ (c # NULL => In(s, c)) /\ on \in BOOLEAN
  BY SelmonFacts DEF Sound
<1>2. ToggleFullscr(s) = s
      \/ (c # NULL /\ ToggleFullscr(s) = SetFullscreen(s, c, on))
  BY DEF ToggleFullscr
<1> HIDE DEF c, on
<1> QED BY <1>1, <1>2, SetFullscreenBasic

LEMMA ConfigureNotifyBasic ==
  ASSUME NEW s, Sound(s), Basic(s), NEW n \in Mon, NEW p \in 1 .. n
  PROVE  Basic(ConfigureNotify(s, n, p))
<1>1. PICK u : /\ ConfigureNotify(s, n, p) = ArrangeAll(Focus(u, NULL))
               /\ Regrouped(s, u)
  BY ConfigureNotifyRegroups DEF Sound, Basic
<1>2. ListInv(u) /\ Basic(u)
  BY <1>1 DEF Regrouped, Basic
<1> QED BY <1>1, <1>2, RefreshBasic

\* manage() up to the last call of focus(), for a client that no list has.
LEMMA ManageArrangedBasic ==
  ASSUME NEW s, ListInv(s), Basic(s), NEW c, Out(s, c), NEW kind \in Kind
  PROVE  LET t == ManageArranged(s, c, kind, NULL)
         IN Basic(t) /\ (~kind.fullscreen => ~t.isfullscreen[c])
<1> DEFINE r == ManageArranged(s, c, kind, NULL)
<1>1. s \in State /\ c \in Client /\ ~In(s, c) /\ s.selmon \in Mon
  BY OutNotIn, StateFields DEF ListInv, Out
<1>2. ~s.isfullscreen[c]
  BY <1>1 DEF Basic, Based
<1>3. PICK t : /\ r = Arrange(t, t.mon[c])
               /\ ListInv(t) /\ In(t, c) /\ OthersStay(s, t, c)
               /\ SameOthers(s, t, c)
               /\ ~kind.fullscreen => t.isfullscreen[c] = s.isfullscreen[c]
               /\ t.tags[c] = RuleTags(s, s.selmon, kind)
  BY ManageLinks
<1> HIDE DEF r
<1>4. t.tags[c] # {}
  BY <1>3 DEF RuleTags
<1>5. Basic(t)
  BY <1>1, <1>3, <1>4, OthersBasic
<1>6. Basic(r)
  BY <1>3, <1>5, RefreshBasic
<1>7. ~kind.fullscreen => ~r.isfullscreen[c]
  <2>1. t \in State
    BY <1>3 DEF ListInv
  <2>2. SameTagged(t, r)
    BY <1>3, <2>1, RefreshTagged
  <2> QED BY <1>2, <1>3, <2>2 DEF SameTagged
<1> QED BY <1>6, <1>7 DEF r

\* A struct on no list is freed.
LEMMA FreeOutKeeps ==
  ASSUME NEW s, ListInv(s), NEW c, Out(s, c)
  PROVE  LET t == FreeClient(s, c)
         IN (Basic(s) => Basic(t)) /\ (Whole(s) => Whole(t))
<1> DEFINE t == FreeClient(s, c)
<1>1. s \in State /\ c \in Client
  BY DEF ListInv, Out
<1>2. /\ t \in State /\ SameOthers(s, t, c) /\ ~t.isfullscreen[c]
      /\ t.clients = s.clients /\ t.stack = s.stack /\ t.sel = s.sel
      /\ t.selmon = s.selmon /\ t.nmon = s.nmon /\ t.lost = s.lost
      /\ t.mon = [s.mon EXCEPT ![c] = 1]
  BY <1>1, FreeClientType, FreeClientFields, FreeClientOthers
<1> HIDE DEF t
<1>3. \A d \in Client \ {c} : t.mon[d] = s.mon[d]
  BY <1>1, <1>2 DEF State
<1>4. ListInv(t) /\ Out(t, c) /\ OthersStay(s, t, c)
  BY <1>2, <1>3, OutFieldsInv
<1>5. ~In(t, c)
  BY <1>1, <1>2, <1>4, OutNotIn
<1>6. Basic(s) => Basic(t)
  BY <1>1, <1>2, <1>4, <1>5, OthersBasic
<1>7. Whole(s) => Whole(t)
  <2>1. FloatsIfFull(t, c)
    BY <1>2 DEF FloatsIfFull
  <2> QED BY <1>1, <1>2, <1>4, <1>5, <2>1, OthersReady DEF Whole
<1> QED BY <1>6, <1>7 DEF t

LEMMA UnmanageBasic ==
  ASSUME NEW s, ListInv(s), Basic(s), NEW c, In(s, c)
  PROVE  Basic(Unmanage(s, c))
<1> DEFINE u == Unlink(s, c)
           t == FreeClient(u, c)
<1>1. s \in State /\ c \in Client
  BY DEF ListInv, In
<1>2. ListInv(u) /\ Out(u, c) /\ OthersStay(s, u, c) /\ Untouched(s, u)
  BY <1>1, UnlinkInv, UnlinkUntouched
<1>3. u \in State
  BY <1>2 DEF ListInv
<1>4. Unmanage(s, c) = Focus(Arrange(t, s.mon[c]), NULL)
  BY DEF Unmanage, Unlink
<1> HIDE DEF u
<1>5. /\ t \in State /\ SameOthers(u, t, c) /\ ~t.isfullscreen[c]
      /\ t.clients = u.clients /\ t.stack = u.stack /\ t.sel = u.sel
      /\ t.selmon = u.selmon /\ t.nmon = u.nmon /\ t.lost = u.lost
      /\ t.mon = [u.mon EXCEPT ![c] = 1]
  BY <1>1, <1>3, FreeClientType, FreeClientFields, FreeClientOthers
<1> HIDE DEF t
<1>6. \A d \in Client \ {c} : t.mon[d] = u.mon[d]
  BY <1>1, <1>3, <1>5 DEF State
<1>7. ListInv(t) /\ Out(t, c) /\ OthersStay(s, t, c)
  BY <1>2, <1>5, <1>6, OutFieldsInv, OthersStayTwice
<1>8. ~In(t, c) /\ SameOthers(s, t, c)
  BY <1>1, <1>2, <1>5, <1>7, OutNotIn, UntouchedOthers, SameOthersTwice
<1>9. Basic(t)
  BY <1>1, <1>5, <1>7, <1>8, OthersBasic
<1> QED BY <1>4, <1>7, <1>9, RefreshBasic

\* applyrules() gives a client at least one tag.
LEMMA ApplyRulesBasic ==
  ASSUME NEW s, ListInv(s), Basic(s), NEW p \in Client, NEW w \in Window
  PROVE  Basic(ApplyRules(s, p, w))
<1> DEFINE rule == RuleFor[w]
           float == rule.matches /\ rule.isfloating
           left == IF rule.matches THEN rule.isLeft ELSE s.isLeft[p]
           tags == RuleTags(s, s.mon[p], rule)
           t == [s EXCEPT !.isfloating[p] = float, !.isLeft[p] = left,
                          !.tags[p] = tags]
<1>1. s \in State /\ tags # {}
  BY DEF ListInv, RuleTags
<1>2. ApplyRules(s, p, w) = t
  BY DEF ApplyRules
<1>3. SameIn(s, ApplyRules(s, p, w))
  BY ApplyRulesSound
<1> HIDE DEF rule, float, left, tags
<1>4. /\ t.tagset = s.tagset /\ t.isfullscreen = s.isfullscreen
      /\ t.lost = s.lost /\ t.tags = [s.tags EXCEPT ![p] = tags]
      /\ s.tags \in [Client -> SUBSET Tag]
  BY <1>1 DEF State
<1> HIDE DEF t
<1>5. \A d : In(t, d) => t.tags[d] # {}
  BY <1>1, <1>2, <1>3, <1>4 DEF SameIn, Basic, Based, In
<1> QED BY <1>2, <1>3, <1>4, <1>5 DEF SameIn, Basic, Based

\* swallow(): c is on no list any more.
LEMMA SwallowClientBasic ==
  ASSUME NEW s, ListInv(s), Basic(s), NEW p, In(s, p), NEW c, In(s, c), p # c,
         ~s.isfullscreen[c], NEW w \in Window
  PROVE  Basic(SwallowClient(s, p, c, w))
<1> DEFINE out == Unlink(s, c)
           m == s.mon[p]
           gone == s.gone[c]
           xfocus == IF out.xfocus = p THEN NULL ELSE out.xfocus
           taken == [out EXCEPT !.mon[c] = m, !.gone[p] = gone,
                                !.xfocus = xfocus]
           a == Arrange(taken, m)
<1>1. s \in State /\ p \in Client /\ c \in Client
  BY DEF In, ListInv
<1>2. /\ ListInv(out) /\ Out(out, c) /\ OthersStay(s, out, c)
      /\ Untouched(s, out)
  BY <1>1, UnlinkInv, UnlinkUntouched
<1>3. out \in State
  BY <1>2 DEF ListInv
<1>4. SwallowClient(s, p, c, w) = ApplyRules(a, p, w)
  BY DEF SwallowClient, Unlink
<1> HIDE DEF out
<1>5. m \in Mon /\ gone \in BOOLEAN /\ xfocus \in ClientOrNull
  BY <1>1, <1>3 DEF State, ClientOrNull
<1> HIDE DEF m, gone, xfocus
<1>6. taken \in State
  BY <1>1, <1>3, <1>5, ZenonT(60) DEF State
<1>7. /\ taken.clients = out.clients /\ taken.stack = out.stack
      /\ taken.sel = out.sel /\ taken.selmon = out.selmon
      /\ taken.nmon = out.nmon /\ taken.lost = out.lost
      /\ taken.mon = [out.mon EXCEPT ![c] = m]
  BY <1>3 DEF State
<1>8. SameTagged(out, taken)
  BY <1>3 DEF SameTagged, State
<1> HIDE DEF taken
<1>9. \A d \in Client \ {c} : taken.mon[d] = out.mon[d]
  BY <1>3, <1>7 DEF State
<1>10. ListInv(taken) /\ Out(taken, c) /\ OthersStay(s, taken, c)
  BY <1>2, <1>6, <1>7, <1>9, OutFieldsInv, OthersStayTwice
<1>11. \A d : In(taken, d) <=> In(s, d) /\ d # c
  BY <1>1, <1>6, <1>10, OthersIn, OutNotIn
<1>12. SameTagged(s, taken)
  BY <1>2, <1>8, UntouchedTagged, SameTaggedTwice DEF OthersStay
<1>13. Basic(taken)
  BY <1>11, <1>12 DEF Basic, Based, SameTagged
<1>14. ListInv(a) /\ Basic(a)
  BY <1>10, <1>13, RefreshBasic
<1> HIDE DEF a
<1> QED BY <1>1, <1>4, <1>14, ApplyRulesBasic

LEMMA SetGoneTagged ==
  ASSUME NEW s \in State, NEW c, NEW b
  PROVE  /\ SameTagged(s, [s EXCEPT !.gone[c] = b])
         /\ SameTagged(s, [s EXCEPT !.shown[c] = TRUE])
BY DEF SameTagged, State

\* unswallow(): p stays on its lists.
LEMMA UnswallowBasic ==
  ASSUME NEW s, ListInv(s), Basic(s), NEW p, In(s, p), Out(s, swallowing[p]),
         NEW exists \in BOOLEAN
  PROVE  Basic(Unswallow(s, p, exists))
<1> DEFINE c == swallowing[p]
           gone == ~exists
           set == [s EXCEPT !.gone[p] = gone]
           back == FreeClient(set, c)
           full == SetFullscreen(back, p, FALSE)
           a == Arrange(full, s.mon[p])
           placed == [a EXCEPT !.shown[p] = TRUE]
           f == Focus(placed, NULL)
<1>1. s \in State /\ p \in Client /\ gone \in BOOLEAN
  BY DEF ListInv, In
<1>2. Unswallow(s, p, exists) = Arrange(f, s.mon[p])
  BY DEF Unswallow
<1> HIDE DEF gone
<1>3. ListInv(set) /\ SameIn(s, set) /\ Basic(set)
  BY <1>1, SetGoneSound, SetGoneTagged, SameBasic
<1>4. Out(set, c)
  <2>1. set.clients = s.clients
    BY <1>1 DEF State
  <2> QED BY <2>1 DEF Out
<1> HIDE DEF set, c
<1>5. ListInv(back) /\ SameIn(s, back) /\ Basic(back)
  BY <1>3, <1>4, FreeOutSound, FreeOutKeeps, SameInTwice
<1> HIDE DEF back
<1>6. ListInv(full) /\ Basic(full)
  BY <1>5, SetFullscreenBasic DEF SameIn
<1> HIDE DEF full
<1>7. ListInv(a) /\ Basic(a) /\ a \in State
  BY <1>6, RefreshBasic DEF ListInv
<1> HIDE DEF a
<1>8. ListInv(placed) /\ Basic(placed)
  BY <1>1, <1>7, SetShownSound, SetGoneTagged, SameBasic
<1> HIDE DEF placed
<1>9. ListInv(f) /\ Basic(f)
  BY <1>8, RefreshBasic
<1> HIDE DEF f
<1> QED BY <1>2, <1>9, RefreshBasic

\* unmanage() of a swallowed client.
LEMMA StandAloneKeeps ==
  ASSUME NEW s, ListInv(s), NEW p, Out(s, swallowing[p])
  PROVE  LET t == StandAlone(s, p)
         IN (Basic(s) => Basic(t)) /\ (Whole(s) => Good(t))
<1> DEFINE c == swallowing[p]
           m == s.mon[c]
           freed == FreeClient(s, c)
           a == Arrange(freed, m)
           r == IF m \in Mons(s) THEN a ELSE freed
<1>1. StandAlone(s, p) = Focus(r, NULL)
  BY DEF StandAlone
<1>2. ListInv(freed) /\ (Basic(s) => Basic(freed)) /\ (Whole(s) => Whole(freed))
  BY FreeOutSound, FreeOutKeeps
<1> HIDE DEF freed, m, c
<1>3. /\ ListInv(a) /\ (Basic(s) => Basic(a)) /\ (Whole(s) => Whole(a))
  <2>1. ListInv(a) /\ (Basic(s) => Basic(a))
    BY <1>2, RefreshBasic, ArrangeInv DEF Reordered
  <2>2. Whole(freed) => Whole(a)
    BY ArrangeWhole DEF Ready, Whole
  <2> QED BY <1>2, <2>1, <2>2
<1> HIDE DEF a
<1>4. /\ ListInv(r) /\ (Basic(s) => Basic(r)) /\ (Whole(s) => Whole(r))
  BY <1>2, <1>3
<1> HIDE DEF r
<1> QED BY <1>1, <1>4, RefreshBasic, FocusGood

\* Unmapping a window changes nothing of this.
LEMMA WindowOffKeeps ==
  ASSUME SwallowInv, NEW w
  PROVE  /\ Basic(wm) => Basic(WindowOff(w))
         /\ Whole(wm) => Whole(WindowOff(w))
<1> DEFINE gone == [c \in Client |-> wm.gone[c] \/ c \in Holding(w)]
           xfocus == IF wm.xfocus \in Holding(w) THEN NULL ELSE wm.xfocus
           t == [wm EXCEPT !.gone = gone, !.xfocus = xfocus]
<1>1. wm \in State /\ ListInv(wm)
  BY DEF SwallowInv, Sound, ListInv
<1>2. WindowOff(w) = t
  BY DEF WindowOff
<1>3. Sound(t) /\ SameIn(wm, t) /\ t \in State
  BY <1>2, WindowOffSound DEF Sound, ListInv
<1> HIDE DEF gone, xfocus
<1>4. SameTagged(wm, t) /\ Untouched(wm, t) /\ SameLists(wm, t)
  BY <1>1 DEF SameTagged, Untouched, SameLists, State
<1> HIDE DEF t
<1>5. Reordered(wm, t)
  BY <1>1, <1>3, <1>4, ReorderedSame
<1> QED BY <1>1, <1>2, <1>3, <1>4, <1>5, SameBasic, UntouchedReady

\* A client leaves fullscreen: its monitor is arranged.
LEMMA LeaveFullscreenWhole ==
  ASSUME NEW s, Whole(s), NEW c, In(s, c)
  PROVE  LET t == SetFullscreen(s, c, FALSE)
         IN Whole(t) /\ t.mon = s.mon
<1> DEFINE old == s.oldstate[c]
           u == [s EXCEPT !.isfullscreen[c] = FALSE,
                          !.isfloating[c] = old, !.shown[c] = TRUE]
           a == Arrange(u, s.mon[c])
<1>1. /\ s \in State /\ ListInv(s) /\ Proper(s) /\ c \in Client
      /\ old \in BOOLEAN
  BY StateFlags DEF Whole, ListInv, In
<1> HIDE DEF old
<1>2. u \in State
  BY <1>1, SetFullscreenFieldsType
<1>3. /\ SameLists(s, u)
      /\ u.tags = s.tags /\ u.tagset = s.tagset /\ u.seltags = s.seltags
      /\ u.isfullscreen = [s.isfullscreen EXCEPT ![c] = FALSE]
      /\ u.isfloating = [s.isfloating EXCEPT ![c] = old]
      /\ u.shown = [s.shown EXCEPT ![c] = TRUE]
  BY <1>1 DEF SameLists, State
<1> HIDE DEF u
<1>4. /\ s.isfullscreen \in [Client -> BOOLEAN]
      /\ s.isfloating \in [Client -> BOOLEAN]
      /\ s.shown \in [Client -> BOOLEAN]
  BY <1>1 DEF State
<1>5. Reordered(s, u)
  BY <1>1, <1>2, <1>3, ReorderedSame
<1>6. \A d : In(u, d) <=> In(s, d)
  BY <1>1, <1>5, ReorderedSameIn
<1>7. SameView(s, u) /\ u.mon = s.mon
  BY <1>3 DEF SameView, SameLists
<1>8. Proper(u)
  BY <1>1, <1>3, <1>4, <1>6 DEF Proper
<1>9. ASSUME NEW d, In(s, d), d # c
      PROVE  OnScreen(u, d)
  <2>1. OnScreen(s, d) /\ d \in Client
    BY <1>9 DEF Whole, In
  <2>2. Visible(u, d) = Visible(s, d)
    BY <1>7, SameVisible
  <2> QED BY <1>1, <1>3, <1>4, <1>9, <2>1, <2>2 DEF OnScreen
<1>10. Ready(u, s.mon[c])
  BY <1>5, <1>6, <1>7, <1>8, <1>9 DEF Ready, Reordered
<1>11. Whole(a) /\ a.mon = s.mon
  BY <1>7, <1>10, ArrangeWhole DEF Reordered, SamePlaces
<1>12. SetFullscreen(s, c, FALSE) = s \/ SetFullscreen(s, c, FALSE) = a
  BY DEF SetFullscreen, old, u
<1> HIDE DEF a
<1> QED BY <1>11, <1>12

\* unswallow() arranges the monitor of the terminal last.
LEMMA UnswallowWhole ==
  ASSUME NEW s, Whole(s), NEW p, In(s, p), Out(s, swallowing[p]),
         NEW exists \in BOOLEAN
  PROVE  Whole(Unswallow(s, p, exists))
<1> DEFINE c == swallowing[p]
           m == s.mon[p]
           gone == ~exists
           set == [s EXCEPT !.gone[p] = gone]
           back == FreeClient(set, c)
           full == SetFullscreen(back, p, FALSE)
           a == Arrange(full, m)
           placed == [a EXCEPT !.shown[p] = TRUE]
           f == Focus(placed, NULL)
<1>1. /\ s \in State /\ ListInv(s) /\ p \in Client /\ gone \in BOOLEAN
      /\ m \in Mon
  BY InFacts DEF Whole, ListInv, In
<1>2. Unswallow(s, p, exists) = Arrange(f, m)
  BY DEF Unswallow
<1> HIDE DEF gone
<1>3. ListInv(set) /\ SameIn(s, set) /\ set \in State
  BY <1>1, SetGoneSound DEF ListInv
<1>4. Untouched(s, set) /\ SameLists(s, set)
  BY <1>1 DEF Untouched, SameLists, State
<1> HIDE DEF set
<1>5. Reordered(s, set)
  BY <1>1, <1>3, <1>4, ReorderedSame
<1>6. Whole(set) /\ In(set, p) /\ Out(set, c) /\ set.mon[p] = m
  BY <1>1, <1>3, <1>4, <1>5, UntouchedReady DEF SameIn, Out, SameLists
<1>7. c # p /\ c \in Client
  BY <1>1, <1>3, <1>6, OutNotIn DEF Out
<1> HIDE DEF c, m
<1>8. Whole(back) /\ In(back, p) /\ back.mon[p] = m
  <2>1. Whole(back) /\ SameIn(set, back)
    BY <1>3, <1>6, FreeOutKeeps, FreeOutSound
  <2>2. back.mon = [set.mon EXCEPT ![c] = 1]
    BY <1>3, <1>7, FreeClientFields
  <2>3. set.mon \in [Client -> Mon]
    BY <1>3 DEF State
  <2> HIDE DEF back
  <2> QED BY <1>1, <1>6, <1>7, <2>1, <2>2, <2>3 DEF SameIn
<1> HIDE DEF back
<1>9. /\ Whole(full) /\ full.mon = back.mon /\ In(full, p)
  <2>1. Whole(full) /\ full.mon = back.mon
    BY <1>8, LeaveFullscreenWhole
  <2>2. Reordered(back, full)
    BY <1>1, <1>8, SetFullscreenInv DEF Whole
  <2> HIDE DEF full
  <2> QED BY <1>8, <2>1, <2>2, ReorderedSameIn DEF Whole
<1> HIDE DEF full
<1>10. /\ Whole(a) /\ In(a, p) /\ a.mon[p] = m /\ a \in State /\ ListInv(a)
  <2>1. Whole(a) /\ Reordered(full, a)
    BY <1>9, ArrangeWhole DEF Ready, Whole
  <2> HIDE DEF a
  <2> QED BY <1>8, <1>9, <2>1, ReorderedSameIn
          DEF Whole, Reordered, SamePlaces, ListInv
<1> HIDE DEF a
<1>11. /\ ListInv(placed) /\ SameIn(a, placed) /\ placed \in State
  BY <1>1, <1>10, SetShownSound DEF ListInv
<1>12. /\ placed.shown = [a.shown EXCEPT ![p] = TRUE]
       /\ a.shown \in [Client -> BOOLEAN] /\ placed.mon = a.mon
       /\ placed.tags = a.tags /\ placed.tagset = a.tagset
       /\ placed.seltags = a.seltags /\ placed.isfloating = a.isfloating
       /\ placed.isfullscreen = a.isfullscreen
  BY <1>10 DEF State
<1> HIDE DEF placed
<1>13. Ready(placed, m)
  <2>1. Proper(placed)
    BY <1>10, <1>11, <1>12 DEF Proper, SameIn, Whole
  <2>2. ASSUME NEW d, In(placed, d), placed.mon[d] # m
        PROVE  OnScreen(placed, d)
    <3>1. d # p /\ In(a, d) /\ OnScreen(a, d)
      BY <1>10, <1>11, <1>12, <2>2 DEF SameIn, Whole
    <3>2. Visible(placed, d) = Visible(a, d)
      BY <1>12, SameVisible DEF SameView
    <3>3. placed.shown[d] = a.shown[d]
      BY <1>12, <3>1 DEF In
    <3> QED BY <1>12, <3>1, <3>2, <3>3 DEF OnScreen
  <2> QED BY <1>11, <2>1, <2>2 DEF Ready
<1>14. Ready(f, m)
  BY <1>13, FocusGood
<1> HIDE DEF f
<1> QED BY <1>2, <1>14, ArrangeWhole

\* A step that lets nothing slip: what Whole says stays.
KeepsWhole == Basic(wm') /\ (Whole(wm) => Whole(wm'))

LEMMA UserCommandKeeps ==
  ASSUME SwallowInv, Basic(wm), UserCommand
  PROVE  KeepsWhole
<1>1. Sound(wm) /\ (Whole(wm) => Good(wm))
  BY DEF SwallowInv, Sound, Good
<1>2. \/ \E tag \in Tag : wm' = View(wm, {tag})
      \/ \E dir \in {1, -1} : wm' = FocusMon(wm, dir)
      \/ \E dir \in {1, -1} : wm' = TagMon(wm, dir)
      \/ wm' = ToggleFullscr(wm)
      \/ \E n \in Mon : \E p \in 1 .. n : wm' = ConfigureNotify(wm, n, p)
  BY DEF UserCommand, Command, Others
<1>3. Basic(wm')
  <2>1. CASE \E tag \in Tag : wm' = View(wm, {tag})
    <3>1. PICK tag \in Tag : wm' = View(wm, {tag})
      BY <2>1
    <3>2. {tag} \in SUBSET Tag /\ {tag} # {}
      OBVIOUS
    <3> QED BY <1>1, <3>1, <3>2, ViewBasic
  <2>2. CASE \E dir \in {1, -1} : wm' = FocusMon(wm, dir)
    BY <1>1, <2>2, FocusMonBasic
  <2>3. CASE \E dir \in {1, -1} : wm' = TagMon(wm, dir)
    BY <1>1, <2>3, TagMonBasic
  <2>4. CASE wm' = ToggleFullscr(wm)
    BY <1>1, <2>4, ToggleFullscrBasic
  <2>5. CASE \E n \in Mon : \E p \in 1 .. n : wm' = ConfigureNotify(wm, n, p)
    BY <1>1, <2>5, ConfigureNotifyBasic
  <2> QED BY <1>2, <2>1, <2>2, <2>3, <2>4, <2>5
<1>4. ASSUME Good(wm)
      PROVE  Good(wm')
  <2>1. CASE \E tag \in Tag : wm' = View(wm, {tag})
    <3>1. PICK tag \in Tag : wm' = View(wm, {tag})
      BY <2>1
    <3>2. {tag} \in SUBSET Tag
      OBVIOUS
    <3> QED BY <1>4, <3>1, <3>2, ViewSteady DEF Steady
  <2>2. CASE \E dir \in {1, -1} : wm' = FocusMon(wm, dir)
    BY <1>4, <2>2, FocusMonCalm DEF Calm
  <2>3. CASE \E dir \in {1, -1} : wm' = TagMon(wm, dir)
    BY <1>4, <2>3, TagMonOrderly DEF Orderly
  <2>4. CASE wm' = ToggleFullscr(wm)
    BY <1>4, <2>4, ToggleCalm DEF Calm
  <2>5. CASE \E n \in Mon : \E p \in 1 .. n : wm' = ConfigureNotify(wm, n, p)
    BY <1>4, <2>5, ConfigureNotifyOrderly DEF Orderly
  <2> QED BY <1>2, <2>1, <2>2, <2>3, <2>4, <2>5
<1> QED BY <1>1, <1>3, <1>4 DEF KeepsWhole, Good

LEMMA UnmanageWindowKeeps ==
  ASSUME SwallowInv, Basic(wm), NEW w, NEW c \in Holding(w), UnmanageWindow(c)
  PROVE  KeepsWhole
<1> DEFINE exists == window[win[swallowing[c]]] # "none"
<1>1. /\ ListInv(wm) /\ (Whole(wm) => Good(wm)) /\ In(wm, c)
      /\ c \in Managed(wm)
  BY ManagedIff DEF SwallowInv, Sound, Good, Holding
<1>2. CASE swallowing[c] = NULL
  <2>1. wm' = Unmanage(wm, c)
    BY <1>2 DEF UnmanageWindow
  <2>2. Basic(wm')
    BY <1>1, <2>1, UnmanageBasic
  <2>3. Good(wm) => Good(wm')
    BY <1>1, <2>1, UnmanageDrops DEF Dropping
  <2> QED BY <1>1, <2>2, <2>3 DEF KeepsWhole, Good
<1>3. CASE swallowing[c] # NULL
  <2>1. Out(wm, swallowing[c])
    BY <1>1, <1>3, SwallowedOut
  <2>2. swallowing[c] # c
    BY <1>1, <1>3 DEF SwallowInv, Structs, Swallowed
  <2>3. wm' = Unswallow(wm, c, exists)
    BY <1>3, <2>2 DEF UnmanageWindow
  <2>4. exists \in BOOLEAN
    OBVIOUS
  <2> HIDE DEF exists
  <2> QED BY <1>1, <2>1, <2>3, <2>4, UnswallowBasic, UnswallowWhole DEF KeepsWhole
<1> QED BY <1>2, <1>3

LEMMA DestroyNotifyKeeps ==
  ASSUME SwallowInv, Basic(wm), DestroyNotifyEvent
  PROVE  KeepsWhole
<1> DEFINE x == Head(queue).win
<1>1. CASE Holding(x) # {}
  BY <1>1, UnmanageWindowKeeps DEF DestroyNotifyEvent
<1>2. CASE Holding(x) = {} /\ StandingIn(x) = {}
  BY <1>2 DEF DestroyNotifyEvent, Ignore, KeepsWhole
<1>3. CASE Holding(x) = {} /\ StandingIn(x) # {}
  <2>1. PICK p \in StandingIn(x) : wm' = StandAlone(wm, p)
    BY <1>3 DEF DestroyNotifyEvent
  <2>2. Out(wm, swallowing[p]) /\ ListInv(wm)
    BY SwallowedOut DEF StandingIn, SwallowInv, Sound
  <2> QED BY <2>1, <2>2, StandAloneKeeps DEF KeepsWhole, Good
<1> QED BY <1>1, <1>2, <1>3

\* A new window is managed, and swallowed perhaps.
LEMMA MapRequestKeeps ==
  ASSUME SwallowInv, Basic(wm), MapRequestEvent
  PROVE  \/ KeepsWhole
         \/ /\ Basic(wm')
            /\ \E p \in Managed(wm) : swallowing[p] = NULL /\ swallowing'[p] # NULL
<1> DEFINE w == Head(queue).win
<1>1. queue # << >>
  BY DEF MapRequestEvent
<1>2. CASE window[w] = "none" \/ Holding(w) # {}
  BY <1>2 DEF MapRequestEvent, Ignore, KeepsWhole
<1>3. CASE ~(window[w] = "none" \/ Holding(w) # {})
  <2> DEFINE rule == RuleFor[w]
             kind == [ transient |-> FALSE, tags |-> rule.tags,
                       isfloating |-> rule.matches /\ rule.isfloating,
                       isLeft |-> rule.matches /\ rule.isLeft,
                       fullscreen |-> FALSE, dialog |-> FALSE,
                       isfixed |-> FALSE, urgent |-> FALSE,
                       neverfocus |-> FALSE ]
             Term(c) == RuledTerminal([isterminal EXCEPT ![c] = FALSE], c, w)
             P(c) == TermForWin(wm, Term(c), c, w)
             s(c) == ManageArranged(wm, c, kind, NULL)
  <2>1. PICK c \in Unused :
          IF P(c) = NULL THEN ManageWindow(c, w, s(c), Term(c))
                         ELSE ManageSwallowed(P(c), c, w, s(c), Term(c))
    BY <1>3 DEF MapRequestEvent
  <2> DEFINE p == P(c)
             r == s(c)
  <2>2. w \in Window /\ c \in Client /\ Out(wm, c) /\ c # NULL
    <3>1. 1 \in 1 .. Len(queue) /\ queue[1] = Head(queue)
      BY <1>1, HeadGone DEF SwallowInv
    <3> QED BY <3>1, EventTypes, UnusedOut, ConstantsAssumption DEF SwallowInv
  <2>3. kind \in Kind /\ ~kind.fullscreen
    <3>1. /\ rule.matches \in BOOLEAN /\ rule.isfloating \in BOOLEAN
          /\ rule.isLeft \in BOOLEAN /\ rule.tags \in SUBSET Tag
      <4>1. rule \in Rule
        BY <2>2, SwallowAssumption
      <4> QED BY <4>1 DEF Rule
    <3>2. /\ (rule.matches /\ rule.isfloating) \in BOOLEAN
          /\ (rule.matches /\ rule.isLeft) \in BOOLEAN
      OBVIOUS
    <3> QED BY <3>1, <3>2 DEF Kind
  <2>4. ListInv(wm) /\ (Whole(wm) => Good(wm))
    BY DEF SwallowInv, Sound, Good
  <2> HIDE DEF kind
  <2>5. Basic(r) /\ ~r.isfullscreen[c]
    BY <2>2, <2>3, <2>4, ManageArrangedBasic
  <2>6. ListInv(r) /\ \A d : In(r, d) <=> In(wm, d) \/ d = c
    BY <2>2, <2>3, <2>4, ManageArrangedSound
  <2>7. CASE p = NULL
    <3>1. wm' = Focus(r, NULL)
      BY <2>1, <2>7 DEF ManageWindow
    <3>2. wm' = Manage(wm, c, kind, NULL)
      BY <3>1 DEF Manage
    <3> HIDE DEF r
    <3>3. Good(wm) => Good(wm')
      BY <2>2, <2>3, <3>2, ManageOrderly DEF Orderly
    <3>4. Basic(wm')
      BY <2>5, <2>6, <3>1, RefreshBasic
    <3> QED BY <2>4, <3>3, <3>4 DEF KeepsWhole, Good
  <2>8. CASE p # NULL
    <3>1. ManageSwallowed(p, c, w, r, Term(c))
      BY <2>1, <2>8
    <3>2. p \in Managed(wm) /\ swallowing[p] = NULL
      BY <2>4, <2>8, TermForWinFinds
    <3> HIDE DEF p, r
    <3>3. PICK left \in {"mapped", "unmapped", "none"} :
            wm' = Focus(SwallowClient([r EXCEPT !.gone[c] = left # "mapped"],
                                      p, c, w), NULL)
      BY <3>1 DEF ManageSwallowed
    <3> DEFINE gone == left # "mapped"
               met == [r EXCEPT !.gone[c] = gone]
               t == SwallowClient(met, p, c, w)
    <3>4. wm' = Focus(t, NULL) /\ gone \in BOOLEAN /\ r \in State
      BY <2>6, <3>3 DEF ListInv
    <3> HIDE DEF gone
    <3>5. /\ In(wm, p) /\ p # c /\ p \in Client
      BY <2>2, <2>4, <3>2, ManagedIff, UnusedOut DEF In
    <3>6. /\ ListInv(met) /\ SameIn(r, met) /\ SameTagged(r, met)
      BY <2>2, <2>6, <3>4, SetGoneSound, SetGoneTagged
    <3> HIDE DEF met
    <3>7. /\ In(met, p) /\ In(met, c) /\ ~met.isfullscreen[c] /\ Basic(met)
      BY <2>5, <2>6, <3>5, <3>6, SameBasic DEF SameIn, SameTagged
    <3>8. ListInv(t) /\ Basic(t)
      BY <2>2, <3>5, <3>6, <3>7, SwallowClientSound, SwallowClientBasic
    <3> HIDE DEF t
    <3>9. Basic(wm')
      BY <3>4, <3>8, RefreshBasic
    <3>10. swallowing'[p] = c
      BY <3>1, <3>5 DEF ManageSwallowed, SwallowInv, TypeOK
    <3> QED BY <2>2, <3>2, <3>9, <3>10
  <2> QED BY <2>7, <2>8
<1> QED BY <1>2, <1>3

LEMMA InitBasic ==
  ASSUME Init
  PROVE  Basic(wm)
<1>1. PICK n \in Mon : \E m \in 1 .. n : wm = InitialState(n, m)
  BY DEF Init
<1>2. PICK m \in 1 .. n : wm = InitialState(n, m)
  BY <1>1
<1>3. /\ \A i \in Mon, k \in Slot : wm.tagset[i][k] # {}
      /\ \A c \in Client : ~wm.isfullscreen[c]
      /\ ~wm.lost
  BY <1>2 DEF InitialState
<1>4. \A c : ~In(wm, c)
  BY <1>2, InitialSound, ManagedIff DEF Sound
<1> QED BY <1>3, <1>4 DEF Basic, Based

LEMMA WholeKept ==
  ASSUME SwallowInv, Basic(wm), [Next]_vars
  PROVE  \/ KeepsWhole
         \/ /\ Basic(wm')
            /\ \E p \in Managed(wm) : swallowing[p] = NULL /\ swallowing'[p] # NULL
<1>1. CASE UnmapNotifyEvent
  <2> DEFINE held == Holding(Head(queue).win)
  <2>1. IF held = {} THEN Ignore ELSE \E c \in held : UnmanageWindow(c)
    BY <1>1 DEF UnmapNotifyEvent
  <2>2. Ignore => KeepsWhole
    BY DEF Ignore, KeepsWhole
  <2> QED BY <2>1, <2>2, UnmanageWindowKeeps
<1>2. ASSUME NEW w \in Window, MapWindow(w) \/ UnmapWindow(w) \/ DestroyWindow(w)
      PROVE  KeepsWhole
  <2>1. wm' = wm \/ wm' = WindowOff(w)
    BY <1>2 DEF MapWindow, UnmapWindow, DestroyWindow
  <2> QED BY <2>1, WindowOffKeeps DEF KeepsWhole
<1>3. CASE UNCHANGED vars
  BY <1>3 DEF vars, KeepsWhole
<1> QED BY <1>1, <1>2, <1>3, MapRequestKeeps, DestroyNotifyKeeps,
           UserCommandKeeps DEF Next

LEMMA BasicInvariant == Spec => []Basic(wm)
<1>1. SwallowInv /\ Basic(wm) /\ [Next]_vars => Basic(wm)'
  BY WholeKept DEF KeepsWhole
<1> QED BY <1>1, InitBasic, SwallowInvariant, PTL DEF Spec

\* The two halves of what OnlySwallowDisturbs is about.
LEMMA WholeIsTidy ==
  ASSUME NEW s, ListInv(s), Basic(s)
  PROVE  Whole(s) <=>
           \A c \in Managed(s) :
             /\ IF Visible(s, c) THEN s.shown[c]
                                 ELSE s.shown[c] => s.isfullscreen[c]
             /\ s.isfullscreen[c] => s.isfloating[c]
<1>1. \A c : c \in Managed(s) <=> In(s, c)
  BY ManagedIff
<1>2. Proper(s) <=> \A c : In(s, c) => (s.isfullscreen[c] => s.isfloating[c])
  BY DEF Proper, Basic, Based, In
<1> QED BY <1>1, <1>2 DEF Whole, OnScreen

LEMMA WMLooks ==
  ASSUME NEW s
  PROVE  /\ WM!Managed(s) = Managed(s)
         /\ \A c : WM!Visible(s, c) <=> Visible(s, c)
<1>1. WM!Managed(s) = Managed(s)
  BY WMSame DEF Managed, WM!Managed, Contains, WM!Contains
<1>2. \A c : WM!Visible(s, c) <=> Visible(s, c)
  BY DEF Visible, WM!Visible, ViewOf, WM!ViewOf
<1> QED BY <1>1, <1>2

\* Whatever the programs and the user do, a screen that shows the view, with
\* the fullscreen clients floating, stays so but for swallow(), which gives a
\* terminal other tags, and makes it tiled, after the last arrange().
THEOREM OnlySwallowing == Spec => OnlySwallowDisturbs
<1> DEFINE A == WM!ScreenShowsView /\ WM!FullscreenFloats =>
                  \/ (WM!ScreenShowsView /\ WM!FullscreenFloats)'
                  \/ \E p \in Managed(wm) :
                       swallowing[p] = NULL /\ swallowing'[p] # NULL
<1>1. SwallowInv /\ Basic(wm) /\ [Next]_vars => [A]_vars
  <2> SUFFICES ASSUME SwallowInv, Basic(wm), [Next]_vars
               PROVE  A
    OBVIOUS
  <2>1. WM!ScreenShowsView /\ WM!FullscreenFloats <=> Whole(wm)
    <3>1. ListInv(wm) /\ ~wm.lost
      BY DEF SwallowInv, Sound, Basic
    <3> QED BY <3>1, WMLooks, WholeIsTidy
            DEF WM!ScreenShowsView, WM!FullscreenFloats
  <2>2. SwallowInv' /\ Basic(wm')
    BY SwallowInductive, WholeKept DEF KeepsWhole
  <2>3. (WM!ScreenShowsView /\ WM!FullscreenFloats)' <=> Whole(wm')
    <3>1. ListInv(wm') /\ ~wm'.lost
      BY <2>2 DEF SwallowInv, Sound, Basic
    <3> QED BY <2>2, <3>1, WMLooks, WholeIsTidy
            DEF WM!ScreenShowsView, WM!FullscreenFloats
  <2> QED BY <2>1, <2>3, WholeKept DEF KeepsWhole
<1> QED BY <1>1, SwallowInvariant, BasicInvariant, PTL
        DEF Spec, OnlySwallowDisturbs
=============================================================================
