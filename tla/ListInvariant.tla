--------------------------- MODULE ListInvariant ----------------------------
(***************************************************************************)
(* The two lists of every monitor stay in step, and the selected client is *)
(* the visible client on top of the focus history, which does not ask for  *)
(* attention: what every helper, command and event handler does to that.   *)
(***************************************************************************)
EXTENDS HandlerTypes

-----------------------------------------------------------------------------
(* The invariant                                                           *)

\* Each client in a list is in both lists of its monitor, once.
Linked(s) ==
  \A m \in Mon :
    /\ List(s.clients[m]) /\ List(s.stack[m])
    /\ ToSet(s.stack[m]) = ToSet(s.clients[m])
    /\ \A c \in ToSet(s.clients[m]) : s.mon[c] = m

\* A monitor's selected client is in its lists.
Owned(s) == \A m \in Mon : s.sel[m] \in ToSet(s.clients[m]) \cup {NULL}

\* The selected monitor and the monitors of clients are connected.
Connected(s) ==
  /\ s.selmon <= s.nmon
  /\ \A m \in Mon : s.nmon < m => ToSet(s.clients[m]) = {}

ListInv(s) == s \in State /\ Linked(s) /\ Owned(s) /\ Connected(s)

\* c is in the lists, or in none.
In(s, c) == c \in Client /\ c \in ToSet(s.clients[s.mon[c]])
Out(s, c) == c \in Client /\ \A m \in Mon : c \notin ToSet(s.clients[m])

\* s and t have the same lists, selections and monitors.
SameLists(s, t) ==
  /\ t.clients = s.clients /\ t.stack = s.stack /\ t.mon = s.mon
  /\ t.sel = s.sel /\ t.selmon = s.selmon /\ t.nmon = s.nmon
  /\ t.lost = s.lost

LEMMA SameListsInv ==
  ASSUME NEW s, ListInv(s), NEW t \in State, SameLists(s, t)
  PROVE  ListInv(t) /\ \A c : In(s, c) => In(t, c)
BY DEF ListInv, SameLists, Linked, Owned, Connected, In

LEMMA InOfMonitor ==
  ASSUME NEW s, ListInv(s), NEW m \in Mon, NEW c \in ToSet(s.clients[m])
  PROVE  In(s, c) /\ s.mon[c] = m /\ m <= s.nmon /\ c \in Client
<1>1. s.mon[c] = m /\ List(s.clients[m])
  BY DEF ListInv, Linked
<1>2. ToSet(s.clients[m]) \subseteq Client
  BY <1>1, ToSetOfSeq DEF List
<1>3. s.nmon \in Int /\ m \in Int
  BY StateFields, ConstantsAssumption DEF ListInv, Mon
<1> QED BY <1>1, <1>2, <1>3 DEF ListInv, Connected, In

LEMMA SelIn ==
  ASSUME NEW s, ListInv(s), NEW m \in Mon, s.sel[m] # NULL
  PROVE  In(s, s.sel[m]) /\ s.mon[s.sel[m]] = m
<1>1. s.sel[m] \in ToSet(s.clients[m])
  BY DEF ListInv, Owned
<1> QED BY <1>1, InOfMonitor

LEMMA InFacts ==
  ASSUME NEW s, ListInv(s), NEW c, In(s, c)
  PROVE  /\ c \in Client /\ c # NULL /\ s.mon[c] \in Mon
         /\ s.mon[c] <= s.nmon
         /\ c \in ToSet(s.stack[s.mon[c]])
<1>1. c \in Client /\ s.mon[c] \in Mon
  BY DEF In, ListInv, State
<1>2. c \in ToSet(s.clients[s.mon[c]])
  BY DEF In
<1> QED BY <1>1, <1>2, InOfMonitor, ConstantsAssumption DEF ListInv, Linked

-----------------------------------------------------------------------------
(* Focus and the focus history                                             *)

LEMMA AttachStackFields ==
  ASSUME NEW s \in State, NEW c \in Client
  PROVE  /\ AttachStack(s, c).stack = [s.stack EXCEPT ![s.mon[c]] = <<c>> \o @]
         /\ AttachStack(s, c).clients = s.clients
         /\ AttachStack(s, c).mon = s.mon
         /\ AttachStack(s, c).sel = s.sel
         /\ AttachStack(s, c).selmon = s.selmon
         /\ AttachStack(s, c).nmon = s.nmon
         /\ AttachStack(s, c).lost = s.lost
BY DEF AttachStack, State

\* What detachstack(c) makes the selection of c's monitor.
NextSel(s, c) ==
  LET m == s.mon[c]
  IN IF s.sel[m] = c THEN FirstVisible(s, RemoveFirst(s.stack[m], c))
                     ELSE s.sel[m]

LEMMA DetachStackFields ==
  ASSUME NEW s \in State, NEW c \in Client
  PROVE  /\ DetachStack(s, c).stack =
              [s.stack EXCEPT ![s.mon[c]] = RemoveFirst(@, c)]
         /\ DetachStack(s, c).sel = [s.sel EXCEPT ![s.mon[c]] = NextSel(s, c)]
         /\ DetachStack(s, c).clients = s.clients
         /\ DetachStack(s, c).mon = s.mon
         /\ DetachStack(s, c).selmon = s.selmon
         /\ DetachStack(s, c).nmon = s.nmon
         /\ DetachStack(s, c).lost = s.lost
BY DEF DetachStack, NextSel, State

LEMMA SetFocusFields ==
  ASSUME NEW s \in State, NEW c
  PROVE  SameLists(s, SetFocus(s, c)) /\ SameLists(s, Unfocus(s, c))
BY DEF SetFocus, Unfocus, SameLists, State

\* The client focus(want) selects.
Chosen(s, want) == IF want # NULL /\ Visible(s, want)
                   THEN want ELSE FirstVisible(s, s.stack[s.selmon])

\* It comes to the front of its monitor's focus history and is selected.
LEMMA FocusFields ==
  ASSUME NEW s \in State, NEW want, Chosen(s, want) \in Client
  PROVE  LET c == Chosen(s, want)
             m == s.mon[c]
             t == Focus(s, want)
         IN /\ t.stack = [s.stack EXCEPT ![m] = <<c>> \o RemoveFirst(@, c)]
            /\ t.sel = [s.sel EXCEPT ![m] = c]
            /\ t.clients = s.clients /\ t.mon = s.mon /\ t.nmon = s.nmon
            /\ t.selmon = m /\ t.lost = s.lost
<1> DEFINE c == Chosen(s, want)
           m == s.mon[c]
           u == [s EXCEPT !.selmon = m, !.isurgent[c] = FALSE]
           d == DetachStack(u, c)
           a == AttachStack(d, c)
           v == SetFocus(a, c)
           t == [v EXCEPT !.sel[v.selmon] = c]
<1>0. c \in Client /\ Focus(s, want) = t
  BY ConstantsAssumption, ZenonT(60) DEF Focus, Chosen
<1> HIDE DEF c
<1>1. m \in Mon
  BY <1>0 DEF State
<1>2. u \in State
  BY <1>0, <1>1, ZenonT(60) DEF State
<1>3. /\ u.stack = s.stack /\ u.sel = s.sel /\ u.clients = s.clients
      /\ u.mon = s.mon /\ u.nmon = s.nmon /\ u.selmon = m /\ u.lost = s.lost
  BY <1>0 DEF State
<1> DEFINE e == NextSel(u, c)
<1>4. /\ d.stack = [s.stack EXCEPT ![m] = RemoveFirst(@, c)]
      /\ d.sel = [s.sel EXCEPT ![m] = e]
      /\ d.clients = s.clients /\ d.mon = s.mon
      /\ d.nmon = s.nmon /\ d.selmon = m /\ d.lost = s.lost
  <2>1. u.mon[c] = m
    BY <1>3
  <2>2. /\ d.stack = [u.stack EXCEPT ![u.mon[c]] = RemoveFirst(@, c)]
        /\ d.sel = [u.sel EXCEPT ![u.mon[c]] = NextSel(u, c)]
        /\ d.clients = u.clients /\ d.mon = u.mon
        /\ d.selmon = u.selmon /\ d.nmon = u.nmon /\ d.lost = u.lost
    BY <1>0, <1>2, DetachStackFields
  <2> HIDE DEF d
  <2> QED BY <1>3, <2>1, <2>2
<1>5. d \in State
  BY <1>0, <1>2, DetachStackType
<1> HIDE DEF d, e
<1>6. /\ a.stack = [d.stack EXCEPT ![m] = <<c>> \o @]
      /\ a.sel = d.sel
      /\ a.clients = s.clients /\ a.mon = s.mon
      /\ a.nmon = s.nmon /\ a.selmon = m /\ a.lost = s.lost
  <2>1. d.mon[c] = m
    BY <1>4
  <2>2. /\ a.stack = [d.stack EXCEPT ![d.mon[c]] = <<c>> \o @]
        /\ a.clients = d.clients /\ a.mon = d.mon /\ a.sel = d.sel
        /\ a.selmon = d.selmon /\ a.nmon = d.nmon /\ a.lost = d.lost
    BY <1>0, <1>5, AttachStackFields
  <2> HIDE DEF a
  <2> QED BY <1>4, <2>1, <2>2
<1>7. a \in State
  BY <1>0, <1>5, AttachStackType
<1> HIDE DEF a
<1>8. a.stack = [s.stack EXCEPT ![m] = <<c>> \o RemoveFirst(@, c)]
  <2>1. s.stack \in [Mon -> Seq(Client)]
    BY DEF State
  <2> QED BY <1>1, <1>4, <1>6, <2>1
<1>9. SameLists(a, v)
  BY <1>7, SetFocusFields
<1>10. v \in State
  BY <1>0, <1>7, SetFocusType
<1> HIDE DEF v
<1>11. /\ t.sel = [v.sel EXCEPT ![m] = c]
       /\ t.stack = v.stack /\ t.clients = v.clients /\ t.mon = v.mon
       /\ t.nmon = v.nmon /\ t.selmon = v.selmon /\ t.lost = v.lost
  BY <1>6, <1>9, <1>10 DEF State, SameLists
<1>12. t.sel = [s.sel EXCEPT ![m] = c]
  <2>1. v.sel = d.sel /\ s.sel \in [Mon -> ClientOrNull]
    BY <1>6, <1>9 DEF SameLists, State
  <2> QED BY <1>4, <1>11, <2>1
<1> HIDE DEF t, m
<1>13. /\ t.stack = [s.stack EXCEPT ![m] = <<c>> \o RemoveFirst(@, c)]
       /\ t.sel = [s.sel EXCEPT ![m] = c]
       /\ t.clients = s.clients /\ t.mon = s.mon /\ t.nmon = s.nmon
       /\ t.selmon = m /\ t.lost = s.lost
  BY <1>6, <1>8, <1>9, <1>11, <1>12 DEF SameLists
<1> QED BY <1>0, <1>13, Zenon DEF m, c

\* Reordered histories, other selections.
LEMMA RestackedInv ==
  ASSUME NEW s, ListInv(s), NEW t \in State,
         t.clients = s.clients, t.mon = s.mon, t.nmon = s.nmon,
         t.selmon <= t.nmon,
         \A m \in Mon : /\ List(t.stack[m])
                        /\ ToSet(t.stack[m]) = ToSet(s.stack[m])
                        /\ t.sel[m] \in ToSet(s.clients[m]) \cup {NULL}
  PROVE  ListInv(t)
<1>1. Linked(t)
  BY DEF ListInv, Linked
<1>2. Owned(t)
  BY DEF Owned
<1>3. Connected(t)
  BY DEF ListInv, Connected
<1> QED BY <1>1, <1>2, <1>3 DEF ListInv

\* Clients stay where they are; lists and histories may be reordered.
SamePlaces(s, t) ==
  /\ t.mon = s.mon /\ t.nmon = s.nmon /\ t.lost = s.lost
  /\ \A m \in Mon : ToSet(t.clients[m]) = ToSet(s.clients[m])

Reordered(s, t) == ListInv(t) /\ SamePlaces(s, t)

LEMMA ReorderedTwice ==
  ASSUME NEW s, NEW t, NEW u, Reordered(s, t), Reordered(t, u)
  PROVE  Reordered(s, u)
BY DEF Reordered, SamePlaces

LEMMA ReorderedIn ==
  ASSUME NEW s \in State, NEW t, Reordered(s, t), NEW c, In(s, c)
  PROVE  In(t, c)
BY DEF Reordered, SamePlaces, In, State

\* Reordering lists keeps a client in them or out of them.
LEMMA ReorderedSameIn ==
  ASSUME NEW s, ListInv(s), NEW t, Reordered(s, t)
  PROVE  \A c : In(t, c) <=> In(s, c)
BY DEF Reordered, SamePlaces, In, ListInv, State

LEMMA ReorderedSame ==
  ASSUME NEW s, ListInv(s), NEW t \in State, SameLists(s, t)
  PROVE  Reordered(s, t)
BY SameListsInv DEF Reordered, SamePlaces, SameLists

LEMMA FocusInv ==
  ASSUME NEW s, ListInv(s), NEW want, want = NULL \/ In(s, want)
  PROVE  Reordered(s, Focus(s, want))
<1> DEFINE c == Chosen(s, want)
           t == Focus(s, want)
           none == [s EXCEPT !.xfocus = NULL, !.sel[s.selmon] = NULL]
           m == s.mon[c]
<1>1. /\ s \in State /\ s.selmon \in Mon /\ s.stack[s.selmon] \in Seq(Client)
      /\ s.selmon <= s.nmon
  BY SMTT(60) DEF ListInv, State, Connected
<1>2. t \in State
  BY <1>1, FocusType DEF In, ClientOrNull
<1>3. c = NULL => t = none
  BY ZenonT(60) DEF Focus, Chosen
<1>4. c = NULL \/ In(s, c)
  <2>1. FirstVisible(s, s.stack[s.selmon]) \in ToSet(s.stack[s.selmon]) \cup {NULL}
    BY <1>1, FirstVisibleType
  <2>2. ToSet(s.stack[s.selmon]) = ToSet(s.clients[s.selmon])
    BY <1>1 DEF ListInv, Linked
  <2>3. \A d \in ToSet(s.clients[s.selmon]) : In(s, d)
    BY <1>1, InOfMonitor
  <2> QED BY <2>1, <2>2, <2>3 DEF Chosen
<1>5. ASSUME c = NULL
      PROVE  Reordered(s, none)
  <2>1. none \in State
    BY <1>2, <1>3, <1>5
  <2>2. /\ none.clients = s.clients /\ none.mon = s.mon /\ none.nmon = s.nmon
        /\ none.selmon = s.selmon /\ none.lost = s.lost
        /\ none.stack = s.stack
        /\ none.sel = [s.sel EXCEPT ![s.selmon] = NULL]
    BY <1>1 DEF State
  <2> HIDE DEF none
  <2>3. \A i \in Mon : none.sel[i] \in ToSet(s.clients[i]) \cup {NULL}
    BY <1>1, <2>2 DEF ListInv, Owned, State
  <2>4. ListInv(none)
    BY <1>1, <2>1, <2>2, <2>3, RestackedInv DEF ListInv, Linked
  <2> QED BY <2>2, <2>4 DEF Reordered, SamePlaces
<1>6. ASSUME c # NULL
      PROVE  Reordered(s, t)
  <2>1. /\ In(s, c) /\ c \in Client /\ m \in Mon /\ m <= s.nmon
        /\ c \in ToSet(s.stack[m]) /\ c \in ToSet(s.clients[m])
    BY <1>4, <1>6, InFacts DEF In
  <2>3. /\ t.stack = [s.stack EXCEPT ![m] = <<c>> \o RemoveFirst(@, c)]
        /\ t.sel = [s.sel EXCEPT ![m] = c]
        /\ t.clients = s.clients /\ t.mon = s.mon /\ t.nmon = s.nmon
        /\ t.selmon = m /\ t.lost = s.lost
    BY <1>1, <2>1, FocusFields
  <2> HIDE DEF t, m, c
  <2> DEFINE q == RemoveFirst(s.stack[m], c)
  <2>4. List(q) /\ ToSet(q) = ToSet(s.stack[m]) \ {c}
    BY <2>1, RemoveFirstList DEF ListInv, Linked
  <2> HIDE DEF q
  <2>5. List(<<c>> \o q) /\ ToSet(<<c>> \o q) = ToSet(s.stack[m])
    BY <2>1, <2>4, ConsList
  <2> DEFINE r == <<c>> \o q
  <2> HIDE DEF r
  <2>6. t.stack = [s.stack EXCEPT ![m] = r]
    BY <2>3 DEF q, r
  <2>7. \A i \in Mon : /\ List(t.stack[i])
                       /\ ToSet(t.stack[i]) = ToSet(s.stack[i])
                       /\ t.sel[i] \in ToSet(s.clients[i]) \cup {NULL}
    <3>1. s.stack \in [Mon -> Seq(Client)] /\ s.sel \in [Mon -> ClientOrNull]
      BY <1>1 DEF State
    <3>2. /\ t.stack[m] = r /\ t.sel[m] = c
          /\ \A i \in Mon \ {m} : /\ t.stack[i] = s.stack[i]
                                  /\ t.sel[i] = s.sel[i]
      BY <2>1, <2>3, <2>6, <3>1
    <3>3. /\ List(r) /\ ToSet(r) = ToSet(s.stack[m])
          /\ c \in ToSet(s.clients[m])
      BY <2>1, <2>5 DEF r
    <3> QED BY <3>2, <3>3 DEF ListInv, Linked, Owned
  <2>8. ListInv(t)
    BY <1>2, <2>1, <2>3, <2>7, RestackedInv
  <2> QED BY <2>3, <2>8 DEF Reordered, SamePlaces
<1> QED BY <1>3, <1>5, <1>6

-----------------------------------------------------------------------------
(* Arranging                                                               *)

LEMMA VarColList ==
  ASSUME NEW s, NEW m, List(s.clients[m])
  PROVE  List(VarCol(s, m)) /\ ToSet(VarCol(s, m)) = ToSet(s.clients[m])
<1> DEFINE q == s.clients[m]
<1>1. PICK left : VarCol(s, m) = Keep(q, Client \ left) \o Keep(q, left)
  BY DEF VarCol
<1> DEFINE a == Keep(q, Client \ left)
           b == Keep(q, left)
<1>2. /\ List(a) /\ ToSet(a) = ToSet(q) \cap (Client \ left)
      /\ List(b) /\ ToSet(b) = ToSet(q) \cap left
  BY KeepList
<1>3. ToSet(q) \subseteq Client
  BY ToSetOfSeq DEF List
<1> HIDE DEF a, b
<1>4. List(a \o b) /\ ToSet(a \o b) = ToSet(a) \cup ToSet(b)
  BY <1>2, ConcatList
<1> QED BY <1>1, <1>2, <1>3, <1>4 DEF a, b

LEMMA ArrangeMonInv ==
  ASSUME NEW s, ListInv(s), NEW ms
  PROVE  Reordered(s, ArrangeMon(s, ms))
<1> DEFINE t == ArrangeMon(s, ms)
<1>1. s \in State /\ t \in State
  BY ArrangeMonType DEF ListInv
<1>2. /\ t.clients = [m \in Mon |->
                        IF m \in ms /\ s.lt[m][s.sellt[m]] = "varcol"
                        THEN VarCol(s, m) ELSE s.clients[m]]
      /\ t.stack = s.stack /\ t.mon = s.mon /\ t.sel = s.sel
      /\ t.selmon = s.selmon /\ t.nmon = s.nmon /\ t.lost = s.lost
  BY <1>1 DEF ArrangeMon, State
<1> HIDE DEF t
<1>3. \A m \in Mon : /\ List(t.clients[m])
                     /\ ToSet(t.clients[m]) = ToSet(s.clients[m])
  BY <1>2, VarColList DEF ListInv, Linked
<1>4. ListInv(t)
  BY <1>1, <1>2, <1>3 DEF ListInv, Linked, Owned, Connected
<1> QED BY <1>2, <1>3, <1>4 DEF Reordered, SamePlaces, t

LEMMA ShowHideInv ==
  ASSUME NEW s, ListInv(s), NEW ms
  PROVE  Reordered(s, ShowHide(s, ms))
<1>1. s \in State /\ ShowHide(s, ms) \in State
  BY ShowHideType DEF ListInv
<1>2. SameLists(s, ShowHide(s, ms))
  BY <1>1 DEF ShowHide, SameLists, State
<1> QED BY <1>1, <1>2, ReorderedSame

LEMMA ArrangeInv ==
  ASSUME NEW s, ListInv(s), NEW m
  PROVE  Reordered(s, Arrange(s, m)) /\ Reordered(s, ArrangeAll(s))
<1>1. ASSUME NEW ms
      PROVE  Reordered(s, ArrangeMon(ShowHide(s, ms), ms))
  BY ShowHideInv, ArrangeMonInv, ReorderedTwice DEF Reordered
<1> QED BY <1>1 DEF Arrange, ArrangeAll

LEMMA RefreshInv ==
  ASSUME NEW s, ListInv(s)
  PROVE  Reordered(s, Refresh(s))
BY FocusInv, ArrangeInv, ReorderedTwice DEF Refresh, Reordered

-----------------------------------------------------------------------------
(* Unlinking and linking a client                                          *)

\* Other clients than c stay where they are.
OthersStay(s, t, c) ==
  /\ t.nmon = s.nmon /\ t.lost = s.lost
  /\ \A d \in Client \ {c} : t.mon[d] = s.mon[d]
  /\ \A m \in Mon : ToSet(t.clients[m]) \ {c} = ToSet(s.clients[m]) \ {c}

LEMMA OthersStayTwice ==
  ASSUME NEW s, NEW t, NEW u, NEW c, OthersStay(s, t, c), OthersStay(t, u, c)
  PROVE  OthersStay(s, u, c)
BY DEF OthersStay

LEMMA ReorderedStay ==
  ASSUME NEW s, NEW t, NEW c, Reordered(s, t)
  PROVE  OthersStay(s, t, c)
BY DEF Reordered, SamePlaces, OthersStay

\* detach() and detachstack(), in the order every caller uses.
Unlink(s, c) == DetachStack(Detach(s, c), c)

LEMMA UnlinkFields ==
  ASSUME NEW s \in State, NEW c \in Client
  PROVE  LET m == s.mon[c]
             t == Unlink(s, c)
         IN /\ t.clients = [s.clients EXCEPT ![m] = RemoveFirst(@, c)]
            /\ t.stack = [s.stack EXCEPT ![m] = RemoveFirst(@, c)]
            /\ t.sel = [s.sel EXCEPT ![m] = NextSel(Detach(s, c), c)]
            /\ t.mon = s.mon /\ t.selmon = s.selmon /\ t.nmon = s.nmon
            /\ t.lost = s.lost
<1> DEFINE d == Detach(s, c)
           t == DetachStack(d, c)
           m == s.mon[c]
<1>1. d \in State
  BY DetachType
<1>2. /\ d.clients = [s.clients EXCEPT ![m] = RemoveFirst(@, c)]
      /\ d.stack = s.stack /\ d.sel = s.sel /\ d.mon = s.mon
      /\ d.selmon = s.selmon /\ d.nmon = s.nmon /\ d.lost = s.lost
  BY DEF Detach, State
<1> HIDE DEF d
<1>3. /\ t.stack = [d.stack EXCEPT ![d.mon[c]] = RemoveFirst(@, c)]
      /\ t.sel = [d.sel EXCEPT ![d.mon[c]] = NextSel(d, c)]
      /\ t.clients = d.clients /\ t.mon = d.mon
      /\ t.selmon = d.selmon /\ t.nmon = d.nmon /\ t.lost = d.lost
  BY <1>1, DetachStackFields
<1> HIDE DEF t
<1>4. d.mon[c] = m
  BY <1>2
<1> HIDE DEF m
<1>5. /\ t.clients = [s.clients EXCEPT ![m] = RemoveFirst(@, c)]
      /\ t.stack = [s.stack EXCEPT ![m] = RemoveFirst(@, c)]
      /\ t.sel = [s.sel EXCEPT ![m] = NextSel(d, c)]
      /\ t.mon = s.mon /\ t.selmon = s.selmon /\ t.nmon = s.nmon
      /\ t.lost = s.lost
  BY <1>2, <1>3, <1>4
<1> QED BY <1>5, Zenon DEF Unlink, m, t, d

LEMMA UnlinkInv ==
  ASSUME NEW s, ListInv(s), NEW c, In(s, c)
  PROVE  /\ ListInv(Unlink(s, c)) /\ Out(Unlink(s, c), c)
         /\ OthersStay(s, Unlink(s, c), c)
<1> DEFINE m == s.mon[c]
           t == Unlink(s, c)
           p == RemoveFirst(s.clients[m], c)
           q == RemoveFirst(s.stack[m], c)
           e == NextSel(Detach(s, c), c)
<1>1. /\ s \in State /\ c \in Client /\ m \in Mon
      /\ c \in ToSet(s.clients[m])
      /\ s.clients \in [Mon -> Seq(Client)] /\ s.stack \in [Mon -> Seq(Client)]
      /\ s.sel \in [Mon -> ClientOrNull]
  BY InFacts DEF ListInv, In, State
<1>2. /\ t.clients = [s.clients EXCEPT ![m] = p]
      /\ t.stack = [s.stack EXCEPT ![m] = q]
      /\ t.sel = [s.sel EXCEPT ![m] = e]
      /\ t.mon = s.mon /\ t.selmon = s.selmon /\ t.nmon = s.nmon
      /\ t.lost = s.lost
  BY <1>1, UnlinkFields
<1>3. t \in State
  BY <1>1, DetachType, DetachStackType DEF Unlink
<1>4. /\ List(p) /\ ToSet(p) = ToSet(s.clients[m]) \ {c}
      /\ List(q) /\ ToSet(q) = ToSet(s.clients[m]) \ {c}
  BY <1>1, RemoveFirstList, ZenonT(60) DEF ListInv, Linked
<1>5. e \in ToSet(p) \cup {NULL}
  <2> DEFINE d == Detach(s, c)
  <2>1. d.mon = s.mon /\ d.stack = s.stack /\ d.sel = s.sel
    BY <1>1 DEF Detach, State
  <2> HIDE DEF d
  <2>2. e = IF s.sel[m] = c THEN FirstVisible(d, q) ELSE s.sel[m]
    BY <2>1 DEF NextSel, d
  <2>3. FirstVisible(d, q) \in ToSet(q) \cup {NULL}
    BY <1>4, FirstVisibleType DEF List
  <2>4. s.sel[m] \in ToSet(s.clients[m]) \cup {NULL}
    BY <1>1 DEF ListInv, Owned
  <2> QED BY <1>4, <2>2, <2>3, <2>4
<1> HIDE DEF t, p, q, e
<1>6. /\ t.clients[m] = p /\ t.stack[m] = q /\ t.sel[m] = e
      /\ \A i \in Mon \ {m} : /\ t.clients[i] = s.clients[i]
                              /\ t.stack[i] = s.stack[i]
                              /\ t.sel[i] = s.sel[i]
  BY <1>1, <1>2
<1>7. \A i \in Mon \ {m} : c \notin ToSet(s.clients[i])
  BY DEF ListInv, Linked
<1>8. Linked(t)
  <2>1. SUFFICES ASSUME NEW i \in Mon
                 PROVE  /\ List(t.clients[i]) /\ List(t.stack[i])
                        /\ ToSet(t.stack[i]) = ToSet(t.clients[i])
                        /\ \A d \in ToSet(t.clients[i]) : t.mon[d] = i
    BY DEF Linked
  <2>2. \A d \in ToSet(s.clients[i]) : s.mon[d] = i
    BY DEF ListInv, Linked
  <2>3. CASE i = m
    BY <1>2, <1>4, <1>6, <2>2, <2>3
  <2>4. CASE i # m
    <3>1. t.clients[i] = s.clients[i] /\ t.stack[i] = s.stack[i]
      BY <1>6, <2>4
    <3> QED BY <1>2, <2>2, <3>1 DEF ListInv, Linked
  <2> QED BY <2>3, <2>4
<1>9. Owned(t)
  BY <1>1, <1>4, <1>5, <1>6 DEF ListInv, Owned
<1>10. Connected(t)
  BY <1>1, <1>2, <1>4, <1>6 DEF ListInv, Connected
<1>11. Out(t, c)
  BY <1>1, <1>4, <1>6, <1>7 DEF Out
<1>12. OthersStay(s, t, c)
  BY <1>1, <1>2, <1>4, <1>6 DEF OthersStay
<1> QED BY <1>3, <1>8, <1>9, <1>10, <1>11, <1>12 DEF ListInv, t

\* An unlinked client's fields have no influence on the lists.
LEMMA OutFieldsInv ==
  ASSUME NEW s, ListInv(s), NEW c, Out(s, c), NEW t \in State,
         t.clients = s.clients, t.stack = s.stack, t.sel = s.sel,
         t.selmon = s.selmon, t.nmon = s.nmon, t.lost = s.lost,
         \A d \in Client \ {c} : t.mon[d] = s.mon[d]
  PROVE  ListInv(t) /\ Out(t, c) /\ OthersStay(s, t, c)
<1>1. \A m \in Mon : ToSet(s.clients[m]) \subseteq Client \ {c}
  BY ToSetOfSeq DEF ListInv, Linked, List, Out
<1>2. Linked(t)
  BY <1>1 DEF ListInv, Linked
<1> QED BY <1>2 DEF ListInv, Owned, Connected, Out, OthersStay

\* attachBelow() links c into the list of its monitor.
LEMMA AttachBelowFields ==
  ASSUME NEW s, ListInv(s), NEW c, Out(s, c)
  PROVE  LET t == AttachBelow(s, c)
             m == s.mon[c]
         IN /\ List(t.clients[m])
            /\ ToSet(t.clients[m]) = ToSet(s.clients[m]) \cup {c}
            /\ \A i \in Mon \ {m} : t.clients[i] = s.clients[i]
            /\ t.stack = s.stack /\ t.mon = s.mon /\ t.sel = s.sel
            /\ t.selmon = s.selmon /\ t.nmon = s.nmon /\ t.lost = s.lost
<1> DEFINE m == s.mon[c]
           q == s.clients[m]
           p == s.sel[m]
           i == IndexOf(q, p) + 1
           first == [s EXCEPT !.clients[m] = <<c>> \o q]
           below == [s EXCEPT !.clients[m] = InsertAt(q, i, c)]
<1>1. /\ s \in State /\ c \in Client /\ m \in Mon /\ q \in Seq(Client)
      /\ s.clients \in [Mon -> Seq(Client)] /\ List(q) /\ c \notin ToSet(q)
  BY SMTT(60) DEF ListInv, Linked, Out, State
<1>2. i \in 1 .. Len(q) + 1
  BY <1>1, IndexOfRange, LenProperties
<1>3. /\ List(<<c>> \o q) /\ ToSet(<<c>> \o q) = ToSet(q) \cup {c}
      /\ List(InsertAt(q, i, c)) /\ ToSet(InsertAt(q, i, c)) = ToSet(q) \cup {c}
  <2> HIDE DEF q, i
  <2>1. List(<<c>> \o q) /\ ToSet(<<c>> \o q) = ToSet(q) \cup {c}
    BY <1>1, ConsList
  <2>2. /\ List(InsertAt(q, i, c))
        /\ ToSet(InsertAt(q, i, c)) = ToSet(q) \cup {c}
    BY <1>1, <1>2, InsertAtList
  <2> QED BY <2>1, <2>2
<1>4. AttachBelow(s, c) = first \/ AttachBelow(s, c) = below
  BY DEF AttachBelow, Attach
<1> DEFINE Good(t) ==
        /\ List(t.clients[m]) /\ ToSet(t.clients[m]) = ToSet(s.clients[m]) \cup {c}
        /\ \A j \in Mon \ {m} : t.clients[j] = s.clients[j]
        /\ t.stack = s.stack /\ t.mon = s.mon /\ t.sel = s.sel
        /\ t.selmon = s.selmon /\ t.nmon = s.nmon /\ t.lost = s.lost
<1>5. ASSUME NEW r, List(r), ToSet(r) = ToSet(q) \cup {c}
      PROVE  Good([s EXCEPT !.clients[m] = r])
  <2> DEFINE t == [s EXCEPT !.clients[m] = r]
  <2>1. /\ t.clients = [s.clients EXCEPT ![m] = r]
        /\ t.stack = s.stack /\ t.mon = s.mon /\ t.sel = s.sel
        /\ t.selmon = s.selmon /\ t.nmon = s.nmon /\ t.lost = s.lost
    BY <1>1 DEF State
  <2> HIDE DEF t
  <2>2. t.clients[m] = r /\ \A j \in Mon \ {m} : t.clients[j] = s.clients[j]
    BY <1>1, <2>1
  <2>3. Good(t)
    BY <1>5, <2>1, <2>2
  <2> QED BY <2>3 DEF t
<1> HIDE DEF Good
<1>6. Good(first) /\ Good(below)
  BY <1>3, <1>5
<1>7. Good(AttachBelow(s, c))
  BY <1>4, <1>6
<1> QED BY <1>7, Zenon DEF Good

\* attachBelow() and attachstack() put an unlinked client into both lists.
Link(s, c) == AttachStack(AttachBelow(s, c), c)

LEMMA LinkInv ==
  ASSUME NEW s, ListInv(s), NEW c, Out(s, c), s.mon[c] <= s.nmon
  PROVE  /\ ListInv(Link(s, c)) /\ In(Link(s, c), c)
         /\ OthersStay(s, Link(s, c), c)
         /\ Link(s, c).mon = s.mon /\ Link(s, c).sel = s.sel
         /\ Link(s, c).selmon = s.selmon
<1> DEFINE m == s.mon[c]
           b == AttachBelow(s, c)
           t == AttachStack(b, c)
           q == <<c>> \o s.stack[m]
<1>1. /\ s \in State /\ c \in Client /\ m \in Mon
      /\ s.stack \in [Mon -> Seq(Client)]
      /\ c \notin ToSet(s.clients[m])
  BY DEF ListInv, Out, State
<1>2. /\ List(b.clients[m]) /\ ToSet(b.clients[m]) = ToSet(s.clients[m]) \cup {c}
      /\ \A i \in Mon \ {m} : b.clients[i] = s.clients[i]
      /\ b.stack = s.stack /\ b.mon = s.mon /\ b.sel = s.sel
      /\ b.selmon = s.selmon /\ b.nmon = s.nmon /\ b.lost = s.lost
  BY AttachBelowFields
<1>3. b \in State /\ t \in State
  BY <1>1, AttachBelowType, AttachStackType
<1> HIDE DEF b
<1>4. /\ t.stack = [b.stack EXCEPT ![b.mon[c]] = <<c>> \o @]
      /\ t.clients = b.clients /\ t.mon = b.mon /\ t.sel = b.sel
      /\ t.selmon = b.selmon /\ t.nmon = b.nmon /\ t.lost = b.lost
  BY <1>1, <1>3, AttachStackFields
<1> HIDE DEF t
<1>5. List(q) /\ ToSet(q) = ToSet(s.clients[m]) \cup {c}
  BY <1>1, ConsList DEF ListInv, Linked
<1>6. t.stack = [s.stack EXCEPT ![m] = q]
  BY <1>2, <1>4
<1> HIDE DEF q
<1>7. /\ t.stack[m] = q
      /\ \A i \in Mon \ {m} : t.stack[i] = s.stack[i]
  BY <1>1, <1>6
<1>8. /\ List(t.clients[m]) /\ ToSet(t.clients[m]) = ToSet(s.clients[m]) \cup {c}
      /\ \A i \in Mon \ {m} : t.clients[i] = s.clients[i]
      /\ t.mon = s.mon /\ t.sel = s.sel
      /\ t.selmon = s.selmon /\ t.nmon = s.nmon /\ t.lost = s.lost
  BY <1>2, <1>4
<1>9. Linked(t)
  <2>1. t.mon[c] = m
    BY <1>8
  <2>2. SUFFICES ASSUME NEW i \in Mon
                 PROVE  /\ List(t.clients[i]) /\ List(t.stack[i])
                        /\ ToSet(t.stack[i]) = ToSet(t.clients[i])
                        /\ \A d \in ToSet(t.clients[i]) : t.mon[d] = i
    BY DEF Linked
  <2>3. \A d \in ToSet(s.clients[i]) : s.mon[d] = i
    BY DEF ListInv, Linked
  <2>4. CASE i = m
    BY <1>5, <1>7, <1>8, <2>1, <2>3, <2>4
  <2>5. CASE i # m
    <3>1. t.clients[i] = s.clients[i] /\ t.stack[i] = s.stack[i]
      BY <1>7, <1>8, <2>5
    <3> QED BY <1>8, <2>3, <3>1 DEF ListInv, Linked
  <2> QED BY <2>4, <2>5
<1>10. Owned(t)
  BY <1>1, <1>8 DEF ListInv, Owned
<1>11. Connected(t)
  <2>1. m \in Int /\ s.nmon \in Int /\ s.mon[c] <= s.nmon
    BY <1>1, StateFields, ConstantsAssumption DEF Mon
  <2>2. \A i \in Mon : s.nmon < i => i # m
    BY <2>1 DEF Mon
  <2> QED BY <1>1, <1>8, <2>2 DEF ListInv, Connected
<1>12. In(t, c)
  <2>1. t.mon[c] = m
    BY <1>8
  <2> QED BY <1>1, <1>8, <2>1 DEF In
<1>13. OthersStay(s, t, c)
  BY <1>1, <1>8 DEF OthersStay
<1> QED BY <1>3, <1>8, <1>9, <1>10, <1>11, <1>12, <1>13
        DEF ListInv, Link, t, b

-----------------------------------------------------------------------------
(* Visibility                                                              *)

\* s and t agree on what decides which clients are visible.
SameView(s, t) ==
  /\ t.tags = s.tags /\ t.tagset = s.tagset
  /\ t.seltags = s.seltags /\ t.mon = s.mon

LEMMA SameVisible ==
  ASSUME NEW s, NEW t, SameView(s, t)
  PROVE  /\ \A c : Visible(t, c) = Visible(s, c)
         /\ \A m : ViewOf(t, m) = ViewOf(s, m)
         /\ \A q : FirstVisible(t, q) = FirstVisible(s, q)
<1>1. \A c : Visible(t, c) = Visible(s, c)
  BY DEF SameView, Visible, ViewOf
<1>2. ASSUME NEW q
      PROVE  FirstVisible(t, q) = FirstVisible(s, q)
  <2> DEFINE I(r) == {i \in 1 .. Len(q) : Visible(r, q[i])}
  <2>1. \A r : FirstVisible(r, q) = At(q, IF I(r) # {} THEN Min(I(r)) ELSE 0)
    BY DEF FirstVisible, SelectInSeq
  <2>2. I(t) = I(s)
    BY <1>1
  <2> QED BY <2>1, <2>2
<1> QED BY <1>1, <1>2 DEF SameView, ViewOf

LEMMA FirstVisibleIsVisible ==
  ASSUME NEW s, NEW q \in Seq(Client), FirstVisible(s, q) # NULL
  PROVE  Visible(s, FirstVisible(s, q))
<1> DEFINE I == {i \in 1 .. Len(q) : Visible(s, q[i])}
<1>1. FirstVisible(s, q) = At(q, IF I # {} THEN Min(I) ELSE 0)
  BY DEF FirstVisible, SelectInSeq
<1>2. I \in SUBSET Nat
  BY LenProperties
<1>3. I # {} => Min(I) \in I
  BY <1>2, MinNat
<1> QED BY <1>1, <1>3 DEF At

\* A visible client in front of a history is the first visible one of it.
LEMMA FirstVisibleFront ==
  ASSUME NEW s, NEW q \in Seq(Client), NEW c \in Client, Visible(s, c)
  PROVE  FirstVisible(s, <<c>> \o q) = c
<1> DEFINE r == <<c>> \o q
           I == {i \in 1 .. Len(r) : Visible(s, r[i])}
<1>1. FirstVisible(s, r) = At(r, IF I # {} THEN Min(I) ELSE 0)
  BY DEF FirstVisible, SelectInSeq
<1>2. Len(r) \in Nat /\ 1 <= Len(r) /\ r[1] = c
  BY LenProperties, ConcatProperties
<1> HIDE DEF r
<1>3. 1 \in I /\ I \in SUBSET Nat
  BY <1>2
<1>4. Min(I) \in I /\ Min(I) <= 1
  BY <1>3, MinNat
<1>5. Min(I) = 1
  BY <1>2, <1>4
<1>6. FirstVisible(s, r) = c
  <2> HIDE DEF I
  <2> QED BY <1>1, <1>2, <1>3, <1>5 DEF At
<1> QED BY <1>6 DEF r

-----------------------------------------------------------------------------
(* What the shared helpers leave alone                                     *)

\* The helpers that link clients and move the focus write none of these.
Untouched(s, t) ==
  /\ t.tags = s.tags /\ t.tagset = s.tagset /\ t.seltags = s.seltags
  /\ t.isfloating = s.isfloating /\ t.isfullscreen = s.isfullscreen
  /\ t.oldstate = s.oldstate /\ t.shown = s.shown

LEMMA UntouchedTwice ==
  ASSUME NEW s, NEW t, NEW u, Untouched(s, t), Untouched(t, u)
  PROVE  Untouched(s, u)
BY DEF Untouched

LEMMA LinksUntouched ==
  ASSUME NEW s \in State, NEW c \in Client
  PROVE  /\ Untouched(s, Attach(s, c)) /\ Untouched(s, AttachBelow(s, c))
         /\ Untouched(s, AttachStack(s, c)) /\ Untouched(s, Detach(s, c))
         /\ Untouched(s, DetachStack(s, c))
<1>1. {"tags", "tagset", "seltags", "isfloating", "isfullscreen", "oldstate",
       "shown"} \subseteq DOMAIN s
  BY StateDomain
<1>2. Untouched(s, Attach(s, c)) /\ Untouched(s, Detach(s, c))
  BY <1>1, ZenonT(60) DEF Untouched, Attach, Detach
<1>3. Untouched(s, AttachStack(s, c)) /\ Untouched(s, DetachStack(s, c))
  BY <1>1, ZenonT(60) DEF Untouched, AttachStack, DetachStack
<1>4. \A m, q : Untouched(s, [s EXCEPT !.clients[m] = q])
  BY <1>1, ZenonT(60) DEF Untouched
<1>5. Untouched(s, AttachBelow(s, c))
  BY <1>2, <1>4 DEF AttachBelow
<1> QED BY <1>2, <1>3, <1>5

\* Arranging writes shown and the order of the clients only.
LEMMA ArrangeFields ==
  ASSUME NEW s \in State, NEW ms
  PROVE  LET t == ArrangeMon(ShowHide(s, ms), ms)
         IN /\ t.tags = s.tags /\ t.tagset = s.tagset
            /\ t.seltags = s.seltags
            /\ t.isfloating = s.isfloating
            /\ t.isfullscreen = s.isfullscreen /\ t.oldstate = s.oldstate
            /\ t.stack = s.stack /\ t.sel = s.sel /\ t.selmon = s.selmon
            /\ t.mon = s.mon /\ t.nmon = s.nmon /\ t.lost = s.lost
            /\ t.isurgent = s.isurgent
            /\ t.shown = [c \in Client |->
                            IF \E m \in ms : Contains(s.stack[m], c)
                            THEN Visible(s, c) ELSE s.shown[c]]
<1> DEFINE Fields == {"tags", "tagset", "seltags", "isfloating",
                      "isfullscreen", "oldstate", "shown", "stack", "sel",
                      "selmon", "mon", "nmon", "lost", "isurgent", "clients"}
           h == ShowHide(s, ms)
           t == ArrangeMon(h, ms)
           shown == [c \in Client |->
                       IF \E m \in ms : Contains(s.stack[m], c)
                       THEN Visible(s, c) ELSE s.shown[c]]
<1>1. h \in State /\ Fields \subseteq DOMAIN s /\ Fields \subseteq DOMAIN h
  BY ShowHideType, StateDomain
<1>2. h = [s EXCEPT !.shown = shown]
  BY DEF ShowHide
<1> HIDE DEF shown, h
<1>3. /\ h.shown = shown
      /\ \A f \in Fields \ {"shown"} : h[f] = s[f]
  BY <1>1, <1>2
<1>4. \A f \in Fields \ {"clients"} : t[f] = h[f]
  BY <1>1, ZenonT(60) DEF ArrangeMon
<1> HIDE DEF t
<1>5. /\ t.shown = shown
      /\ \A f \in Fields \ {"shown", "clients"} : t[f] = s[f]
  BY <1>3, <1>4
<1> QED BY <1>5 DEF t, h, shown

LEMMA FocusLeaves ==
  ASSUME NEW s \in State, NEW want \in ClientOrNull
  PROVE  /\ Untouched(s, Focus(s, want)) /\ Focus(s, want).mon = s.mon
         /\ Focus(s, want).nmon = s.nmon /\ Focus(s, want).lost = s.lost
         /\ Focus(s, want).clients = s.clients
<1> DEFINE Fields == {"tags", "tagset", "seltags", "isfloating",
                      "isfullscreen", "oldstate", "shown", "mon", "nmon", "lost",
                      "clients"}
           c == Chosen(s, want)
           none == [s EXCEPT !.xfocus = NULL, !.sel[s.selmon] = NULL]
           u == [s EXCEPT !.selmon = s.mon[c], !.isurgent[c] = FALSE]
           d == DetachStack(u, c)
           a == AttachStack(d, c)
           v == SetFocus(a, c)
           t == [v EXCEPT !.sel[v.selmon] = c]
<1>1. Focus(s, want) = IF c = NULL THEN none ELSE t
  BY ZenonT(60) DEF Focus, Chosen
<1>2. c \in ClientOrNull
  <2>1. s.stack[s.selmon] \in Seq(Client)
    BY DEF State
  <2> QED BY <2>1, FirstVisibleType, ToSetOfSeq DEF Chosen, ClientOrNull
<1> HIDE DEF c
<1>3. Fields \subseteq DOMAIN s
  BY StateDomain
<1>4. \A f \in Fields : none[f] = s[f]
  BY <1>3, ZenonT(60)
<1>5. ASSUME c # NULL
      PROVE  \A f \in Fields : t[f] = s[f]
  <2>1. c \in Client /\ s.mon[c] \in Mon
    BY <1>2, <1>5 DEF ClientOrNull, State
  <2>2. u \in State /\ \A f \in Fields : u[f] = s[f]
    <3>1. u \in State
      BY <2>1, ZenonT(60) DEF State
    <3> QED BY <1>3, <3>1, ZenonT(60)
  <2> HIDE DEF u
  <2>3. d \in State /\ \A f \in Fields : d[f] = u[f]
    <3>1. d \in State
      BY <2>1, <2>2, DetachStackType
    <3>2. Fields \subseteq DOMAIN u
      BY <2>2, StateDomain
    <3> QED BY <3>1, <3>2, ZenonT(60) DEF DetachStack
  <2> HIDE DEF d
  <2>4. a \in State /\ \A f \in Fields : a[f] = d[f]
    <3>1. a \in State
      BY <2>1, <2>3, AttachStackType
    <3>2. Fields \subseteq DOMAIN d
      BY <2>3, StateDomain
    <3> QED BY <3>1, <3>2, ZenonT(60) DEF AttachStack
  <2> HIDE DEF a
  <2>5. v \in State /\ \A f \in Fields : v[f] = a[f]
    <3>1. v \in State
      BY <2>1, <2>4, SetFocusType
    <3>2. Fields \subseteq DOMAIN a
      BY <2>4, StateDomain
    <3> QED BY <3>1, <3>2, ZenonT(60) DEF SetFocus
  <2> HIDE DEF v
  <2>6. Fields \subseteq DOMAIN v
    BY <2>5, StateDomain
  <2>7. \A f \in Fields : t[f] = v[f]
    BY <2>6, ZenonT(60)
  <2> HIDE DEF t, Fields
  <2> QED BY <2>2, <2>3, <2>4, <2>5, <2>7
<1> HIDE DEF none, t
<1>6. \A f \in Fields : Focus(s, want)[f] = s[f]
  BY <1>1, <1>4, <1>5
<1> QED BY <1>6 DEF Untouched

-----------------------------------------------------------------------------
(* The selection                                                           *)

\* The selected client is on top of what is in view, and not urgent.
Settled(s) ==
  LET c == s.sel[s.selmon]
  IN /\ s \in State
     /\ c = FirstVisible(s, s.stack[s.selmon])
     /\ c # NULL => ~s.isurgent[c]

LEMMA FocusUrgency ==
  ASSUME NEW s \in State, NEW want, Chosen(s, want) \in Client
  PROVE  ~Focus(s, want).isurgent[Chosen(s, want)]
<1> DEFINE c == Chosen(s, want)
           u == [s EXCEPT !.selmon = s.mon[c], !.isurgent[c] = FALSE]
           d == DetachStack(u, c)
           a == AttachStack(d, c)
           v == SetFocus(a, c)
           t == [v EXCEPT !.sel[v.selmon] = c]
<1>0. c \in Client /\ Focus(s, want) = t
  BY ConstantsAssumption, ZenonT(60) DEF Focus, Chosen
<1> HIDE DEF c
<1>1. s.mon[c] \in Mon /\ s.isurgent \in [Client -> BOOLEAN]
  BY <1>0 DEF State
<1>2. u \in State
  BY <1>0, <1>1, ZenonT(60) DEF State
<1>3. ~u.isurgent[c]
  BY <1>0, <1>1, StateDomain
<1> HIDE DEF u
<1>4. d \in State /\ d.isurgent = u.isurgent
  <2>1. d \in State
    BY <1>0, <1>2, DetachStackType
  <2>2. "isurgent" \in DOMAIN u
    BY <1>2, StateDomain
  <2>3. d.isurgent = u.isurgent
    BY <2>2, ZenonT(60) DEF DetachStack
  <2> QED BY <2>1, <2>3
<1> HIDE DEF d
<1>5. a \in State /\ a.isurgent = d.isurgent
  <2>1. a \in State
    BY <1>0, <1>4, AttachStackType
  <2>2. "isurgent" \in DOMAIN d
    BY <1>4, StateDomain
  <2>3. a.isurgent = d.isurgent
    BY <2>2, ZenonT(60) DEF AttachStack
  <2> QED BY <2>1, <2>3
<1> HIDE DEF a
<1>6. v \in State /\ v.isurgent = a.isurgent
  <2>1. v \in State
    BY <1>0, <1>5, SetFocusType
  <2>2. "isurgent" \in DOMAIN a
    BY <1>5, StateDomain
  <2>3. v.isurgent = a.isurgent
    BY <2>2, ZenonT(60) DEF SetFocus
  <2> QED BY <2>1, <2>3
<1> HIDE DEF v
<1>7. t.isurgent = v.isurgent
  BY <1>6, StateDomain, ZenonT(60)
<1> HIDE DEF t
<1> QED BY <1>0, <1>3, <1>4, <1>5, <1>6, <1>7 DEF c

\* focus() settles the selection, whatever it is asked for.
LEMMA FocusSettles ==
  ASSUME NEW s \in State, NEW want \in ClientOrNull
  PROVE  Settled(Focus(s, want))
<1> DEFINE c == Chosen(s, want)
           none == [s EXCEPT !.xfocus = NULL, !.sel[s.selmon] = NULL]
           m == s.mon[c]
           t == Focus(s, want)
<1>1. t \in State /\ s.selmon \in Mon /\ s.stack[s.selmon] \in Seq(Client)
  BY FocusType DEF State
<1>2. SameView(s, t)
  BY FocusLeaves DEF Untouched, SameView
<1>3. FirstVisible(s, s.stack[s.selmon]) \in Client \cup {NULL}
  BY <1>1, FirstVisibleType, ToSetOfSeq
<1>4. CASE c = NULL
  <2>1. t = none
    BY <1>4, ZenonT(60) DEF Focus, Chosen
  <2>2. t.sel[t.selmon] = NULL /\ t.stack = s.stack /\ t.selmon = s.selmon
    BY <1>1, <2>1 DEF State
  <2>3. want = NULL \/ want \in Client
    BY DEF ClientOrNull
  <2>4. FirstVisible(s, s.stack[s.selmon]) = NULL
    BY <1>4, <2>3 DEF Chosen
  <2>5. FirstVisible(t, t.stack[t.selmon]) = NULL
    BY <1>2, <2>2, <2>4, SameVisible
  <2> QED BY <1>1, <2>2, <2>5 DEF Settled
<1>5. CASE c # NULL
  <2>1. c \in Client
    BY <1>3, <1>5 DEF Chosen, ClientOrNull
  <2>2. m \in Mon /\ s.stack \in [Mon -> Seq(Client)]
        /\ s.sel \in [Mon -> ClientOrNull]
    BY <2>1 DEF State
  <2>3. /\ t.stack = [s.stack EXCEPT ![m] = <<c>> \o RemoveFirst(@, c)]
        /\ t.sel = [s.sel EXCEPT ![m] = c] /\ t.selmon = m
    BY <2>1, FocusFields
  <2>4. Visible(s, c)
    <3>1. ASSUME c = FirstVisible(s, s.stack[s.selmon])
          PROVE  Visible(s, c)
      BY <1>1, <1>5, <3>1, FirstVisibleIsVisible
    <3> QED BY <3>1 DEF Chosen
  <2>5. ~t.isurgent[c]
    BY <2>1, FocusUrgency
  <2>6. RemoveFirst(s.stack[m], c) \in Seq(Client)
    BY <2>1, <2>2, RemoveFirstType
  <2> HIDE DEF c, t, m
  <2>7. t.sel[t.selmon] = c
    BY <2>2, <2>3
  <2>8. t.stack[t.selmon] = <<c>> \o RemoveFirst(s.stack[m], c)
    BY <2>2, <2>3
  <2>9. FirstVisible(t, t.stack[t.selmon]) = c
    BY <1>2, <2>1, <2>4, <2>6, <2>8, SameVisible, FirstVisibleFront
  <2> QED BY <1>1, <2>5, <2>7, <2>9 DEF Settled, t
<1> QED BY <1>4, <1>5 DEF t

\* What does not touch selection, history, visibility or urgency keeps it.
LEMMA SettledKept ==
  ASSUME NEW s, Settled(s), NEW t \in State, SameView(s, t),
         t.sel = s.sel, t.selmon = s.selmon, t.stack = s.stack,
         t.isurgent = s.isurgent
  PROVE  Settled(t)
BY SameVisible DEF Settled

LEMMA ArrangeSettled ==
  ASSUME NEW s, Settled(s), NEW m
  PROVE  Settled(Arrange(s, m)) /\ Settled(ArrangeAll(s))
<1>1. ASSUME NEW ms
      PROVE  Settled(ArrangeMon(ShowHide(s, ms), ms))
  <2> DEFINE t == ArrangeMon(ShowHide(s, ms), ms)
  <2>1. s \in State
    BY DEF Settled
  <2>2. t \in State
    BY <2>1, ShowHideType, ArrangeMonType
  <2>3. /\ SameView(s, t) /\ t.sel = s.sel /\ t.selmon = s.selmon
        /\ t.stack = s.stack /\ t.isurgent = s.isurgent
    BY <2>1, ArrangeFields DEF SameView
  <2> HIDE DEF t
  <2> QED BY <2>2, <2>3, SettledKept DEF t
<1> QED BY <1>1 DEF Arrange, ArrangeAll

LEMMA RefreshSettles ==
  ASSUME NEW s \in State
  PROVE  /\ Settled(Refresh(s))
         /\ Settled(Focus(s, NULL))
         /\ \A m : Settled(Arrange(Focus(s, NULL), m))
         /\ \A c \in Client : /\ Settled(Focus(s, c))
                              /\ \A m : Settled(Arrange(Focus(s, c), m))
<1>1. \A c \in ClientOrNull :
        Settled(Focus(s, c)) /\ \A m : Settled(Arrange(Focus(s, c), m))
  BY FocusSettles, ArrangeSettled
<1> QED BY <1>1 DEF Refresh, ClientOrNull

-----------------------------------------------------------------------------
(* Fields that say nothing about the lists                                 *)

LEMMA ReorderedSelf ==
  ASSUME NEW s, ListInv(s)
  PROVE  Reordered(s, s)
BY DEF Reordered, SamePlaces

\* A change of other fields, then the usual tail of a command.
LEMMA SameRefreshInv ==
  ASSUME NEW s, ListInv(s), NEW t \in State, SameLists(s, t)
  PROVE  /\ Reordered(s, t)
         /\ Reordered(s, Refresh(t))
         /\ \A m : Reordered(s, Arrange(t, m))
<1>1. Reordered(s, t)
  BY ReorderedSame
<1> QED BY <1>1, RefreshInv, ArrangeInv, ReorderedTwice DEF Reordered

\* The selected client of the selected monitor.
LEMMA SelmonFacts ==
  ASSUME NEW s, ListInv(s)
  PROVE  LET m == s.selmon
             c == s.sel[m]
         IN /\ s \in State /\ m \in Mon /\ m <= s.nmon /\ List(s.clients[m])
            /\ c # NULL => /\ In(s, c) /\ c \in Client /\ s.mon[c] = m
                           /\ c \in ToSet(s.clients[m])
<1> DEFINE m == s.selmon
           c == s.sel[m]
<1>1. s \in State /\ m \in Mon /\ m <= s.nmon /\ List(s.clients[m])
  BY StateFields DEF ListInv, Linked, Connected
<1>2. ASSUME c # NULL
      PROVE  In(s, c) /\ c \in Client /\ s.mon[c] = m /\ c \in ToSet(s.clients[m])
  BY <1>1, <1>2, SelIn, InFacts DEF ListInv, Owned
<1> QED BY <1>1, <1>2

-----------------------------------------------------------------------------
(* Views and tags                                                          *)

LEMMA ViewInv ==
  ASSUME NEW s, ListInv(s), NEW ui \in SUBSET Tag
  PROVE  Reordered(s, View(s, ui)) /\ Reordered(s, ToggleView(s, ui))
<1> DEFINE m == s.selmon
           k == s.seltags[m]
           l == 1 - k
           new == IF ui = {} THEN s.tagset[m][l] ELSE ui
           sym == SymDiff(ViewOf(s, m), ui)
           t == [s EXCEPT !.seltags[m] = l, !.tagset[m][l] = new]
           u == [s EXCEPT !.tagset[m][k] = sym]
<1>1. /\ s \in State /\ m \in Mon /\ k \in Slot /\ l \in Slot
      /\ sym \in SUBSET Tag
  BY StateFields, SymDiffType DEF ListInv
<1>2. new \in SUBSET Tag
  BY <1>1 DEF State
<1> HIDE DEF m, k, l, new, sym
<1>3. t \in State /\ u \in State
  BY <1>1, <1>2, SetViewType
<1>4. SameLists(s, t) /\ SameLists(s, u)
  BY <1>1 DEF SameLists, State
<1>5. Reordered(s, Refresh(t)) /\ Reordered(s, Refresh(u))
  BY <1>3, <1>4, SameRefreshInv
<1>6. View(s, ui) = s \/ View(s, ui) = Refresh(t)
  BY DEF View, m, k, l, new
<1>7. ToggleView(s, ui) = s \/ ToggleView(s, ui) = Refresh(u)
  BY DEF ToggleView, m, k, sym
<1> QED BY <1>5, <1>6, <1>7, ReorderedSelf

\* pop(), and whatever else puts a client of a list elsewhere in it.
LEMMA RelistInv ==
  ASSUME NEW s, ListInv(s), NEW t \in State,
         t.stack = s.stack, t.sel = s.sel, t.mon = s.mon,
         t.selmon = s.selmon, t.nmon = s.nmon, t.lost = s.lost,
         \A m \in Mon : /\ List(t.clients[m])
                        /\ ToSet(t.clients[m]) = ToSet(s.clients[m])
  PROVE  Reordered(s, t)
<1>1. Linked(t)
  BY DEF ListInv, Linked
<1> QED BY <1>1 DEF Reordered, SamePlaces, ListInv, Owned, Connected

LEMMA ToFrontInv ==
  ASSUME NEW s, ListInv(s), NEW c, In(s, c)
  PROVE  Reordered(s, Attach(Detach(s, c), c))
<1> DEFINE d == Detach(s, c)
           t == Attach(d, c)
           m == s.mon[c]
           p == RemoveFirst(s.clients[m], c)
           q == <<c>> \o p
<1>1. /\ s \in State /\ c \in Client /\ m \in Mon
      /\ c \in ToSet(s.clients[m]) /\ List(s.clients[m])
      /\ s.clients \in [Mon -> Seq(Client)]
  BY InFacts DEF ListInv, In, State, Linked
<1>2. d \in State /\ t \in State
  BY <1>1, DetachType, AttachType
<1>3. /\ d.clients = [s.clients EXCEPT ![m] = p]
      /\ d.stack = s.stack /\ d.sel = s.sel /\ d.mon = s.mon
      /\ d.selmon = s.selmon /\ d.nmon = s.nmon /\ d.lost = s.lost
  BY <1>1 DEF Detach, State
<1>4. List(p) /\ ToSet(p) = ToSet(s.clients[m]) \ {c}
  BY <1>1, RemoveFirstList
<1> HIDE DEF d, p
<1>5. /\ t.clients = [d.clients EXCEPT ![d.mon[c]] = <<c>> \o @]
      /\ t.stack = d.stack /\ t.sel = d.sel /\ t.mon = d.mon
      /\ t.selmon = d.selmon /\ t.nmon = d.nmon /\ t.lost = d.lost
  BY <1>1, <1>2 DEF Attach, State
<1>6. List(q) /\ ToSet(q) = ToSet(s.clients[m])
  <2>1. List(q) /\ ToSet(q) = ToSet(p) \cup {c}
    BY <1>1, <1>4, ConsList
  <2> HIDE DEF q
  <2> QED BY <1>1, <1>4, <2>1
<1>7. d.mon[c] = m /\ d.clients[m] = p
  BY <1>1, <1>3
<1> HIDE DEF t, q
<1>8. t.clients[m] = q /\ \A i \in Mon \ {m} : t.clients[i] = s.clients[i]
  BY <1>1, <1>3, <1>5, <1>7 DEF q
<1>9. \A i \in Mon : /\ List(t.clients[i])
                     /\ ToSet(t.clients[i]) = ToSet(s.clients[i])
  BY <1>6, <1>8 DEF ListInv, Linked
<1> QED BY <1>2, <1>3, <1>5, <1>9, RelistInv DEF t, d

LEMMA PopInv ==
  ASSUME NEW s, ListInv(s), NEW c, In(s, c)
  PROVE  Reordered(s, Pop(s, c))
<1> DEFINE a == Attach(Detach(s, c), c)
           f == Focus(a, c)
<1>1. Reordered(s, a)
  BY ToFrontInv
<1> HIDE DEF a
<1>2. ListInv(a) /\ In(a, c)
  BY <1>1, ReorderedIn DEF Reordered, ListInv
<1>3. Reordered(a, f)
  BY <1>2, FocusInv
<1> HIDE DEF f
<1>4. Reordered(f, Arrange(f, f.mon[c]))
  BY <1>3, ArrangeInv DEF Reordered
<1>5. Pop(s, c) = Arrange(f, f.mon[c])
  BY DEF Pop, f, a
<1> QED BY <1>1, <1>3, <1>4, <1>5, ReorderedTwice

LEMMA SelectTagLists ==
  ASSUME NEW s \in State, NEW t \in Tag
  PROVE  SameLists(s, SelectTag(s, t))
<1> DEFINE m == s.selmon
           k == 1 - s.seltags[m]
           again == s.createtag[m][s.seltags[m]] = t
           view == {t} \cup (IF again THEN {} ELSE s.remtagset[m][t])
           zoomed == IF again THEN s.zoomed[m][k] ELSE s.remzoomed[m][t]
<1> HIDE DEF m, k, view, zoomed
<1>1. SameLists(s, [s EXCEPT !.seltags[m] = k, !.combo = TRUE,
                             !.tagset[m][k] = view, !.zoomed[m][k] = zoomed,
                             !.createtag[m][k] = t])
  BY DEF SameLists, State
<1> QED BY <1>1 DEF SelectTag, m, k, view, zoomed

LEMMA ComboViewInv ==
  ASSUME NEW s, ListInv(s), NEW t \in Tag
  PROVE  Reordered(s, ComboView(s, t))
<1> DEFINE m == s.selmon
           k == s.seltags[m]
           r == RememberTag(s)
           selected == SelectTag(r, t)
           zoomed == selected.zoomed[m][selected.seltags[m]]
           view == r.tagset[m][k] \cup {t}
           added == [r EXCEPT !.tagset[m][k] = view]
<1>1. s \in State /\ m \in Mon /\ k \in Slot
  BY StateFields DEF ListInv
<1>2. r \in State /\ selected \in State
  BY <1>1, RememberTagType, SelectTagType
<1>3. SameLists(s, r)
  BY <1>1 DEF SameLists, RememberTag, State
<1>4. SameLists(r, selected)
  BY <1>2, SelectTagLists
<1> HIDE DEF r, selected, m, k
<1>5. view \in SUBSET Tag
  <2>1. r.tagset \in [Mon -> [Slot -> SUBSET Tag]]
    BY <1>2, SMTT(60) DEF State
  <2>2. r.tagset[m][k] \in SUBSET Tag
    BY <1>1, <2>1
  <2> QED BY <2>2
<1> HIDE DEF view
<1>6. added \in State
  BY <1>1, <1>2, <1>5, SetViewType
<1>7. SameLists(s, added)
  BY <1>2, <1>3 DEF SameLists, State
<1> HIDE DEF added
<1>8. SameLists(s, selected)
  BY <1>3, <1>4 DEF SameLists
<1>9. ListInv(selected) /\ Reordered(s, selected)
  BY <1>2, <1>8, SameRefreshInv DEF Reordered
<1>10. Reordered(s, Refresh(added)) /\ Reordered(s, Refresh(selected))
  BY <1>2, <1>6, <1>7, <1>8, SameRefreshInv
<1>11. ASSUME Contains(s.clients[m], zoomed)
       PROVE  Reordered(s, Refresh(Pop(selected, zoomed)))
  <2>1. zoomed \in ToSet(s.clients[m])
    BY <1>1, <1>11, LenProperties DEF Contains, ToSet, State
  <2>2. In(s, zoomed)
    BY <1>1, <2>1, InOfMonitor
  <2>3. In(selected, zoomed)
    BY <1>1, <1>9, <2>2, ReorderedIn
  <2> HIDE DEF zoomed
  <2>4. Reordered(s, Pop(selected, zoomed))
    BY <1>9, <2>3, PopInv, ReorderedTwice
  <2> QED BY <2>4, RefreshInv, ReorderedTwice DEF Reordered
<1>12. \/ ComboView(s, t) = Refresh(added)
       \/ ComboView(s, t) = Refresh(selected)
       \/ /\ Contains(s.clients[m], zoomed)
          /\ ComboView(s, t) = Refresh(Pop(selected, zoomed))
  BY DEF ComboView, m, k, r, selected, view, added
<1> QED BY <1>10, <1>11, <1>12

LEMMA TagsInv ==
  ASSUME NEW s, ListInv(s), NEW ui \in SUBSET Tag
  PROVE  /\ Reordered(s, ComboTag(s, ui)) /\ Reordered(s, TagSel(s, ui))
         /\ Reordered(s, ToggleTag(s, ui))
<1> DEFINE c == s.sel[s.selmon]
           new == IF s.combo THEN s.tags[c] \cup ui ELSE ui
           sym == SymDiff(s.tags[c], ui)
           t == [s EXCEPT !.combo = TRUE, !.tags[c] = new]
           u == [s EXCEPT !.tags[c] = ui]
           v == [s EXCEPT !.tags[c] = sym]
<1>1. s \in State
  BY DEF ListInv
<1>2. ASSUME c # NULL
      PROVE  /\ Reordered(s, Refresh(t)) /\ Reordered(s, Refresh(u))
             /\ Reordered(s, Refresh(v))
  <2>1. c \in Client
    BY <1>1, <1>2, StateFields DEF ClientOrNull
  <2>2. new \in SUBSET Tag /\ sym \in SUBSET Tag
    BY <1>1, <2>1, StateFields, SymDiffType
  <2> HIDE DEF c, new, sym
  <2>3. t \in State /\ u \in State /\ v \in State
    BY <1>1, <2>1, <2>2, SetComboTagsType, SetTagsType
  <2>4. SameLists(s, t) /\ SameLists(s, u) /\ SameLists(s, v)
    BY <1>1 DEF SameLists, State
  <2> QED BY <2>3, <2>4, SameRefreshInv
<1>3. ComboTag(s, ui) = s \/ (c # NULL /\ ComboTag(s, ui) = Refresh(t))
  BY DEF ComboTag
<1>4. TagSel(s, ui) = s \/ (c # NULL /\ TagSel(s, ui) = Refresh(u))
  BY DEF TagSel
<1>5. ToggleTag(s, ui) = s \/ (c # NULL /\ ToggleTag(s, ui) = Refresh(v))
  BY DEF ToggleTag
<1> QED BY <1>2, <1>3, <1>4, <1>5, ReorderedSelf

-----------------------------------------------------------------------------
(* Moving the focus and reordering the list                                *)

LEMMA FocusStackInv ==
  ASSUME NEW s, ListInv(s), NEW dir
  PROVE  Reordered(s, FocusStack(s, dir))
<1> DEFINE m == s.selmon
           q == s.clients[m]
<1>1. s \in State /\ m \in Mon /\ q \in Seq(Client)
  BY StateFields DEF ListInv
<1>2. FocusStack(s, dir) = s \/ \E i \in 1 .. Len(q) : FocusStack(s, dir) = Focus(s, q[i])
  BY <1>1, FocusStackStep
<1>3. ASSUME NEW i \in 1 .. Len(q)
      PROVE  In(s, q[i])
  <2>1. q[i] \in ToSet(q)
    BY <1>1, LenProperties DEF ToSet
  <2> QED BY <1>1, <2>1, InOfMonitor
<1> QED BY <1>2, <1>3, FocusInv, ReorderedSelf

LEMMA AtIn ==
  ASSUME NEW s, ListInv(s), NEW m \in Mon, NEW i \in 0 .. Len(s.clients[m]),
         At(s.clients[m], i) # NULL
  PROVE  In(s, At(s.clients[m], i))
<1>1. i \in 1 .. Len(s.clients[m]) /\ s.clients[m] \in Seq(Client)
  BY LenProperties DEF At, ListInv, State
<1>2. At(s.clients[m], i) \in ToSet(s.clients[m])
  BY <1>1, LenProperties DEF At, ToSet
<1> QED BY <1>2, InOfMonitor

LEMMA ZoomInv ==
  ASSUME NEW s, ListInv(s)
  PROVE  Reordered(s, Zoom(s))
<1> DEFINE m == s.selmon
           q == s.clients[m]
           c == s.sel[m]
           first == NextTiled(s, q, 1)
           second == IF first = 0 THEN 0 ELSE NextTiled(s, q, first + 1)
           to == IF c = At(q, first) THEN At(q, second) ELSE c
<1>1. /\ m \in Mon /\ q \in Seq(Client) /\ Len(q) \in Nat
      /\ c # NULL => In(s, c)
  BY SelmonFacts, StateFields, LenProperties
<1>2. first \in 0 .. Len(q)
  <2> HIDE DEF q
  <2> QED BY <1>1, NextTiledRange
<1>3. second \in 0 .. Len(q)
  <2> HIDE DEF q, first
  <2>1. first # 0 => first + 1 \in 1 .. Len(q) + 1
    BY <1>1, <1>2
  <2> QED BY <1>1, <1>2, <2>1, NextTiledRange DEF first
<1> HIDE DEF first, second
<1>4. At(q, second) # NULL => In(s, At(q, second))
  BY <1>1, <1>3, AtIn
<1> HIDE DEF q, c
<1>5. to # NULL => In(s, to)
  BY <1>1, <1>4
<1> HIDE DEF to
<1>6. to # NULL => Reordered(s, Pop(s, to))
  BY <1>5, PopInv
<1>7. Zoom(s) = s \/ (to # NULL /\ Zoom(s) = Pop(s, to))
  BY DEF Zoom, m, q, c, first, second, to
<1> QED BY <1>6, <1>7, ReorderedSelf

\* The selected client found in the list of its monitor.
LEMMA SelIndex ==
  ASSUME NEW s, ListInv(s), s.sel[s.selmon] # NULL
  PROVE  LET q == s.clients[s.selmon]
             i == IndexOf(q, s.sel[s.selmon])
         IN i \in 1 .. Len(q) /\ q[i] = s.sel[s.selmon]
<1> DEFINE q == s.clients[s.selmon]
           c == s.sel[s.selmon]
<1>1. List(q) /\ c \in ToSet(q)
  BY SelmonFacts
<1> HIDE DEF q, c
<1>2. q \in Seq(Client) /\ Len(q) \in Nat /\ Contains(q, c)
  BY <1>1, ListFacts DEF Contains
<1>3. IndexOf(q, c) \in 1 .. Len(q) /\ q[IndexOf(q, c)] = c
  BY <1>2, IndexOfRange
<1> QED BY <1>3 DEF q, c

\* The list of the selected monitor is replaced by one of the same clients.
LEMMA NewListInv ==
  ASSUME NEW s, ListInv(s), NEW q, List(q),
         ToSet(q) = ToSet(s.clients[s.selmon]), NEW t \in State,
         t.clients = [s.clients EXCEPT ![s.selmon] = q],
         t.stack = s.stack, t.sel = s.sel, t.mon = s.mon,
         t.selmon = s.selmon, t.nmon = s.nmon, t.lost = s.lost
  PROVE  Reordered(s, t)
<1>1. s.selmon \in Mon /\ s.clients \in [Mon -> Seq(Client)]
  BY DEF ListInv, State
<1>2. \A m \in Mon : /\ List(t.clients[m])
                     /\ ToSet(t.clients[m]) = ToSet(s.clients[m])
  BY <1>1 DEF ListInv, Linked
<1> QED BY <1>2, RelistInv

LEMMA PushDownInv ==
  ASSUME NEW s, ListInv(s)
  PROVE  Reordered(s, PushDown(s))
<1> DEFINE m == s.selmon
           c == s.sel[m]
           q == s.clients[m]
           i == IndexOf(q, c)
           next == NextTiled(s, q, i + 1)
           rest == RemoveAt(q, i)
           new == InsertAt(rest, next, c)
           linked == [s EXCEPT !.clients[m] = new]
           front == Attach(Detach(s, c), c)
           moved == IF next # 0 THEN linked ELSE front
<1>1. /\ s \in State /\ m \in Mon /\ List(q) /\ q \in Seq(Client)
      /\ Len(q) \in Nat
  BY SelmonFacts, ListFacts
<1>2. PushDown(s) = s \/ (c # NULL /\ PushDown(s) = Arrange(Focus(moved, c), m))
  BY DEF PushDown
<1>3. ASSUME c # NULL
      PROVE  Reordered(s, moved) /\ In(s, c)
  <2>1. In(s, c) /\ c \in Client /\ c \in ToSet(q)
    BY <1>3, SelmonFacts
  <2>2. i \in 1 .. Len(q) /\ q[i] = c
    BY <1>3, SelIndex
  <2>3. Reordered(s, front)
    BY <2>1, ToFrontInv
  <2>4. ASSUME next # 0
        PROVE  Reordered(s, linked)
    <3> HIDE DEF q, c, i
    <3>1. i + 1 \in 1 .. Len(q) + 1
      BY <1>1, <2>2
    <3>2. next \in i + 1 .. Len(q)
      BY <1>1, <2>4, <3>1, NextTiledRange
    <3> HIDE DEF next
    <3>3. /\ List(rest) /\ ToSet(rest) = ToSet(q) \ {c}
          /\ Len(rest) = Len(q) - 1
      <4>1. List(rest) /\ ToSet(rest) = ToSet(q) \ {q[i]}
        BY <1>1, <2>2, RemoveAtList
      <4>2. i \in 0 .. Len(q) /\ i # 0
        BY <2>2
      <4>3. Len(rest) = Len(q) - 1
        BY <1>1, <4>2, RemoveAtType
      <4> QED BY <2>2, <4>1, <4>3
    <3> HIDE DEF rest
    <3>4. next \in 1 .. Len(rest) + 1
      BY <1>1, <2>2, <3>2, <3>3
    <3>5. List(new) /\ ToSet(new) = ToSet(q)
      <4>1. List(new) /\ ToSet(new) = ToSet(rest) \cup {c}
        BY <2>1, <3>3, <3>4, InsertAtList
      <4> QED BY <2>1, <3>3, <4>1
    <3> HIDE DEF new
    <3>6. linked \in State
      BY <1>1, <3>5, SetClientsType DEF List
    <3>7. /\ linked.clients = [s.clients EXCEPT ![m] = new]
          /\ linked.stack = s.stack /\ linked.sel = s.sel
          /\ linked.mon = s.mon /\ linked.selmon = s.selmon
          /\ linked.nmon = s.nmon /\ linked.lost = s.lost
      BY <1>1 DEF State
    <3> HIDE DEF linked
    <3> QED BY <3>5, <3>6, <3>7, NewListInv DEF q
  <2> QED BY <2>1, <2>3, <2>4
<1> HIDE DEF moved, c, m
<1>4. ASSUME c # NULL
      PROVE  Reordered(s, Arrange(Focus(moved, c), m))
  <2>1. ListInv(moved) /\ In(moved, c)
    BY <1>1, <1>3, <1>4, ReorderedIn DEF Reordered
  <2>2. Reordered(moved, Focus(moved, c))
    BY <2>1, FocusInv
  <2> QED BY <1>3, <1>4, <2>2, ArrangeInv, ReorderedTwice DEF Reordered
<1> QED BY <1>2, <1>4, ReorderedSelf

\* No helper brings a lost client back.
LEMMA LostStays ==
  ASSUME NEW s \in State, NEW c \in Client, NEW m
  PROVE  Arrange(Focus(s, c), m).lost = s.lost
<1>1. ASSUME NEW t \in State
      PROVE  Arrange(t, m).lost = t.lost
  <2> DEFINE h == ShowHide(t, {m})
  <2>1. h \in State
    BY ShowHideType
  <2>2. h.lost = t.lost
    BY DEF ShowHide, State
  <2> HIDE DEF h
  <2>3. ArrangeMon(h, {m}).lost = h.lost
    BY <2>1 DEF ArrangeMon, State
  <2> QED BY <2>2, <2>3 DEF Arrange, h
<1>2. Focus(s, c) \in State
  BY FocusType DEF ClientOrNull
<1>3. Focus(s, c).lost = s.lost
  <2>1. CASE Chosen(s, c) \in Client
    BY <2>1, FocusFields
  <2>2. CASE Chosen(s, c) \notin Client
    <3>1. c \in ClientOrNull /\ s.stack[s.selmon] \in Seq(Client)
      BY DEF ClientOrNull, State
    <3>2. Chosen(s, c) \in ClientOrNull
      BY <3>1, FirstVisibleType, ToSetOfSeq DEF Chosen, ClientOrNull
    <3>3. Focus(s, c) = [s EXCEPT !.xfocus = NULL, !.sel[s.selmon] = NULL]
      BY <2>2, <3>2 DEF Focus, Chosen, ClientOrNull
    <3>4. "lost" \in DOMAIN s
      BY StateDomain
    <3> QED BY <3>3, <3>4, Zenon
  <2> QED BY <2>1, <2>2
<1> QED BY <1>1, <1>2, <1>3

\* pushup() keeps the lists in step unless it loses the client.
LEMMA PushUpInv ==
  ASSUME NEW s, ListInv(s), ~PushUp(s).lost
  PROVE  Reordered(s, PushUp(s))
<1> DEFINE m == s.selmon
           c == s.sel[m]
           q == s.clients[m]
           i == IndexOf(q, c)
           J == {j \in 1 .. i - 1 : Tiled(s, q[j])}
           prev == IF J # {} THEN Max(J) ELSE 0
           rest == RemoveAt(q, i)
           new == IF prev # 0 THEN InsertAt(rest, prev, c)
                  ELSE IF i = Len(q) THEN rest ELSE Append(rest, c)
           lost == s.lost \/ (prev = 0 /\ i = Len(q))
           t == [s EXCEPT !.clients[m] = new, !.lost = lost]
<1>1. /\ s \in State /\ m \in Mon /\ List(q) /\ q \in Seq(Client)
      /\ Len(q) \in Nat
  BY SelmonFacts, ListFacts
<1>2. PushUp(s) = IF c = NULL \/ s.isfloating[c] THEN s
                  ELSE Arrange(Focus(t, c), m)
  BY DEF PushUp, SelectLastInSubSeq
<1>3. CASE c = NULL \/ s.isfloating[c]
  BY <1>2, <1>3, ReorderedSelf
<1>4. CASE ~(c = NULL \/ s.isfloating[c])
  <2>1. In(s, c) /\ c \in Client /\ c \in ToSet(q)
    BY <1>4, SelmonFacts
  <2>2. i \in 1 .. Len(q) /\ q[i] = c
    BY <1>4, SelIndex
  <2> HIDE DEF m, q, c, i
  <2>3. prev \in 0 .. Len(q) /\ (prev # 0 => prev <= i - 1)
    <3>1. J \in SUBSET (0 .. Len(q)) /\ \A j \in J : j \in 0 .. Len(q) /\ j <= i - 1
      BY <1>1, <2>2
    <3> HIDE DEF J
    <3>2. CASE J # {}
      <4>1. prev = Max(J) /\ Max(J) \in J
        BY <1>1, <3>1, <3>2, MaxNat
      <4> HIDE DEF prev
      <4> QED BY <3>1, <4>1
    <3>3. CASE J = {}
      BY <1>1, <3>3
    <3> QED BY <3>2, <3>3
  <2>4. /\ List(rest) /\ ToSet(rest) = ToSet(q) \ {c}
        /\ Len(rest) = Len(q) - 1 /\ rest \in Seq(Client)
    <3>1. List(rest) /\ ToSet(rest) = ToSet(q) \ {q[i]}
      BY <1>1, <2>2, RemoveAtList
    <3>2. i \in 0 .. Len(q) /\ i # 0
      BY <2>2
    <3>3. Len(rest) = Len(q) - 1
      BY <1>1, <3>2, RemoveAtType
    <3> QED BY <2>2, <3>1, <3>3 DEF List
  <2> HIDE DEF J, prev, rest
  <2>5. prev # 0 => List(InsertAt(rest, prev, c))
                    /\ ToSet(InsertAt(rest, prev, c)) = ToSet(q)
    <3>1. ASSUME prev # 0
          PROVE  prev \in 1 .. Len(rest) + 1
      BY <1>1, <2>2, <2>3, <2>4, <3>1
    <3>2. ASSUME prev # 0
          PROVE  List(InsertAt(rest, prev, c))
                 /\ ToSet(InsertAt(rest, prev, c)) = ToSet(rest) \cup {c}
      BY <2>1, <2>4, <3>1, <3>2, InsertAtList
    <3> QED BY <2>1, <2>4, <3>2
  <2>6. List(Append(rest, c)) /\ ToSet(Append(rest, c)) = ToSet(q)
    <3> DEFINE e == <<c>>
    <3>1. List(e) /\ ToSet(e) = {c}
      BY <2>1, SingleList
    <3>2. Append(rest, c) = rest \o e
      BY <2>1, <2>4, AppendIsConcat
    <3> HIDE DEF e
    <3>3. List(rest \o e) /\ ToSet(rest \o e) = ToSet(rest) \cup ToSet(e)
      BY <2>4, <3>1, ConcatList
    <3> QED BY <2>1, <2>4, <3>1, <3>2, <3>3
  <2>7. new \in Seq(Client) /\ lost \in BOOLEAN
    BY <1>1, <2>4, <2>5, <2>6 DEF List, State
  <2>8. ~lost => List(new) /\ ToSet(new) = ToSet(q)
    BY <2>5, <2>6
  <2> HIDE DEF new, lost
  <2>9. t \in State
    BY <1>1, <2>7, SetLostType
  <2>10. /\ t.clients = [s.clients EXCEPT ![m] = new]
         /\ t.stack = s.stack /\ t.sel = s.sel
         /\ t.mon = s.mon /\ t.selmon = s.selmon
         /\ t.nmon = s.nmon /\ t.lost = lost
    BY <1>1 DEF State
  <2> HIDE DEF t
  <2>11. ~lost
    BY <1>2, <1>4, <2>1, <2>9, <2>10, LostStays
  <2>12. s.lost = lost
    <3>1. s.lost \in BOOLEAN
      BY <1>1 DEF State
    <3>2. ~s.lost
      BY <2>11 DEF lost
    <3> QED BY <2>7, <2>11, <3>1, <3>2
  <2>13. Reordered(s, t)
    BY <2>8, <2>9, <2>10, <2>11, <2>12, NewListInv DEF q, m
  <2>14. ListInv(t) /\ In(t, c)
    BY <1>1, <2>1, <2>13, ReorderedIn DEF Reordered
  <2>15. Reordered(s, Focus(t, c))
    BY <2>13, <2>14, FocusInv, ReorderedTwice
  <2>16. Reordered(s, Arrange(Focus(t, c), m))
    BY <2>15, ArrangeInv, ReorderedTwice DEF Reordered
  <2> QED BY <1>2, <1>4, <2>16
<1> QED BY <1>3, <1>4

LEMMA PushLeftInv ==
  ASSUME NEW s, ListInv(s)
  PROVE  Reordered(s, PushLeft(s))
<1> DEFINE c == s.sel[s.selmon]
           left == ~s.isLeft[c]
           t == [s EXCEPT !.isLeft[c] = left]
           f == Focus(t, c)
<1>1. s \in State /\ (c # NULL => In(s, c) /\ c \in Client)
  BY SelmonFacts
<1> HIDE DEF c
<1>2. left \in BOOLEAN
  OBVIOUS
<1> HIDE DEF left
<1>3. ASSUME c # NULL
      PROVE  Reordered(s, f)
  <2>1. t \in State
    BY <1>1, <1>2, <1>3, SetIsLeftType
  <2>2. SameLists(s, t)
    BY <1>1 DEF SameLists, State
  <2> HIDE DEF t
  <2>3. Reordered(s, t) /\ ListInv(t) /\ In(t, c)
    BY <1>1, <1>3, <2>1, <2>2, SameRefreshInv, ReorderedIn DEF Reordered
  <2> QED BY <2>3, FocusInv, ReorderedTwice
<1> HIDE DEF f
<1>4. c # NULL => Reordered(s, Arrange(f, f.selmon))
  BY <1>3, ArrangeInv, ReorderedTwice DEF Reordered
<1>5. Reordered(s, Arrange(s, s.selmon))
  BY ArrangeInv
<1>6. PushLeft(s) = IF c = NULL THEN Arrange(s, s.selmon) ELSE Arrange(f, f.selmon)
  BY DEF PushLeft, f, t, c, left
<1> QED BY <1>4, <1>5, <1>6

-----------------------------------------------------------------------------
(* Layout, floating and fullscreen                                         *)

LEMMA LayoutInv ==
  ASSUME NEW s, ListInv(s), NEW i \in Int, NEW layout \in Layout \cup {"toggle"}
  PROVE  Reordered(s, IncNMaster(s, i)) /\ Reordered(s, SetLayout(s, layout))
<1> DEFINE m == s.selmon
           n == s.nmaster[m] + i
           newn == IF n > 0 THEN n ELSE 0
           t == [s EXCEPT !.nmaster[m] = newn]
           flip == layout = "toggle" \/ layout # s.lt[m][s.sellt[m]]
           k == IF flip THEN 1 - s.sellt[m] ELSE s.sellt[m]
           newl == IF layout = "toggle" THEN s.lt[m][k] ELSE layout
           u == [s EXCEPT !.sellt[m] = k, !.lt[m][k] = newl]
<1>1. s \in State /\ m \in Mon
  BY SelmonFacts
<1>2. newn \in Nat
  <2>1. s.nmaster[m] \in Nat
    BY <1>1 DEF State
  <2> QED BY <2>1
<1>3. k \in Slot
  BY <1>1 DEF State, Slot
<1> HIDE DEF m, k, newn
<1>4. newl \in Layout
  BY <1>1, <1>3 DEF State
<1> HIDE DEF newl
<1>5. t \in State /\ u \in State
  BY <1>1, <1>2, <1>3, <1>4, SetNMasterType, SetLtType
<1>6. SameLists(s, t) /\ SameLists(s, u)
  BY <1>1 DEF SameLists, State
<1>7. /\ Reordered(s, u) /\ Reordered(s, Arrange(u, m))
      /\ Reordered(s, Arrange(t, m))
  BY <1>5, <1>6, SameRefreshInv
<1>8. IncNMaster(s, i) = Arrange(t, m)
  BY DEF IncNMaster, m, newn
<1>9. SetLayout(s, layout) = u \/ SetLayout(s, layout) = Arrange(u, m)
  BY DEF SetLayout, m, k, newl
<1> QED BY <1>7, <1>8, <1>9

LEMMA SetFullscreenInv ==
  ASSUME NEW s, ListInv(s), NEW c \in Client, NEW on \in BOOLEAN
  PROVE  Reordered(s, SetFullscreen(s, c, on))
<1> DEFINE old == s.oldstate[c]
           float == s.isfloating[c]
           t == [s EXCEPT !.isfullscreen[c] = TRUE, !.oldstate[c] = float,
                          !.isfloating[c] = TRUE, !.shown[c] = TRUE]
           u == [s EXCEPT !.isfullscreen[c] = FALSE,
                          !.isfloating[c] = old, !.shown[c] = TRUE]
<1>1. s \in State /\ float \in BOOLEAN /\ old \in BOOLEAN
  BY DEF ListInv, State
<1> HIDE DEF old, float
<1>2. t \in State /\ u \in State
  BY <1>1, SetFullscreenFieldsType
<1>3. SameLists(s, t) /\ SameLists(s, u)
  BY <1>1 DEF SameLists, State
<1>4. Reordered(s, t) /\ Reordered(s, Arrange(u, s.mon[c]))
  BY <1>2, <1>3, SameRefreshInv
<1>5. \/ SetFullscreen(s, c, on) = s \/ SetFullscreen(s, c, on) = t
      \/ SetFullscreen(s, c, on) = Arrange(u, s.mon[c])
  BY DEF SetFullscreen, old, float
<1> QED BY <1>4, <1>5, ReorderedSelf

LEMMA SetFloatingInv ==
  ASSUME NEW s, ListInv(s), NEW c \in Client, NEW float \in BOOLEAN
  PROVE  LET t == [s EXCEPT !.isfloating[c] = float]
         IN Reordered(s, t) /\ \A m : Reordered(s, Arrange(t, m))
<1> DEFINE t == [s EXCEPT !.isfloating[c] = float]
<1>1. s \in State
  BY DEF ListInv
<1>2. t \in State
  BY <1>1, SetFloatingType
<1>3. SameLists(s, t)
  BY <1>1 DEF SameLists, State
<1> HIDE DEF t
<1>4. Reordered(s, t) /\ \A m : Reordered(s, Arrange(t, m))
  BY <1>2, <1>3, SameRefreshInv
<1> QED BY <1>4 DEF t

LEMMA ToggleInv ==
  ASSUME NEW s, ListInv(s)
  PROVE  Reordered(s, ToggleFloating(s)) /\ Reordered(s, ToggleFullscr(s))
<1> DEFINE c == s.sel[s.selmon]
           float == ~s.isfloating[c] \/ s.isfixed[c]
           full == ~s.isfullscreen[c]
<1>1. c # NULL => c \in Client
  BY SelmonFacts
<1>2. float \in BOOLEAN /\ full \in BOOLEAN
  OBVIOUS
<1>3. ToggleFloating(s) = s \/ (c # NULL /\
        ToggleFloating(s) = Arrange([s EXCEPT !.isfloating[c] = float], s.selmon))
  BY DEF ToggleFloating
<1>4. ToggleFullscr(s) = s
      \/ (c # NULL /\ ToggleFullscr(s) = SetFullscreen(s, c, full))
  BY DEF ToggleFullscr
<1> HIDE DEF c, float, full
<1> QED BY <1>1, <1>2, <1>3, <1>4, SetFloatingInv, SetFullscreenInv, ReorderedSelf

-----------------------------------------------------------------------------
(* Monitors                                                                *)

\* Another connected monitor is selected.
LEMMA SetSelmonInv ==
  ASSUME NEW s, ListInv(s), NEW m \in Mon, m <= s.nmon
  PROVE  Reordered(s, [s EXCEPT !.selmon = m])
<1> DEFINE t == [s EXCEPT !.selmon = m]
<1>1. s \in State
  BY DEF ListInv
<1>2. t \in State
  BY <1>1, SetSelmonType
<1>3. /\ t.clients = s.clients /\ t.stack = s.stack /\ t.mon = s.mon
      /\ t.sel = s.sel /\ t.selmon = m /\ t.nmon = s.nmon /\ t.lost = s.lost
  BY <1>1 DEF State
<1> HIDE DEF t
<1>4. \A i \in Mon : /\ List(t.stack[i])
                     /\ ToSet(t.stack[i]) = ToSet(s.stack[i])
                     /\ t.sel[i] \in ToSet(s.clients[i]) \cup {NULL}
  BY <1>3 DEF ListInv, Linked, Owned
<1>5. ListInv(t)
  BY <1>2, <1>3, <1>4, RestackedInv
<1> QED BY <1>3, <1>5 DEF Reordered, SamePlaces, t

LEMMA SelectMonInv ==
  ASSUME NEW s, ListInv(s), NEW m \in Mon, m <= s.nmon
  PROVE  Reordered(s, SelectMon(s, m))
<1> DEFINE u == Unfocus(s, s.sel[s.selmon])
<1>1. s \in State
  BY DEF ListInv
<1>2. Reordered(s, u)
  BY <1>1, UnfocusType, SetFocusFields, ReorderedSame
<1>3. u.nmon = s.nmon /\ ListInv(u)
  BY <1>2 DEF Reordered, SamePlaces
<1> HIDE DEF u
<1>4. Reordered(u, [u EXCEPT !.selmon = m])
  BY <1>3, SetSelmonInv
<1> QED BY <1>2, <1>4, ReorderedTwice DEF SelectMon, u

\* focusmon and tagmon stay among the connected monitors.
LEMMA DirToMonConnected ==
  ASSUME NEW s, ListInv(s), NEW dir
  PROVE  DirToMon(s, dir) \in Mon /\ DirToMon(s, dir) <= s.nmon
<1>1. s \in State /\ s.selmon <= s.nmon
  BY DEF ListInv, Connected
<1>2. s.nmon \in Mon /\ s.selmon \in Mon
  BY <1>1, StateFields
<1> QED BY <1>1, <1>2, DirToMonType, ConstantsAssumption DEF DirToMon, Mon

\* Selecting a monitor, then a client that is in the lists or none.
LEMMA SelectAndFocusInv ==
  ASSUME NEW s, ListInv(s), NEW m \in Mon, m <= s.nmon,
         NEW c, c = NULL \/ In(s, c)
  PROVE  /\ Reordered(s, Focus(SelectMon(s, m), c))
         /\ Reordered(s, Focus([s EXCEPT !.selmon = m], c))
<1>1. ASSUME NEW t, Reordered(s, t)
      PROVE  Reordered(s, Focus(t, c))
  BY <1>1, ReorderedIn, FocusInv, ReorderedTwice DEF Reordered, ListInv
<1> QED BY <1>1, SelectMonInv, SetSelmonInv

LEMMA FocusMonInv ==
  ASSUME NEW s, ListInv(s), NEW dir
  PROVE  Reordered(s, FocusMon(s, dir))
BY DirToMonConnected, SelectAndFocusInv, ReorderedSelf DEF FocusMon

\* What enternotify(), motionnotify() and buttonpress() need.
LEMMA EnterInv ==
  ASSUME NEW s, ListInv(s), NEW c, In(s, c), NEW m \in Mon, m <= s.nmon
  PROVE  /\ Reordered(s, EnterClient(s, c))
         /\ Reordered(s, ButtonPress(s, c))
<1>1. s.mon[c] \in Mon /\ s.mon[c] <= s.nmon
  BY InFacts
<1>2. Reordered(s, Focus(s, c))
  BY FocusInv
<1>3. Reordered(s, Focus(SelectMon(s, s.mon[c]), c))
  BY <1>1, SelectAndFocusInv
<1>4. Reordered(s, Focus(Focus(SelectMon(s, s.mon[c]), NULL), c))
  <2> DEFINE t == Focus(SelectMon(s, s.mon[c]), NULL)
  <2>1. Reordered(s, t)
    BY <1>1, SelectAndFocusInv
  <2> HIDE DEF t
  <2>2. Reordered(t, Focus(t, c))
    BY <2>1, ReorderedIn, FocusInv DEF Reordered, ListInv
  <2> QED BY <2>1, <2>2, ReorderedTwice DEF t
<1> QED BY <1>2, <1>3, <1>4, ReorderedSelf DEF EnterClient, ButtonPress

LEMMA PointerInv ==
  ASSUME NEW s, ListInv(s), NEW m \in Mon, m <= s.nmon
  PROVE  Reordered(s, EnterRoot(s, m)) /\ Reordered(s, MotionNotify(s, m))
<1> DEFINE t == IF m # s.motionmon /\ s.motionmon # NULL
                THEN Focus(SelectMon(s, m), NULL) ELSE s
           u == [t EXCEPT !.motionmon = m]
<1>1. Reordered(s, Focus(SelectMon(s, m), NULL))
  BY SelectAndFocusInv
<1>2. Reordered(s, t)
  BY <1>1, ReorderedSelf
<1> HIDE DEF t
<1>3. t \in State /\ ListInv(t)
  BY <1>2 DEF Reordered, ListInv
<1>4. u \in State
  BY <1>3, SetMotionMonType
<1>5. SameLists(t, u)
  BY <1>3 DEF SameLists, State
<1> HIDE DEF u
<1>6. Reordered(s, u)
  BY <1>2, <1>3, <1>4, <1>5, ReorderedSame, ReorderedTwice
<1> QED BY <1>1, <1>6, ReorderedSelf DEF EnterRoot, MotionNotify, t, u

LEMMA UnlinkUntouched ==
  ASSUME NEW s \in State, NEW c \in Client
  PROVE  Untouched(s, Unlink(s, c))
BY DetachType, LinksUntouched, UntouchedTwice DEF Unlink

LEMMA LinkUntouched ==
  ASSUME NEW s \in State, NEW c \in Client
  PROVE  Untouched(s, Link(s, c))
BY AttachBelowType, LinksUntouched, UntouchedTwice DEF Link

\* A step that leaves the others where they are leaves them in their lists.
LEMMA OthersIn ==
  ASSUME NEW s \in State, NEW t, NEW c, OthersStay(s, t, c)
  PROVE  \A d : d # c => (In(t, d) <=> In(s, d))
BY DEF OthersStay, In, State

\* A client is unlinked, given to monitor m and linked there.
LEMMA MoveInv ==
  ASSUME NEW s, ListInv(s), NEW c, In(s, c), NEW m \in Mon, m <= s.nmon,
         NEW t \in State,
         t.clients = Unlink(s, c).clients, t.stack = Unlink(s, c).stack,
         t.sel = Unlink(s, c).sel, t.selmon = Unlink(s, c).selmon,
         t.nmon = Unlink(s, c).nmon, t.lost = Unlink(s, c).lost,
         t.mon = [Unlink(s, c).mon EXCEPT ![c] = m]
  PROVE  /\ ListInv(Link(t, c)) /\ In(Link(t, c), c)
         /\ Link(t, c).mon[c] = m /\ Link(t, c).selmon = s.selmon
         /\ OthersStay(s, Link(t, c), c)
<1> DEFINE u == Unlink(s, c)
<1>1. ListInv(u) /\ Out(u, c) /\ OthersStay(s, u, c)
  BY UnlinkInv
<1>2. c \in Client /\ s \in State
  BY DEF In, ListInv
<1>3. u.selmon = s.selmon
  BY <1>2, UnlinkFields
<1> HIDE DEF u
<1>4. t.mon[c] = m /\ \A d \in Client \ {c} : t.mon[d] = u.mon[d]
  BY <1>1, <1>2 DEF u, ListInv, State
<1>5. ListInv(t) /\ Out(t, c) /\ OthersStay(u, t, c)
  BY <1>1, <1>4, OutFieldsInv DEF u
<1>6. t.mon[c] <= t.nmon
  BY <1>1, <1>4, <1>5 DEF OthersStay
<1>7. /\ ListInv(Link(t, c)) /\ In(Link(t, c), c)
      /\ OthersStay(t, Link(t, c), c)
      /\ Link(t, c).mon = t.mon /\ Link(t, c).selmon = t.selmon
  BY <1>5, <1>6, LinkInv
<1>8. OthersStay(s, Link(t, c), c)
  BY <1>1, <1>5, <1>7, OthersStayTwice
<1> QED BY <1>3, <1>4, <1>7, <1>8 DEF u

LEMMA SendMonInv ==
  ASSUME NEW s, ListInv(s), NEW c, In(s, c), NEW m \in Mon, m <= s.nmon
  PROVE  /\ ListInv(SendMon(s, c, m))
         /\ \A d : In(SendMon(s, c, m), d) <=> In(s, d)
<1> DEFINE u == Unfocus(s, c)
           out == Unlink(u, c)
           view == ViewOf(s, m)
           t == [out EXCEPT !.mon[c] = m, !.tags[c] = view]
           l == Link(t, c)
<1>1. s \in State /\ c \in Client
  BY DEF In, ListInv
<1>2. Reordered(s, u)
  BY <1>1, UnfocusType, SetFocusFields, ReorderedSame
<1>3. /\ ListInv(u) /\ In(u, c) /\ u.nmon = s.nmon /\ u \in State
      /\ OthersStay(s, u, c)
  BY <1>1, <1>2, ReorderedIn, ReorderedStay DEF Reordered, SamePlaces, ListInv
<1> HIDE DEF u
<1>4. out \in State
  BY <1>1, <1>3, DetachType, DetachStackType DEF Unlink
<1>5. view \in SUBSET Tag
  BY <1>1, ViewOfType
<1> HIDE DEF view
<1>6. t \in State
  <2> HIDE DEF out
  <2> QED BY <1>1, <1>4, <1>5, MoveRetagType
<1>7. /\ t.clients = out.clients /\ t.stack = out.stack /\ t.sel = out.sel
      /\ t.selmon = out.selmon /\ t.nmon = out.nmon /\ t.lost = out.lost
      /\ t.mon = [out.mon EXCEPT ![c] = m]
  <2> HIDE DEF out
  <2> QED BY <1>4 DEF State
<1> HIDE DEF t
<1>8. ListInv(l) /\ In(l, c) /\ OthersStay(s, l, c)
  BY <1>3, <1>6, <1>7, MoveInv, OthersStayTwice
<1> HIDE DEF l
<1>9. Reordered(l, ArrangeAll(Focus(l, NULL)))
  BY <1>8, FocusInv, ArrangeInv, ReorderedTwice DEF Reordered
<1>10. SendMon(s, c, m) = s \/ SendMon(s, c, m) = ArrangeAll(Focus(l, NULL))
  BY DEF SendMon, Unlink, Link, l, t, out, u, view
<1>11. \A d : In(l, d) <=> In(s, d)
  BY <1>1, <1>8, OthersIn
<1>12. \A d : In(ArrangeAll(Focus(l, NULL)), d) <=> In(l, d)
  BY <1>8, <1>9, ReorderedSameIn
<1> QED BY <1>9, <1>10, <1>11, <1>12 DEF Reordered

LEMMA TagMonInv ==
  ASSUME NEW s, ListInv(s), NEW dir
  PROVE  ListInv(TagMon(s, dir)) /\ \A d : In(TagMon(s, dir), d) <=> In(s, d)
BY SelmonFacts, DirToMonConnected, SendMonInv DEF TagMon

-----------------------------------------------------------------------------
(* Clients come and go, and change their properties                        *)

LEMMA PropertiesInv ==
  ASSUME NEW s, ListInv(s), NEW c \in Client,
         NEW a \in BOOLEAN, NEW b \in BOOLEAN
  PROVE  /\ Reordered(s, UpdateWindowType(s, c, a, b))
         /\ Reordered(s, UpdateWmHints(s, c, a, b))
         /\ Reordered(s, ActiveWindowMessage(s, c))
         /\ Reordered(s, TransientFor(s, c, a))
         /\ Reordered(s, FocusIn(s, c))
         /\ Reordered(s, [s EXCEPT !.isfixed[c] = a])
<1>1. s \in State
  BY DEF ListInv
<1>2. Reordered(s, UpdateWindowType(s, c, a, b))
  <2> DEFINE t == IF a THEN SetFullscreen(s, c, TRUE) ELSE s
  <2>1. Reordered(s, t)
    BY SetFullscreenInv, ReorderedSelf
  <2> HIDE DEF t
  <2>2. Reordered(s, [t EXCEPT !.isfloating[c] = TRUE])
    BY <2>1, SetFloatingInv, ReorderedTwice DEF Reordered
  <2> QED BY <2>1, <2>2 DEF UpdateWindowType, t
<1>3. ASSUME NEW t \in State, SameLists(s, t)
      PROVE  Reordered(s, t)
  BY <1>3, ReorderedSame
<1>4. Reordered(s, UpdateWmHints(s, c, a, b))
  <2>1. UpdateWmHints(s, c, a, b) \in State
    BY <1>1, UpdateWmHintsType
  <2>2. SameLists(s, UpdateWmHints(s, c, a, b))
    BY <1>1 DEF SameLists, UpdateWmHints, State
  <2> QED BY <1>3, <2>1, <2>2
<1>5. Reordered(s, ActiveWindowMessage(s, c))
  <2>1. ActiveWindowMessage(s, c) \in State
    BY <1>1, ActiveWindowMessageType
  <2>2. SameLists(s, ActiveWindowMessage(s, c))
    BY <1>1 DEF SameLists, ActiveWindowMessage, State
  <2> QED BY <1>3, <2>1, <2>2
<1>6. Reordered(s, TransientFor(s, c, a))
  BY SetFloatingInv, ReorderedSelf DEF TransientFor
<1>7. Reordered(s, FocusIn(s, c))
  <2> DEFINE rest == s.focusin \ {c}
             t == [s EXCEPT !.focusin = rest]
             sel == s.sel[s.selmon]
  <2>1. rest \in SUBSET Client
    BY <1>1 DEF State
  <2> HIDE DEF rest, sel
  <2>2. t \in State
    BY <1>1, <2>1, SetFocusInType
  <2>3. SameLists(s, t)
    BY <1>1 DEF SameLists, State
  <2> HIDE DEF t
  <2>4. SameLists(s, SetFocus(t, sel))
    BY <2>2, <2>3, SetFocusFields DEF SameLists
  <2>5. FocusIn(s, c) \in State
    BY <1>1, FocusInType
  <2>6. FocusIn(s, c) = t \/ FocusIn(s, c) = SetFocus(t, sel)
    BY DEF FocusIn, t, rest, sel
  <2> QED BY <1>3, <2>3, <2>4, <2>5, <2>6
<1>8. Reordered(s, [s EXCEPT !.isfixed[c] = a])
  <2>1. [s EXCEPT !.isfixed[c] = a] \in State
    BY <1>1, SetFixedType
  <2>2. SameLists(s, [s EXCEPT !.isfixed[c] = a])
    BY <1>1 DEF SameLists, State
  <2> QED BY <1>3, <2>1, <2>2
<1> QED BY <1>2, <1>4, <1>5, <1>6, <1>7, <1>8

\* A client that is linked becomes the selected one of its monitor.
LEMMA SelectNewInv ==
  ASSUME NEW s, ListInv(s), NEW c, In(s, c)
  PROVE  ListInv([s EXCEPT !.sel[s.mon[c]] = c])
<1> DEFINE m == s.mon[c]
           t == [s EXCEPT !.sel[m] = c]
<1>1. s \in State /\ c \in Client /\ m \in Mon /\ c \in ToSet(s.clients[m])
  BY InFacts DEF ListInv, In
<1> HIDE DEF m
<1>2. t \in State
  BY <1>1, SetSelType DEF ClientOrNull
<1>3. /\ t.clients = s.clients /\ t.stack = s.stack /\ t.mon = s.mon
      /\ t.sel = [s.sel EXCEPT ![m] = c]
      /\ t.selmon = s.selmon /\ t.nmon = s.nmon
  BY <1>1 DEF State
<1> HIDE DEF t
<1>4. s.sel \in [Mon -> ClientOrNull]
  BY <1>1 DEF State
<1>5. \A i \in Mon : t.sel[i] \in ToSet(s.clients[i]) \cup {NULL}
  BY <1>1, <1>3, <1>4 DEF ListInv, Owned
<1>6. \A i \in Mon : /\ List(t.stack[i])
                     /\ ToSet(t.stack[i]) = ToSet(s.stack[i])
  BY <1>3 DEF ListInv, Linked
<1>7. t.selmon <= t.nmon
  BY <1>3 DEF ListInv, Connected
<1>8. ListInv(t)
  BY <1>2, <1>3, <1>5, <1>6, <1>7, RestackedInv
<1> QED BY <1>8 DEF t, m

LEMMA ReorderedOut ==
  ASSUME NEW s, NEW t, Reordered(s, t), NEW c, Out(s, c)
  PROVE  Out(t, c) /\ t.mon = s.mon /\ t.nmon = s.nmon /\ ListInv(t)
BY DEF Reordered, SamePlaces, Out

\* A step writes no client's fields but those of c, and no view.
SameOthers(s, t, c) ==
  /\ t.tagset = s.tagset /\ t.seltags = s.seltags
  /\ \A d \in Client \ {c} :
       /\ t.tags[d] = s.tags[d] /\ t.shown[d] = s.shown[d]
       /\ t.isfloating[d] = s.isfloating[d]
       /\ t.isfullscreen[d] = s.isfullscreen[d]
       /\ t.oldstate[d] = s.oldstate[d]

FloatsIfFull(s, c) == s.isfullscreen[c] => s.isfloating[c]

LEMMA SameOthersTwice ==
  ASSUME NEW s, NEW t, NEW u, NEW c, SameOthers(s, t, c), SameOthers(t, u, c)
  PROVE  SameOthers(s, u, c)
BY DEF SameOthers

LEMMA UntouchedOthers ==
  ASSUME NEW s, NEW t, NEW c, Untouched(s, t)
  PROVE  /\ SameOthers(s, t, c) /\ t.tags[c] = s.tags[c]
         /\ FloatsIfFull(s, c) => FloatsIfFull(t, c)
         /\ t.isfullscreen[c] = s.isfullscreen[c]
BY DEF Untouched, SameOthers, FloatsIfFull

\* updatewindowtype() on a client that is not fullscreen yet.
LEMMA UpdateWindowTypeFields ==
  ASSUME NEW s \in State, NEW c \in Client,
         NEW a \in BOOLEAN, NEW b \in BOOLEAN
  PROVE  LET t == UpdateWindowType(s, c, a, b)
         IN /\ SameOthers(s, t, c) /\ t.tags[c] = s.tags[c]
            /\ ~s.isfullscreen[c] => FloatsIfFull(t, c)
            /\ ~a => t.isfullscreen[c] = s.isfullscreen[c]
            /\ t.selmon = s.selmon
<1> DEFINE old == s.isfloating[c]
           full == [s EXCEPT !.isfullscreen[c] = TRUE, !.oldstate[c] = old,
                             !.isfloating[c] = TRUE, !.shown[c] = TRUE]
           t == IF a /\ ~s.isfullscreen[c] THEN full ELSE s
           u == [t EXCEPT !.isfloating[c] = TRUE]
<1>1. old \in BOOLEAN
  BY DEF State
<1> HIDE DEF old
<1>2. full \in State
  BY <1>1, SetFullscreenFieldsType
<1>3. /\ SameOthers(s, full, c) /\ FloatsIfFull(full, c)
      /\ full.tags[c] = s.tags[c] /\ full.selmon = s.selmon
  BY DEF SameOthers, FloatsIfFull, State
<1> HIDE DEF full
<1>4. /\ t \in State /\ SameOthers(s, t, c) /\ t.tags[c] = s.tags[c]
      /\ ~s.isfullscreen[c] => FloatsIfFull(t, c)
      /\ ~a => t.isfullscreen[c] = s.isfullscreen[c]
      /\ t.selmon = s.selmon
  BY <1>2, <1>3 DEF SameOthers, FloatsIfFull
<1> HIDE DEF t
<1>5. /\ SameOthers(t, u, c) /\ FloatsIfFull(u, c) /\ u.tags[c] = t.tags[c]
      /\ u.selmon = t.selmon /\ u.isfullscreen[c] = t.isfullscreen[c]
  BY <1>4 DEF SameOthers, FloatsIfFull, State
<1>6. UpdateWindowType(s, c, a, b) = IF b THEN u ELSE t
  BY DEF UpdateWindowType, SetFullscreen, u, t, full, old
<1> HIDE DEF u
<1> QED BY <1>4, <1>5, <1>6, SameOthersTwice

\* manage() links a client that has tags, and floats when it is fullscreen.
LEMMA ManageLinks ==
  ASSUME NEW s, ListInv(s), NEW c, Out(s, c), NEW kind \in Kind,
         NEW p, p = NULL \/ In(s, p)
  PROVE  \E t : /\ ManageArranged(s, c, kind, p) = Arrange(t, t.mon[c])
                /\ ListInv(t) /\ In(t, c) /\ OthersStay(s, t, c)
                /\ SameOthers(s, t, c) /\ t.selmon = s.selmon
                /\ ~s.isfullscreen[c] => FloatsIfFull(t, c)
                /\ ~kind.fullscreen => t.isfullscreen[c] = s.isfullscreen[c]
                /\ t.tags[c] = IF p = NULL THEN RuleTags(s, s.selmon, kind)
                                            ELSE s.tags[p]
<1> DEFINE m == IF p = NULL THEN s.selmon ELSE s.mon[p]
           ruled == p = NULL
           tags == IF ruled THEN RuleTags(s, m, kind) ELSE s.tags[p]
           isfloating == ruled /\ kind.isfloating
           isLeft == ruled /\ kind.isLeft
           born == [s EXCEPT !.mon[c] = m, !.tags[c] = tags,
                             !.isfloating[c] = isfloating, !.isLeft[c] = isLeft]
           typed == UpdateWindowType(born, c, kind.fullscreen, kind.dialog)
           fixed == [typed EXCEPT !.isfixed[c] = kind.isfixed]
           hinted == UpdateWmHints(fixed, c, kind.urgent, kind.neverfocus)
           float == kind.transient \/ kind.isfixed
           floated == [hinted EXCEPT !.isfloating[c] = float,
                                     !.oldstate[c] = float]
           placed == IF hinted.isfloating[c] THEN hinted ELSE floated
           linked == Link(placed, c)
           selected == [linked EXCEPT !.sel[m] = c]
           Floats(r) ==
             /\ ~s.isfullscreen[c] => FloatsIfFull(r, c)
             /\ ~kind.fullscreen => r.isfullscreen[c] = s.isfullscreen[c]
<1>1. /\ kind.isfloating \in BOOLEAN /\ kind.isLeft \in BOOLEAN
      /\ kind.fullscreen \in BOOLEAN /\ kind.dialog \in BOOLEAN
      /\ kind.isfixed \in BOOLEAN /\ kind.urgent \in BOOLEAN
      /\ kind.neverfocus \in BOOLEAN /\ kind.transient \in BOOLEAN
  BY DEF Kind
<1>2. s \in State /\ c \in Client /\ (p # NULL => p \in Client)
  BY DEF ListInv, Out, In
<1>3. m \in Mon /\ m <= s.nmon
  BY <1>2, SelmonFacts, InFacts
<1>4. tags \in SUBSET Tag
  BY <1>2, <1>3, StateFields, RuleTagsType
<1>5. isfloating \in BOOLEAN /\ isLeft \in BOOLEAN /\ float \in BOOLEAN
  BY <1>1
<1> HIDE DEF m, tags, isfloating, isLeft, float
<1>6. born \in State
  BY <1>2, <1>3, <1>4, <1>5, BornType
<1>7. /\ born.clients = s.clients /\ born.stack = s.stack /\ born.sel = s.sel
      /\ born.selmon = s.selmon /\ born.nmon = s.nmon /\ born.lost = s.lost
      /\ born.mon = [s.mon EXCEPT ![c] = m]
  BY <1>2 DEF State
<1>20. SameOthers(s, born, c) /\ born.tags[c] = tags
      /\ born.isfullscreen[c] = s.isfullscreen[c]
  BY <1>2 DEF SameOthers, State
<1> HIDE DEF born
<1>8. born.mon[c] = m /\ \A d \in Client \ {c} : born.mon[d] = s.mon[d]
  BY <1>2, <1>7 DEF State
<1>9. ListInv(born) /\ Out(born, c) /\ OthersStay(s, born, c)
  BY <1>6, <1>7, <1>8, OutFieldsInv
<1>10. Reordered(born, typed)
  BY <1>1, <1>2, <1>9, PropertiesInv
<1>21. /\ SameOthers(born, typed, c) /\ Floats(typed)
       /\ typed.tags[c] = tags /\ typed.selmon = s.selmon
  BY <1>1, <1>2, <1>6, <1>7, <1>20, UpdateWindowTypeFields
<1> HIDE DEF typed
<1>22. /\ Untouched(typed, fixed) /\ Untouched(fixed, hinted)
       /\ hinted.selmon = s.selmon
  <2>1. typed \in State
    BY <1>10 DEF Reordered, ListInv
  <2>2. fixed \in State /\ Untouched(typed, fixed)
    BY <1>1, <1>2, <2>1, SetFixedType, StateDomain, ZenonT(60) DEF Untouched
  <2>3. fixed.selmon = typed.selmon
    BY <2>1, StateDomain, ZenonT(60)
  <2> HIDE DEF fixed
  <2>4. Untouched(fixed, hinted)
    BY <2>2, StateDomain, ZenonT(60) DEF Untouched, UpdateWmHints
  <2>5. hinted.selmon = fixed.selmon
    BY <2>2, StateDomain, ZenonT(60) DEF UpdateWmHints
  <2> QED BY <1>21, <2>2, <2>3, <2>4, <2>5
<1>11. Reordered(born, fixed)
  BY <1>1, <1>2, <1>10, PropertiesInv, ReorderedTwice DEF Reordered
<1> HIDE DEF fixed
<1>12. Reordered(born, hinted)
  <2>1. ListInv(fixed)
    BY <1>11 DEF Reordered
  <2>2. Reordered(fixed, hinted)
    BY <1>1, <1>2, <2>1, PropertiesInv
  <2> QED BY <1>11, <2>2, ReorderedTwice
<1>13. hinted \in State
  BY <1>12 DEF Reordered, ListInv
<1>23. /\ SameOthers(s, hinted, c) /\ Floats(hinted)
       /\ hinted.tags[c] = tags
  <2>1. Untouched(typed, hinted)
    BY <1>22, UntouchedTwice
  <2>2. /\ SameOthers(typed, hinted, c) /\ hinted.tags[c] = typed.tags[c]
        /\ hinted.isfullscreen[c] = typed.isfullscreen[c]
        /\ FloatsIfFull(typed, c) => FloatsIfFull(hinted, c)
    BY <2>1, UntouchedOthers
  <2>3. SameOthers(s, typed, c)
    BY <1>20, <1>21, SameOthersTwice
  <2> HIDE DEF hinted
  <2> QED BY <1>20, <1>21, <2>2, <2>3, SameOthersTwice
<1> HIDE DEF hinted
<1>14. Reordered(hinted, floated)
  <2>1. floated \in State
    BY <1>2, <1>5, <1>13, FloatedType
  <2>2. SameLists(hinted, floated)
    BY <1>13 DEF SameLists, State
  <2> QED BY <1>12, <2>1, <2>2, ReorderedSame DEF Reordered
<1>24. /\ SameOthers(hinted, floated, c) /\ floated.tags = hinted.tags
       /\ floated.isfullscreen = hinted.isfullscreen
       /\ floated.selmon = hinted.selmon
  BY <1>2, <1>13 DEF SameOthers, State
<1> HIDE DEF floated
<1>15. Reordered(born, placed)
  BY <1>12, <1>14, ReorderedTwice
<1>25. /\ SameOthers(s, placed, c) /\ Floats(placed)
       /\ placed.tags[c] = tags /\ placed.selmon = s.selmon
  BY <1>22, <1>23, <1>24, SameOthersTwice DEF FloatsIfFull
<1> HIDE DEF placed
<1>16. /\ ListInv(placed) /\ Out(placed, c) /\ placed.mon[c] = m
       /\ m <= placed.nmon /\ OthersStay(s, placed, c)
  BY <1>3, <1>7, <1>8, <1>9, <1>15, ReorderedOut, ReorderedStay, OthersStayTwice
<1>17. /\ ListInv(linked) /\ In(linked, c) /\ linked.mon[c] = m
       /\ OthersStay(s, linked, c) /\ Untouched(placed, linked)
       /\ linked.selmon = s.selmon
  BY <1>2, <1>16, <1>25, LinkInv, LinkUntouched, OthersStayTwice DEF ListInv
<1> HIDE DEF linked
<1>18. ListInv(selected)
  BY <1>17, SelectNewInv
<1>26. /\ Untouched(linked, selected) /\ selected.clients = linked.clients
       /\ selected.mon = linked.mon /\ selected.nmon = linked.nmon
       /\ selected.lost = linked.lost /\ selected.selmon = s.selmon
  <2>1. linked \in State
    BY <1>17 DEF ListInv
  <2> QED BY <1>17, <2>1 DEF Untouched, State
<1> HIDE DEF selected
<1>27. /\ In(selected, c) /\ selected.mon[c] = m /\ OthersStay(s, selected, c)
  BY <1>17, <1>26 DEF In, OthersStay
<1>28. /\ SameOthers(s, selected, c) /\ Floats(selected)
       /\ selected.tags[c] = tags
  <2>1. Untouched(placed, selected)
    BY <1>17, <1>26, UntouchedTwice
  <2>2. /\ SameOthers(placed, selected, c) /\ selected.tags[c] = placed.tags[c]
        /\ selected.isfullscreen[c] = placed.isfullscreen[c]
        /\ FloatsIfFull(placed, c) => FloatsIfFull(selected, c)
    BY <2>1, UntouchedOthers
  <2> QED BY <1>25, <2>2, SameOthersTwice
<1>29. ManageArranged(s, c, kind, p) = Arrange(selected, m)
  BY DEF ManageArranged, Link, selected, linked, placed, floated,
         hinted, fixed, typed, born, m, tags, isfloating, isLeft, float
<1>30. tags = IF p = NULL THEN RuleTags(s, s.selmon, kind) ELSE s.tags[p]
  BY DEF tags, m
<1>31. ManageArranged(s, c, kind, p) = Arrange(selected, selected.mon[c])
  BY <1>27, <1>29
<1> QED BY <1>18, <1>26, <1>27, <1>28, <1>30, <1>31

LEMMA ManageInv ==
  ASSUME NEW s, ListInv(s), NEW c, Out(s, c), NEW kind \in Kind,
         NEW p, p = NULL \/ In(s, p)
  PROVE  ListInv(Manage(s, c, kind, p))
BY ManageLinks, ArrangeInv, FocusInv DEF Manage, Reordered

\* A client on no list is not in its monitor's.
LEMMA OutNotIn ==
  ASSUME NEW s \in State, NEW c, Out(s, c)
  PROVE  ~In(s, c)
BY DEF Out, In, State

LEMMA FreeClientFields ==
  ASSUME NEW s \in State, NEW c \in Client
  PROVE  LET t == FreeClient(s, c)
         IN /\ t.clients = s.clients /\ t.stack = s.stack /\ t.sel = s.sel
            /\ t.selmon = s.selmon /\ t.nmon = s.nmon /\ t.lost = s.lost
            /\ t.mon = [s.mon EXCEPT ![c] = 1]
<1> DEFINE t == FreeClient(s, c)
<1>1. {"clients", "stack", "sel", "selmon", "nmon", "lost", "mon"}
        \subseteq DOMAIN s
  BY StateDomain
<1>2. t.clients = s.clients /\ t.stack = s.stack /\ t.sel = s.sel
  BY <1>1, ZenonT(60) DEF FreeClient
<1>3. t.selmon = s.selmon /\ t.nmon = s.nmon /\ t.lost = s.lost
  BY <1>1, ZenonT(60) DEF FreeClient
<1>4. t.mon = [s.mon EXCEPT ![c] = 1]
  BY <1>1, ZenonT(60) DEF FreeClient
<1> QED BY <1>2, <1>3, <1>4

LEMMA UnmanageInv ==
  ASSUME NEW s, ListInv(s), NEW c, In(s, c)
  PROVE  /\ ListInv(Unmanage(s, c))
         /\ \A d : In(Unmanage(s, c), d) <=> In(s, d) /\ d # c
<1> DEFINE u == Unlink(s, c)
           t == FreeClient(u, c)
<1>1. ListInv(u) /\ Out(u, c) /\ OthersStay(s, u, c)
  BY UnlinkInv
<1>2. u \in State /\ c \in Client /\ s \in State
  BY <1>1 DEF ListInv, Out
<1> HIDE DEF u
<1>3. t \in State
  BY <1>2, FreeClientType
<1>4. /\ t.clients = u.clients /\ t.stack = u.stack /\ t.sel = u.sel
      /\ t.selmon = u.selmon /\ t.nmon = u.nmon /\ t.lost = u.lost
      /\ t.mon = [u.mon EXCEPT ![c] = 1]
  BY <1>2, FreeClientFields
<1> HIDE DEF t
<1>5. \A d \in Client \ {c} : t.mon[d] = u.mon[d]
  BY <1>2, <1>4 DEF State
<1>6. ListInv(t) /\ Out(t, c) /\ OthersStay(s, t, c)
  BY <1>1, <1>3, <1>4, <1>5, OutFieldsInv, OthersStayTwice
<1> DEFINE r == Focus(Arrange(t, s.mon[c]), NULL)
<1>7. Reordered(t, r)
  BY <1>6, ArrangeInv, FocusInv, ReorderedTwice DEF Reordered
<1>8. \A d : In(r, d) <=> In(t, d)
  BY <1>6, <1>7, ReorderedSameIn
<1>9. \A d : In(t, d) <=> In(s, d) /\ d # c
  BY <1>2, <1>3, <1>6, OthersIn, OutNotIn
<1>10. r = Unmanage(s, c)
  BY DEF Unmanage, Unlink, t, u
<1> HIDE DEF r
<1> QED BY <1>7, <1>8, <1>9, <1>10 DEF Reordered

-----------------------------------------------------------------------------
(* Monitors are connected and disconnected                                 *)

LEMMA MoveToFirstInv ==
  ASSUME NEW s, ListInv(s), NEW c, In(s, c)
  PROVE  LET t == MoveToFirst(s, c)
         IN /\ ListInv(t) /\ t.mon[c] = 1 /\ t.selmon = s.selmon
            /\ OthersStay(s, t, c) /\ In(t, c) /\ Untouched(s, t)
<1> DEFINE out == Unlink(s, c)
           t == [out EXCEPT !.mon[c] = 1]
<1>1. s \in State /\ c \in Client /\ 1 \in Mon /\ 1 <= s.nmon
  BY StateFields, ConstantsAssumption DEF In, ListInv, Mon
<1>2. out \in State
  BY <1>1, DetachType, DetachStackType DEF Unlink
<1>3. /\ t \in State
      /\ t.clients = out.clients /\ t.stack = out.stack /\ t.sel = out.sel
      /\ t.selmon = out.selmon /\ t.nmon = out.nmon /\ t.lost = out.lost
      /\ t.mon = [out.mon EXCEPT ![c] = 1]
  <2> HIDE DEF out
  <2>1. t \in State
    BY <1>1, <1>2, MoveType
  <2> QED BY <1>2, <2>1 DEF State
<1>4. Untouched(s, out) /\ Untouched(out, t)
  <2>1. Untouched(s, out)
    BY <1>1, UnlinkUntouched
  <2> HIDE DEF out
  <2>2. Untouched(out, t)
    BY <1>2 DEF Untouched, State
  <2> QED BY <2>1, <2>2
<1> HIDE DEF t
<1>5. /\ ListInv(Link(t, c)) /\ Link(t, c).mon[c] = 1
      /\ Link(t, c).selmon = s.selmon /\ OthersStay(s, Link(t, c), c)
      /\ In(Link(t, c), c)
  BY <1>1, <1>3, MoveInv
<1>6. Untouched(s, Link(t, c))
  BY <1>1, <1>3, <1>4, LinkUntouched, UntouchedTwice
<1>7. MoveToFirst(s, c) = Link(t, c)
  BY Zenon DEF MoveToFirst, Link, Unlink, t, out
<1> QED BY <1>5, <1>6, <1>7

\* After the loop of updategeom() nothing is left on monitor m, and no client
\* is left out.
LEMMA MoveAllInv ==
  ASSUME NEW s, ListInv(s), NEW m \in Mon, m # 1
  PROVE  LET t == MoveAll(s, m)
         IN /\ ListInv(t) /\ ToSet(t.clients[m]) = {}
            /\ t.nmon = s.nmon /\ t.selmon = s.selmon /\ t.lost = s.lost
            /\ Untouched(s, t) /\ \A c : In(t, c) <=> In(s, c)
<1> DEFINE q == s.clients[m]
           n == Len(q)
           Good(r, i) == /\ ListInv(r) /\ r.nmon = s.nmon /\ r.lost = s.lost
                         /\ r.selmon = s.selmon /\ Untouched(s, r)
                         /\ \A c : In(r, c) <=> In(s, c)
                         /\ ToSet(r.clients[m]) = {q[j] : j \in i + 1 .. n}
<1>1. PICK moved : MoveAll(s, m) = moved[n] /\ MovedSoFar(moved, s, q)
  BY MoveAllUnfolds DEF ListInv
<1>2. /\ List(q) /\ n \in Nat
      /\ ToSet(q) = {q[i] : i \in 1 .. n}
      /\ \A i, j \in 1 .. n : q[i] = q[j] => i = j
  BY ListFacts DEF ListInv, Linked
<1>3. moved[0] = s /\ \A i \in 1 .. n : moved[i] = MoveToFirst(moved[i - 1], q[i])
  BY <1>1 DEF MovedSoFar
<1>4. Good(s, 0)
  BY <1>2 DEF Untouched
<1>5. ASSUME NEW i \in 1 .. n, NEW r, Good(r, i - 1)
      PROVE  Good(MoveToFirst(r, q[i]), i)
  <2> DEFINE c == q[i]
             t == MoveToFirst(r, c)
             left == {q[j] : j \in i .. n}
  <2>1. ListInv(r) /\ ToSet(r.clients[m]) = left /\ c \in left
    BY <1>2, <1>5
  <2>2. In(r, c)
    BY <2>1, InOfMonitor
  <2>3. /\ ListInv(t) /\ t.mon[c] = 1 /\ t.selmon = r.selmon
        /\ OthersStay(r, t, c) /\ In(t, c) /\ Untouched(r, t)
    BY <2>1, <2>2, MoveToFirstInv
  <2>4. left \ {c} = {q[j] : j \in i + 1 .. n}
    <3> HIDE DEF q, n
    <3>1. \A j \in i .. n : j \in 1 .. n /\ (j # i => j \in i + 1 .. n)
      BY <1>2
    <3>2. \A j \in i + 1 .. n : j \in i .. n /\ j # i /\ j \in 1 .. n
      BY <1>2
    <3> QED BY <1>2, <3>1, <3>2
  <2> HIDE DEF t, c, left
  <2>5. c \notin ToSet(t.clients[m])
    BY <2>3 DEF ListInv, Linked
  <2>6. ToSet(t.clients[m]) = ToSet(r.clients[m]) \ {c}
    BY <2>3, <2>5 DEF OthersStay
  <2>7. t.nmon = s.nmon /\ t.selmon = s.selmon /\ t.lost = s.lost
    BY <1>5, <2>3 DEF OthersStay
  <2>8. Untouched(s, t)
    BY <1>5, <2>3, UntouchedTwice
  <2>9. \A d : In(t, d) <=> In(s, d)
    BY <1>5, <2>1, <2>2, <2>3, OthersIn DEF ListInv
  <2>10. Good(t, i)
    BY <2>1, <2>3, <2>4, <2>6, <2>7, <2>8, <2>9
  <2> QED BY <2>10 DEF t, c
<1> HIDE DEF n, q, Good
<1> DEFINE T == {i \in 0 .. n : Good(moved[i], i)}
<1>6. 0 \in T
  BY <1>2, <1>3, <1>4
<1>7. ASSUME NEW i \in 1 .. n, i - 1 \in T
      PROVE  i \in T
  BY <1>2, <1>3, <1>5, <1>7
<1>8. \A i \in 0 .. n : i \in T
  <2> HIDE DEF T
  <2> QED BY <1>2, <1>6, <1>7, InductionUpTo
<1>9. Good(moved[n], n)
  BY <1>2, <1>8
<1>10. {q[j] : j \in n + 1 .. n} = {}
  BY <1>2
<1> QED BY <1>1, <1>9, <1>10 DEF Good, n, q

LEMMA RemoveMonInv ==
  ASSUME NEW s, ListInv(s), s.nmon # 1
  PROVE  /\ ListInv(RemoveMon(s))
         /\ \A c : In(RemoveMon(s), c) <=> In(s, c)
<1> DEFINE m == s.nmon
           k == m - 1
           empty == MoveAll(s, m)
           sel == IF empty.selmon = m THEN 1 ELSE empty.selmon
           left == [empty EXCEPT !.selmon = sel, !.nmon = k]
           t == CleanupMon(left, m)
<1>1. s \in State /\ m \in Mon /\ k \in Mon /\ 1 \in Mon /\ m \in Nat /\ m # 1
  BY StateFields, ConstantsAssumption DEF ListInv, Mon
<1>2. /\ ListInv(empty) /\ ToSet(empty.clients[m]) = {}
      /\ empty.nmon = m /\ empty.selmon = s.selmon
      /\ \A c : In(empty, c) <=> In(s, c)
  BY <1>1, MoveAllInv
<1>3. empty \in State /\ empty.selmon \in Mon /\ empty.selmon <= m
  BY <1>2, StateFields DEF ListInv, Connected
<1> HIDE DEF m, empty
<1>4. sel \in Mon /\ sel <= k
  BY <1>1, <1>3 DEF Mon
<1> HIDE DEF sel, k
<1>5. left \in State
  BY <1>1, <1>3, <1>4, ZenonT(60) DEF State
<1>6. /\ left.clients = empty.clients /\ left.stack = empty.stack
      /\ left.mon = empty.mon /\ left.sel = empty.sel
      /\ left.selmon = sel /\ left.nmon = k /\ left.lost = empty.lost
  BY <1>3 DEF State
<1> HIDE DEF left
<1>7. t \in State
  BY <1>1, <1>5, CleanupMonType
<1>8. /\ t.clients = empty.clients /\ t.stack = empty.stack
      /\ t.mon = empty.mon /\ t.sel = [empty.sel EXCEPT ![m] = NULL]
      /\ t.selmon = sel /\ t.nmon = k
  <2>1. /\ t.clients = left.clients /\ t.stack = left.stack
        /\ t.mon = left.mon /\ t.sel = [left.sel EXCEPT ![m] = NULL]
        /\ t.selmon = left.selmon /\ t.nmon = left.nmon
    <3>1. {"clients", "stack", "mon", "sel", "selmon", "nmon"}
            \subseteq DOMAIN left
      BY <1>5, StateDomain
    <3>2. t.clients = left.clients /\ t.stack = left.stack /\ t.mon = left.mon
      BY <3>1, ZenonT(60) DEF CleanupMon
    <3>3. t.selmon = left.selmon /\ t.nmon = left.nmon
      BY <3>1, ZenonT(60) DEF CleanupMon
    <3>4. t.sel = [left.sel EXCEPT ![m] = NULL]
      BY <3>1, ZenonT(60) DEF CleanupMon
    <3> QED BY <3>2, <3>3, <3>4
  <2> HIDE DEF t
  <2> QED BY <1>6, <2>1
<1> HIDE DEF t
<1>9. Linked(t)
  BY <1>2, <1>8 DEF ListInv, Linked
<1>10. Owned(t)
  <2>1. empty.sel \in [Mon -> ClientOrNull]
    BY <1>3 DEF State
  <2> QED BY <1>1, <1>2, <1>8, <2>1 DEF ListInv, Owned
<1>11. Connected(t)
  <2>1. \A i \in Mon : k < i => i = m \/ m < i
    BY <1>1 DEF k, Mon
  <2> QED BY <1>2, <1>4, <1>8, <2>1 DEF ListInv, Connected
<1>12. ListInv(t)
  BY <1>7, <1>9, <1>10, <1>11 DEF ListInv
<1>13. \A c : In(t, c) <=> In(s, c)
  BY <1>2, <1>8 DEF In
<1> QED BY <1>12, <1>13 DEF RemoveMon, t, left, sel, k, empty, m

LEMMA RemoveMonsInv ==
  ASSUME NEW s, ListInv(s), NEW k \in Nat, k < s.nmon
  PROVE  /\ ListInv(RemoveMons(s, k)) /\ RemoveMons(s, k).nmon = s.nmon - k
         /\ \A c : In(RemoveMons(s, k), c) <=> In(s, c)
<1>1. s \in State
  BY DEF ListInv
<1>2. PICK removed : /\ RemoveMons(s, k) = removed[k]
                     /\ RemovedSoFar(removed, s, k)
  BY <1>1, RemoveMonsUnfolds
<1> DEFINE T == {i \in 0 .. k : /\ ListInv(removed[i])
                               /\ \A c : In(removed[i], c) <=> In(s, c)}
<1>3. 0 \in T
  BY <1>2 DEF RemovedSoFar
<1>4. ASSUME NEW i \in 1 .. k, i - 1 \in T
      PROVE  i \in T
  <2>1. /\ removed[i] = RemoveMon(removed[i - 1])
        /\ removed[i - 1].nmon = s.nmon - (i - 1)
    BY <1>2 DEF RemovedSoFar
  <2>2. s.nmon \in Nat
    BY <1>1, StateFields, ConstantsAssumption DEF Mon
  <2>3. removed[i - 1].nmon # 1
    BY <2>1, <2>2
  <2> QED BY <1>4, <2>1, <2>3, RemoveMonInv
<1>5. \A i \in 0 .. k : i \in T
  <2> HIDE DEF T
  <2> QED BY <1>3, <1>4, InductionUpTo
<1>6. k \in T
  BY <1>5
<1> QED BY <1>1, <1>2, <1>6, RemoveMonsType

LEMMA ConfigureNotifyInv ==
  ASSUME NEW s, ListInv(s), NEW n \in Mon, NEW p \in 1 .. n
  PROVE  /\ ListInv(ConfigureNotify(s, n, p))
         /\ \A c : In(ConfigureNotify(s, n, p), c) <=> In(s, c)
<1> DEFINE more == [s EXCEPT !.nmon = n]
           t == IF n >= s.nmon THEN more ELSE RemoveMons(s, s.nmon - n)
           dirty == n >= s.nmon \/ \E m \in n + 1 .. s.nmon : s.clients[m] # << >>
           sel == IF dirty THEN p ELSE t.selmon
           u == [t EXCEPT !.selmon = sel]
<1>1. s \in State /\ s.nmon \in Mon /\ s.nmon \in Nat /\ n \in Nat /\ p \in Mon
      /\ p <= n
  BY StateFields, ConstantsAssumption DEF ListInv, Mon
<1>2. ASSUME n >= s.nmon
      PROVE  /\ ListInv(more) /\ more.nmon = n
             /\ \A c : In(more, c) <=> In(s, c)
  <2>1. more \in State
    BY <1>1, SetNMonType
  <2>2. /\ more.clients = s.clients /\ more.stack = s.stack
        /\ more.mon = s.mon /\ more.sel = s.sel /\ more.selmon = s.selmon
        /\ more.nmon = n
    BY <1>1 DEF State
  <2> HIDE DEF more
  <2>3. Connected(more)
    <3>1. s.selmon <= s.nmon /\ s.selmon \in Nat
      BY <1>1, StateFields, ConstantsAssumption DEF ListInv, Connected, Mon
    <3>2. \A i \in Mon : n < i => s.nmon < i
      BY <1>1, <1>2, ConstantsAssumption DEF Mon
    <3> QED BY <1>1, <1>2, <2>2, <3>1, <3>2 DEF ListInv, Connected
  <2> QED BY <2>1, <2>2, <2>3 DEF ListInv, Linked, Owned, In
<1>3. ASSUME ~(n >= s.nmon)
      PROVE  /\ ListInv(RemoveMons(s, s.nmon - n))
             /\ RemoveMons(s, s.nmon - n).nmon = n
             /\ \A c : In(RemoveMons(s, s.nmon - n), c) <=> In(s, c)
  <2> DEFINE k == s.nmon - n
  <2>1. k \in Nat /\ k < s.nmon /\ s.nmon - k = n
    BY <1>1, <1>3
  <2> HIDE DEF k
  <2>2. /\ ListInv(RemoveMons(s, k)) /\ RemoveMons(s, k).nmon = s.nmon - k
        /\ \A c : In(RemoveMons(s, k), c) <=> In(s, c)
    BY <2>1, RemoveMonsInv
  <2> QED BY <2>1, <2>2 DEF k
<1>4. ListInv(t) /\ t.nmon = n /\ \A c : In(t, c) <=> In(s, c)
  BY <1>2, <1>3
<1> HIDE DEF t, dirty
<1>5. sel \in Mon /\ sel <= n
  BY <1>1, <1>4, StateFields DEF ListInv, Connected
<1> HIDE DEF sel
<1>6. Reordered(t, Focus(u, NULL))
  BY <1>4, <1>5, SelectAndFocusInv
<1> HIDE DEF u
<1>7. Reordered(t, ArrangeAll(Focus(u, NULL)))
  BY <1>6, ArrangeInv, ReorderedTwice DEF Reordered
<1>8. \A c : In(ArrangeAll(Focus(u, NULL)), c) <=> In(s, c)
  BY <1>4, <1>7, ReorderedSameIn
<1> QED BY <1>7, <1>8 DEF Reordered, ConfigureNotify, u, sel, dirty, t, more

-----------------------------------------------------------------------------
(* Managed clients are those in the lists                                 *)

LEMMA ManagedIn ==
  ASSUME NEW s, ListInv(s), NEW c \in Client
  PROVE  /\ c \in Managed(s) => In(s, c)
         /\ c \notin Managed(s) => Out(s, c)
<1>1. s.nmon \in Mon /\ s.clients \in [Mon -> Seq(Client)]
  BY DEF ListInv, State
<1>2. \A m \in Mon : Contains(s.clients[m], c) <=> c \in ToSet(s.clients[m])
  BY <1>1, LenProperties DEF Contains, ToSet
<1>3. \A m \in Mons(s) : m \in Mon
  BY <1>1, ConstantsAssumption DEF Mons, Mon
<1>4. \A m \in Mon : m \in Mons(s) \/ s.nmon < m
  BY <1>1, ConstantsAssumption DEF Mons, Mon
<1>5. ASSUME c \in Managed(s)
      PROVE  In(s, c)
  BY <1>2, <1>3, <1>5, InOfMonitor DEF Managed
<1>6. ASSUME c \notin Managed(s)
      PROVE  Out(s, c)
  BY <1>2, <1>4, <1>6 DEF Managed, Out, ListInv, Connected
<1> QED BY <1>5, <1>6

\* A list without repetitions is injective in the sense of ListsAgree.
LEMMA ListInjective ==
  ASSUME NEW q, List(q)
  PROVE  IsInjective(q)
<1>1. q \in Seq(Client) /\ \A i, j \in 1 .. Len(q) : q[i] = q[j] => i = j
  BY ListFacts
<1>2. DOMAIN q = 1 .. Len(q)
  BY <1>1, LenProperties
<1> QED BY <1>1, <1>2 DEF IsInjective
=============================================================================
