---------------------------- MODULE HandlerTypes ----------------------------
(***************************************************************************)
(* Lemmas about the list operations and the shared helpers of DwmState,    *)
(* what they return, and that these helpers and all commands and event     *)
(* handlers of DwmHandlers map states to states.                           *)
(***************************************************************************)
EXTENDS DwmHandlers, SequenceTheorems, WellFoundedInduction, TLAPS

-----------------------------------------------------------------------------
(* The record                                                              *)

\* The fields of a state: what a proof that a handler leaves a field alone
\* needs to know of the record.
LEMMA StateDomain ==
  ASSUME NEW s \in State
  PROVE  DOMAIN s = {"nmon", "selmon", "combo", "xfocus", "focusin",
                     "motionmon", "clients", "stack", "sel", "tagset",
                     "seltags", "createtag", "remtagset", "remzoomed",
                     "zoomed", "lt", "sellt", "nmaster", "mon", "tags",
                     "isfloating", "isfullscreen", "oldstate", "isfixed",
                     "isurgent", "neverfocus", "isLeft", "shown", "gone",
                     "lost"}
BY SMTT(60) DEF State

-----------------------------------------------------------------------------
(* Least and greatest numbers                                              *)

\* A set of natural numbers has a least element.
LEMMA MinNat ==
  ASSUME NEW I \in SUBSET Nat, I # {}
  PROVE  Min(I) \in I /\ \A j \in I : Min(I) <= j
<1>1. PICK x \in I : \A y \in I : ~(<<y, x>> \in OpToRel(<, Nat))
  BY NatLessThanWellFounded, WFMin
<1>2. ASSUME NEW y \in I PROVE x =< y
  <2>1. y \in Nat /\ x \in Nat
    OBVIOUS
  <2>2. ~(y < x)
    BY <1>1, <2>1, Zenon DEF OpToRel
  <2> QED BY <2>1, <2>2, SMT
<1> QED BY <1>2 DEF Min

\* A bounded set of natural numbers has a greatest element.
LEMMA MaxNat ==
  ASSUME NEW n \in Nat, NEW I \in SUBSET (0 .. n), I # {}
  PROVE  Max(I) \in I /\ \A j \in I : j <= Max(I)
<1> DEFINE D == {n - i : i \in I}
<1>1. D \in SUBSET Nat
  <2>1. \A i \in I : n - i \in Nat
    OBVIOUS
  <2> QED BY <2>1
<1>1a. D # {}
  OBVIOUS
<1>2. PICK i \in I : Min(D) = n - i
  BY <1>1, <1>1a, MinNat
<1>3. \A j \in I : i >= j
  BY <1>1, <1>1a, <1>2, MinNat
<1> QED BY <1>3 DEF Max

\* Induction over 0..n, T being the set of the numbers that have the property.
LEMMA InductionUpTo ==
  ASSUME NEW n \in Nat, NEW T, 0 \in T,
         \A i \in 1 .. n : i - 1 \in T => i \in T
  PROVE  \A i \in 0 .. n : i \in T
<1> DEFINE bad == {i \in 0 .. n : i \notin T}
<1>1. SUFFICES ASSUME bad # {}
               PROVE  FALSE
  OBVIOUS
<1>2. bad \in SUBSET Nat
  OBVIOUS
<1>3. PICK k \in bad : \A j \in bad : k <= j
  BY <1>1, <1>2, MinNat
<1>4. k \in 1 .. n
  OBVIOUS
<1>5. k - 1 \in 0 .. n /\ ~(k <= k - 1)
  BY <1>4
<1>6. k - 1 \in T
  BY <1>3, <1>5
<1> QED BY <1>4, <1>6

-----------------------------------------------------------------------------
(* Searching                                                               *)

\* focusstack(), pushdown() and attachBelow() find the client they look for,
\* or nothing.
LEMMA IndexOfRange ==
  ASSUME NEW q \in Seq(Client), NEW c
  PROVE  /\ IndexOf(q, c) \in 0 .. Len(q)
         /\ IndexOf(q, c) # 0 => q[IndexOf(q, c)] = c
         /\ Contains(q, c) => IndexOf(q, c) # 0
<1> DEFINE I == {i \in 1 .. Len(q) : q[i] = c}
<1>1. IndexOf(q, c) = IF I # {} THEN Min(I) ELSE 0
  BY DEF IndexOf, SelectInSeq
<1>2. Len(q) \in Nat /\ I \in SUBSET Nat
  BY LenProperties
<1>3. I # {} => Min(I) \in I
  BY <1>2, MinNat
<1> QED BY <1>1, <1>2, <1>3 DEF Contains

LEMMA FirstVisibleType ==
  ASSUME NEW s, NEW q \in Seq(Client)
  PROVE  FirstVisible(s, q) \in ToSet(q) \cup {NULL}
<1> DEFINE I == {i \in 1 .. Len(q) : Visible(s, q[i])}
<1>1. FirstVisible(s, q) = At(q, IF I # {} THEN Min(I) ELSE 0)
  BY DEF FirstVisible, SelectInSeq
<1>2. Len(q) \in Nat /\ I \in SUBSET Nat /\ DOMAIN q = 1 .. Len(q)
  BY LenProperties
<1>3. I # {} => Min(I) \in I
  BY <1>2, MinNat
<1> QED BY <1>1, <1>2, <1>3 DEF At, ToSet

LEMMA NextTiledRange ==
  ASSUME NEW s, NEW q \in Seq(Client), NEW i \in 1 .. Len(q) + 1
  PROVE  NextTiled(s, q, i) \in {0} \cup i .. Len(q)
<1> DEFINE I == {j \in i .. Len(q) : Tiled(s, q[j])}
<1>1. NextTiled(s, q, i) = IF I # {} THEN Min(I) ELSE 0
  BY DEF NextTiled, SelectInSubSeq
<1>2. Len(q) \in Nat
  BY LenProperties
<1>2a. I \in SUBSET Nat
  BY <1>2
<1>3. I # {} => Min(I) \in I
  BY <1>2a, MinNat
<1> QED BY <1>1, <1>2, <1>3

-----------------------------------------------------------------------------
(* Sequences of clients                                                    *)

LEMMA ToSetOfSeq ==
  ASSUME NEW q \in Seq(Client)
  PROVE  ToSet(q) \subseteq Client
BY LenProperties, ElementOfSeq DEF ToSet

LEMMA ConsType ==
  ASSUME NEW q \in Seq(Client), NEW c \in Client
  PROVE  <<c>> \o q \in Seq(Client)
OBVIOUS

LEMMA SubSeqType ==
  ASSUME NEW q \in Seq(Client), NEW i \in Nat, NEW j \in Nat,
         i >= 1, j <= Len(q)
  PROVE  SubSeq(q, i, j) \in Seq(Client)
BY LenProperties, SubSeqProperties, ElementOfSeq

LEMMA RemoveAtType ==
  ASSUME NEW q \in Seq(Client), NEW i \in 0 .. Len(q)
  PROVE  /\ RemoveAt(q, i) \in Seq(Client)
         /\ Len(RemoveAt(q, i)) = IF i = 0 THEN Len(q) ELSE Len(q) - 1
<1>1. Len(q) \in Nat
  BY LenProperties
<1>2. /\ SubSeq(q, 1, i - 1) \in Seq(Client)
      /\ Len(SubSeq(q, 1, i - 1)) = IF i = 0 THEN 0 ELSE i - 1
  BY <1>1, SubSeqProperties, ElementOfSeq
<1>3. /\ SubSeq(q, i + 1, Len(q)) \in Seq(Client)
      /\ Len(SubSeq(q, i + 1, Len(q))) = Len(q) - i
  BY <1>1, SubSeqProperties, ElementOfSeq
<1> DEFINE a == SubSeq(q, 1, i - 1)
           b == SubSeq(q, i + 1, Len(q))
<1> HIDE DEF a, b
<1>4. /\ a \in Seq(Client) /\ b \in Seq(Client)
      /\ Len(a) = (IF i = 0 THEN 0 ELSE i - 1) /\ Len(b) = Len(q) - i
  BY <1>2, <1>3 DEF a, b
<1>5. a \o b \in Seq(Client) /\ Len(a \o b) = Len(a) + Len(b)
  BY <1>4, ConcatProperties
<1>6. Len(a \o b) = IF i = 0 THEN Len(q) ELSE Len(q) - 1
  BY <1>1, <1>4, <1>5
<1> QED BY <1>5, <1>6 DEF RemoveAt, a, b

-----------------------------------------------------------------------------
(* Recursive functions                                                     *)

\* f is the function on 0..n with values in S that starts with base and
\* continues as step says.
Recursion(f, S, n, base, step) ==
  /\ f \in [0 .. n -> S]
  /\ f[0] = base
  /\ \A i \in 1 .. n : f[i] = step[<<i, f[i - 1]>>]

\* A function defined by recursion on 0..n exists.
LEMMA RecursionExists ==
  ASSUME NEW S, NEW n \in Nat, NEW base \in S,
         NEW step \in [(1 .. n) \X S -> S]
  PROVE  \E f : Recursion(f, S, n, base, step)
<1> DEFINE T == {k \in 0 .. n : \E f : Recursion(f, S, k, base, step)}
<1>1. 0 \in T
  <2>1. Recursion([i \in 0 .. 0 |-> base], S, 0, base, step)
    BY DEF Recursion
  <2> QED BY <2>1
<1>2. ASSUME NEW k \in 1 .. n, k - 1 \in T
      PROVE  k \in T
  <2>1. PICK f : Recursion(f, S, k - 1, base, step)
    BY <1>2
  <2> DEFINE g == [i \in 0 .. k |->
                     IF i < k THEN f[i] ELSE step[<<k, f[k - 1]>>]]
  <2>2. step[<<k, f[k - 1]>>] \in S
    BY <2>1 DEF Recursion
  <2>3. g \in [0 .. k -> S]
    BY <2>1, <2>2 DEF Recursion
  <2>4. g[0] = base
    BY <2>1 DEF Recursion
  <2>5. ASSUME NEW i \in 1 .. k
        PROVE  g[i] = step[<<i, g[i - 1]>>]
    <3>1. CASE i = k
      <4>1. g[i] = step[<<k, f[k - 1]>>] /\ g[i - 1] = f[k - 1]
        BY <3>1
      <4> HIDE DEF g
      <4> QED BY <3>1, <4>1
    <3>2. CASE i # k
      <4>1. i \in 1 .. k - 1 /\ i < k
        BY <3>2
      <4>2. g[i] = f[i] /\ g[i - 1] = f[i - 1]
        BY <4>1
      <4> QED BY <2>1, <4>1, <4>2 DEF Recursion
    <3> QED BY <3>1, <3>2
  <2>6. Recursion(g, S, k, base, step)
    BY <2>3, <2>4, <2>5 DEF Recursion
  <2> QED BY <2>6
<1>3. \A k \in 0 .. n : k \in T
  <2> HIDE DEF T
  <2> QED BY <1>1, <1>2, InductionUpTo
<1> QED BY <1>3

\* kept[i] is what Keep() takes from the first i elements of q.
KeptSoFar(kept, q, S) ==
  /\ kept[0] = << >>
  /\ \A i \in 1 .. Len(q) :
       kept[i] = IF q[i] \in S THEN Append(kept[i - 1], q[i]) ELSE kept[i - 1]

\* Keep() scans the sequence from the front.
LEMMA KeepUnfolds ==
  ASSUME NEW q \in Seq(Client), NEW S
  PROVE  \E kept : Keep(q, S) = kept[Len(q)] /\ KeptSoFar(kept, q, S)
<1> DEFINE n == Len(q)
           Up(f) == f = [i \in 0 .. n |->
                           IF i = 0 THEN << >>
                           ELSE IF q[i] \in S THEN Append(f[i - 1], q[i])
                                              ELSE f[i - 1]]
           kept == CHOOSE f : Up(f)
<1>1. Keep(q, S) = kept[n]
  BY Zenon DEF Keep
<1>2. n \in Nat /\ \A i \in 1 .. n : q[i] \in Client
  BY LenProperties, ElementOfSeq
<1> HIDE DEF n
<1>3. \E f : Up(f)
  <2> DEFINE step == [p \in (1 .. n) \X Seq(Client) |->
                        IF q[p[1]] \in S THEN Append(p[2], q[p[1]]) ELSE p[2]]
  <2>1. ASSUME NEW p \in (1 .. n) \X Seq(Client)
        PROVE  (IF q[p[1]] \in S THEN Append(p[2], q[p[1]]) ELSE p[2]) \in Seq(Client)
    BY <1>2, AppendProperties
  <2>1a. step \in [(1 .. n) \X Seq(Client) -> Seq(Client)]
    BY <2>1
  <2> HIDE DEF step
  <2>1b. << >> \in Seq(Client)
    OBVIOUS
  <2>2. PICK f : Recursion(f, Seq(Client), n, << >>, step)
    BY <1>2, <2>1a, <2>1b, RecursionExists
  <2>3. \A i \in 0 .. n : i # 0 => f[i - 1] \in Seq(Client) /\ i \in 1 .. n
    BY <1>2, <2>2 DEF Recursion
  <2>4. Up(f)
    BY <2>2, <2>3 DEF Recursion, step
  <2> QED BY <2>4
<1>4. Up(kept)
  BY <1>3
<1>5. \A i \in 0 .. n :
         kept[i] = IF i = 0 THEN << >>
                   ELSE IF q[i] \in S THEN Append(kept[i - 1], q[i])
                                      ELSE kept[i - 1]
  BY <1>4, Zenon
<1> HIDE DEF kept
<1>6. kept[0] = << >>
  <2>1. 0 \in 0 .. n
    BY <1>2
  <2> QED BY <1>5, <2>1, Zenon
<1>7. \A i \in 1 .. n :
        kept[i] = IF q[i] \in S THEN Append(kept[i - 1], q[i]) ELSE kept[i - 1]
  <2>1. \A i \in 1 .. n : i \in 0 .. n /\ i # 0
    BY <1>2
  <2> QED BY <1>5, <2>1, Zenon
<1>8. KeptSoFar(kept, q, S)
  BY <1>6, <1>7 DEF KeptSoFar, n
<1> QED BY <1>1, <1>8 DEF n

LEMMA KeepType ==
  ASSUME NEW q \in Seq(Client), NEW S
  PROVE  Keep(q, S) \in Seq(Client)
<1> DEFINE n == Len(q)
<1>1. n \in Nat /\ \A i \in 1 .. n : q[i] \in Client
  BY LenProperties, ElementOfSeq
<1>2. PICK kept : Keep(q, S) = kept[n] /\ KeptSoFar(kept, q, S)
  BY KeepUnfolds
<1> DEFINE T == {i \in 0 .. n : kept[i] \in Seq(Client)}
<1>3. 0 \in T
  <2>1. kept[0] = << >>
    BY <1>2 DEF KeptSoFar
  <2>2. kept[0] \in Seq(Client)
    BY <2>1, EmptySeq
  <2> QED BY <1>1, <2>2
<1>4. ASSUME NEW i \in 1 .. n, i - 1 \in T
      PROVE  i \in T
  <2>1. kept[i] = IF q[i] \in S THEN Append(kept[i - 1], q[i]) ELSE kept[i - 1]
    BY <1>2 DEF KeptSoFar
  <2>2. kept[i - 1] \in Seq(Client) /\ q[i] \in Client /\ i \in 0 .. n
    BY <1>1, <1>4
  <2>3. Append(kept[i - 1], q[i]) \in Seq(Client)
    BY <2>2, AppendProperties
  <2>4. kept[i] \in Seq(Client)
    BY <2>1, <2>2, <2>3, Zenon
  <2> QED BY <2>2, <2>4
<1>5. \A i \in 0 .. n : i \in T
  <2> HIDE DEF T, n
  <2> QED BY <1>1, <1>3, <1>4, InductionUpTo
<1> QED BY <1>1, <1>2, <1>5

LEMMA InsertAtType ==
  ASSUME NEW q \in Seq(Client), NEW i \in 1 .. Len(q) + 1, NEW c \in Client
  PROVE  InsertAt(q, i, c) \in Seq(Client)
<1>1. Len(q) \in Nat
  BY LenProperties
<1>2. SubSeq(q, 1, i - 1) \in Seq(Client)
  BY <1>1, SubSeqProperties, ElementOfSeq
<1>3. SubSeq(q, i, Len(q)) \in Seq(Client)
  BY <1>1, SubSeqProperties, ElementOfSeq
<1>4. SubSeq(q, 1, i - 1) \o <<c>> \in Seq(Client)
  BY <1>2
<1> QED BY <1>3, <1>4 DEF InsertAt

LEMMA RemoveFirstType ==
  ASSUME NEW q \in Seq(Client), NEW c
  PROVE  RemoveFirst(q, c) \in Seq(Client)
<1>1. RemoveFirst(q, c) = IF \E i \in 1 .. Len(q) : q[i] = c
                          THEN RemoveAt(q, IndexOf(q, c)) ELSE q
  BY DEF RemoveFirst, IndexOf
<1> QED BY <1>1, IndexOfRange, RemoveAtType

-----------------------------------------------------------------------------
(* The types of the state's fields                                         *)

LEMMA ViewOfType ==
  ASSUME NEW s \in State, NEW m \in Mon
  PROVE  ViewOf(s, m) \in SUBSET Tag
BY DEF State, ViewOf

LEMMA DirToMonType ==
  ASSUME NEW s \in State, NEW dir
  PROVE  DirToMon(s, dir) \in Mon
<1>1. s.nmon \in Mon /\ s.selmon \in Mon
  BY DEF State
<1> QED BY <1>1, ConstantsAssumption DEF DirToMon, Mon

LEMMA InitialStateType ==
  ASSUME NEW n \in Mon, NEW m \in Mon
  PROVE  InitialState(n, m) \in State
<1>1. 0 \in Tag /\ 1 \in Mon /\ 0 \in Slot
  BY ConstantsAssumption DEF Tag, Mon, Slot
<1>2. << >> \in Seq(Client)
  OBVIOUS
<1>3. {0} \in SUBSET Tag /\ NULL \in ClientOrNull
  BY <1>1 DEF ClientOrNull
<1>4. \A k \in Slot : (IF k = 0 THEN "varcol" ELSE "monocle") \in Layout
  BY DEF Layout
<1> QED BY <1>1, <1>2, <1>3, <1>4 DEF InitialState, State

-----------------------------------------------------------------------------
(* The shared helpers map states to states                                 *)

LEMMA SetClientsType ==
  ASSUME NEW s \in State, NEW m \in Mon, NEW q \in Seq(Client)
  PROVE  [s EXCEPT !.clients[m] = q] \in State
BY ZenonT(60) DEF State

LEMMA AttachType ==
  ASSUME NEW s \in State, NEW c \in Client
  PROVE  Attach(s, c) \in State
<1>1. s.mon[c] \in Mon /\ s.clients[s.mon[c]] \in Seq(Client)
  BY DEF State
<1>2. <<c>> \o s.clients[s.mon[c]] \in Seq(Client)
  BY <1>1, ConsType
<1> QED BY <1>1, <1>2, ZenonT(60) DEF State, Attach

LEMMA AttachStackType ==
  ASSUME NEW s \in State, NEW c \in Client
  PROVE  AttachStack(s, c) \in State
<1>1. s.mon[c] \in Mon /\ s.stack[s.mon[c]] \in Seq(Client)
  BY DEF State
<1>2. <<c>> \o s.stack[s.mon[c]] \in Seq(Client)
  BY <1>1, ConsType
<1> QED BY <1>1, <1>2, ZenonT(60) DEF State, AttachStack

LEMMA AttachBelowType ==
  ASSUME NEW s \in State, NEW c \in Client
  PROVE  AttachBelow(s, c) \in State
<1> DEFINE m == s.mon[c]
           q == s.clients[m]
           i == IndexOf(q, s.sel[m]) + 1
<1>1. m \in Mon /\ q \in Seq(Client)
  BY DEF State
<1>2. i \in 1 .. Len(q) + 1
  BY <1>1, IndexOfRange, LenProperties
<1>3. InsertAt(q, i, c) \in Seq(Client)
  BY <1>1, <1>2, InsertAtType
<1>4. [s EXCEPT !.clients[m] = InsertAt(q, i, c)] \in State
  BY <1>1, <1>3, SetClientsType
<1> QED BY <1>4, AttachType DEF AttachBelow

LEMMA DetachType ==
  ASSUME NEW s \in State, NEW c \in Client
  PROVE  Detach(s, c) \in State
<1>1. s.mon[c] \in Mon /\ s.clients[s.mon[c]] \in Seq(Client)
  BY DEF State
<1>2. RemoveFirst(s.clients[s.mon[c]], c) \in Seq(Client)
  BY <1>1, RemoveFirstType
<1> QED BY <1>1, <1>2, ZenonT(60) DEF State, Detach

LEMMA DetachStackType ==
  ASSUME NEW s \in State, NEW c \in Client
  PROVE  DetachStack(s, c) \in State
<1> DEFINE m == s.mon[c]
           rest == RemoveFirst(s.stack[m], c)
           sel == IF s.sel[m] = c THEN FirstVisible(s, rest) ELSE s.sel[m]
<1>1. m \in Mon /\ s.stack[m] \in Seq(Client) /\ s.sel[m] \in ClientOrNull
  BY DEF State
<1>2. rest \in Seq(Client)
  BY <1>1, RemoveFirstType
<1>3. sel \in ClientOrNull
  BY <1>1, <1>2, FirstVisibleType, ToSetOfSeq DEF ClientOrNull
<1> HIDE DEF rest, sel
<1>4. [s EXCEPT !.stack[m] = rest, !.sel[m] = sel] \in State
  BY <1>1, <1>2, <1>3, ZenonT(60) DEF State
<1> QED BY <1>4 DEF DetachStack, rest, sel

LEMMA SetFocusType ==
  ASSUME NEW s \in State, NEW c \in Client
  PROVE  SetFocus(s, c) \in State
<1>1. c \in ClientOrNull
  BY DEF ClientOrNull
<1> QED BY <1>1, ZenonT(60) DEF State, SetFocus

LEMMA UnfocusType ==
  ASSUME NEW s \in State, NEW c
  PROVE  Unfocus(s, c) \in State
<1>1. NULL \in ClientOrNull
  BY DEF ClientOrNull
<1> QED BY <1>1, ZenonT(60) DEF State, Unfocus

LEMMA FocusType ==
  ASSUME NEW s \in State, NEW want \in ClientOrNull
  PROVE  Focus(s, want) \in State
<1> DEFINE c == IF want # NULL /\ Visible(s, want)
                THEN want ELSE FirstVisible(s, s.stack[s.selmon])
           none == [s EXCEPT !.xfocus = NULL, !.sel[s.selmon] = NULL]
           u == [s EXCEPT !.selmon = s.mon[c], !.isurgent[c] = FALSE]
           v == SetFocus(AttachStack(DetachStack(u, c), c), c)
<1>1. s.selmon \in Mon /\ s.stack[s.selmon] \in Seq(Client)
  BY DEF State
<1>2. c \in ClientOrNull
  BY <1>1, FirstVisibleType, ToSetOfSeq DEF ClientOrNull
<1>3. none \in State
  <2>1. NULL \in ClientOrNull
    BY DEF ClientOrNull
  <2> QED BY <1>1, <2>1, ZenonT(60) DEF State
<1> HIDE DEF c, none
<1>4. ASSUME c # NULL
      PROVE  [v EXCEPT !.sel[v.selmon] = c] \in State
  <2>1. c \in Client /\ s.mon[c] \in Mon
    BY <1>2, <1>4 DEF ClientOrNull, State
  <2>2. u \in State
    BY <2>1, ZenonT(60) DEF State
  <2> HIDE DEF u
  <2>3. v \in State
    BY <2>1, <2>2, DetachStackType, AttachStackType, SetFocusType
  <2> HIDE DEF v
  <2>4. v.selmon \in Mon
    BY <2>3 DEF State
  <2> QED BY <1>2, <2>3, <2>4, ZenonT(60) DEF State
<1> QED BY <1>3, <1>4 DEF Focus, c, none

LEMMA VisibleType ==
  ASSUME NEW s, NEW c
  PROVE  Visible(s, c) \in BOOLEAN
BY DEF Visible

LEMMA ShowHideType ==
  ASSUME NEW s \in State, NEW ms
  PROVE  ShowHide(s, ms) \in State
<1> DEFINE shown == [c \in Client |->
                       IF \E m \in ms : Contains(s.stack[m], c)
                       THEN Visible(s, c) ELSE s.shown[c]]
<1>1. s.shown \in [Client -> BOOLEAN]
  BY DEF State
<1>2. shown \in [Client -> BOOLEAN]
  BY <1>1, VisibleType
<1> HIDE DEF shown
<1>3. [s EXCEPT !.shown = shown] \in State
  BY <1>2, ZenonT(60) DEF State
<1> QED BY <1>3 DEF ShowHide, shown

LEMMA VarColType ==
  ASSUME NEW s \in State, NEW m \in Mon
  PROVE  VarCol(s, m) \in Seq(Client)
<1>1. s.clients[m] \in Seq(Client)
  BY DEF State
<1> QED BY <1>1, KeepType, ConcatProperties DEF VarCol

LEMMA ArrangeMonType ==
  ASSUME NEW s \in State, NEW ms
  PROVE  ArrangeMon(s, ms) \in State
<1> DEFINE clients == [m \in Mon |->
                         IF m \in ms /\ s.lt[m][s.sellt[m]] = "varcol"
                         THEN VarCol(s, m) ELSE s.clients[m]]
<1>1. s.clients \in [Mon -> Seq(Client)]
  BY DEF State
<1>2. clients \in [Mon -> Seq(Client)]
  BY <1>1, VarColType
<1> HIDE DEF clients
<1>3. [s EXCEPT !.clients = clients] \in State
  BY <1>2, ZenonT(60) DEF State
<1> QED BY <1>3 DEF ArrangeMon, clients

LEMMA ArrangeType ==
  ASSUME NEW s \in State, NEW m
  PROVE  Arrange(s, m) \in State /\ ArrangeAll(s) \in State
BY ShowHideType, ArrangeMonType DEF Arrange, ArrangeAll

LEMMA PopType ==
  ASSUME NEW s \in State, NEW c \in Client
  PROVE  Pop(s, c) \in State
<1>1. Focus(Attach(Detach(s, c), c), c) \in State
  BY DetachType, AttachType, FocusType DEF ClientOrNull
<1> QED BY <1>1, ArrangeType DEF Pop

LEMMA SetFullscreenFieldsType ==
  ASSUME NEW s \in State, NEW c \in Client, NEW float \in BOOLEAN
  PROVE  /\ [s EXCEPT !.isfullscreen[c] = TRUE, !.oldstate[c] = float,
                      !.isfloating[c] = TRUE, !.shown[c] = TRUE] \in State
         /\ [s EXCEPT !.isfullscreen[c] = FALSE, !.isfloating[c] = float,
                      !.shown[c] = TRUE] \in State
<1>1. [s EXCEPT !.isfullscreen[c] = TRUE, !.oldstate[c] = float,
                !.isfloating[c] = TRUE, !.shown[c] = TRUE] \in State
  BY ZenonT(60) DEF State
<1>2. [s EXCEPT !.isfullscreen[c] = FALSE, !.isfloating[c] = float,
                !.shown[c] = TRUE] \in State
  BY ZenonT(60) DEF State
<1> QED BY <1>1, <1>2

LEMMA SetFullscreenType ==
  ASSUME NEW s \in State, NEW c \in Client, NEW on \in BOOLEAN
  PROVE  SetFullscreen(s, c, on) \in State
<1>1. s.isfloating[c] \in BOOLEAN /\ s.oldstate[c] \in BOOLEAN
  BY DEF State
<1>2. [s EXCEPT !.isfullscreen[c] = TRUE, !.oldstate[c] = s.isfloating[c],
                !.isfloating[c] = TRUE, !.shown[c] = TRUE] \in State
  BY <1>1, SetFullscreenFieldsType
<1>3. [s EXCEPT !.isfullscreen[c] = FALSE, !.isfloating[c] = s.oldstate[c],
                !.shown[c] = TRUE] \in State
  BY <1>1, SetFullscreenFieldsType
<1> QED BY <1>2, <1>3, ArrangeType DEF SetFullscreen

-----------------------------------------------------------------------------
(* Lists: what an operation does to the clients a list holds. It stays free *)
(* of duplicates and gains or loses exactly one client.                     *)

\* A list without duplicates.
List(q) == q \in Seq(Client) /\ IsInjective(q)

LEMMA ListFacts ==
  ASSUME NEW q, List(q)
  PROVE  /\ q \in Seq(Client) /\ Len(q) \in Nat
         /\ ToSet(q) = {q[i] : i \in 1 .. Len(q)}
         /\ \A i \in 1 .. Len(q) : q[i] \in Client
         /\ \A i, j \in 1 .. Len(q) : q[i] = q[j] => i = j
<1>1. q \in Seq(Client) /\ DOMAIN q = 1 .. Len(q) /\ Len(q) \in Nat
  BY LenProperties DEF List
<1>2. \A i \in 1 .. Len(q) : q[i] \in Client
  BY <1>1, ElementOfSeq
<1> QED BY <1>1, <1>2 DEF List, IsInjective, ToSet

\* The elements of a sequence by their indices, and what makes it a list.
LEMMA ListByIndex ==
  ASSUME NEW q \in Seq(Client),
         \A i, j \in 1 .. Len(q) : q[i] = q[j] => i = j
  PROVE  List(q) /\ ToSet(q) = {q[i] : i \in 1 .. Len(q)}
<1>1. DOMAIN q = 1 .. Len(q)
  BY LenProperties
<1> QED BY <1>1 DEF List, IsInjective, ToSet

LEMMA EmptyList == List(<< >>) /\ ToSet(<< >>) = {}
<1> DEFINE e == << >>
<1>1. e \in Seq(Client) /\ Len(e) = 0
  BY EmptySeq
<1> HIDE DEF e
<1>2. \A i \in 1 .. Len(e) : FALSE
  BY <1>1
<1>3. List(e) /\ ToSet(e) = {e[i] : i \in 1 .. Len(e)}
  BY <1>1, <1>2, ListByIndex
<1> QED BY <1>2, <1>3 DEF e

\* Two lists without a common client, one after the other.
LEMMA ConcatList ==
  ASSUME NEW p, NEW q, List(p), List(q), ToSet(p) \cap ToSet(q) = {}
  PROVE  List(p \o q) /\ ToSet(p \o q) = ToSet(p) \cup ToSet(q)
<1> DEFINE r == p \o q
<1>1. /\ p \in Seq(Client) /\ q \in Seq(Client)
      /\ Len(p) \in Nat /\ Len(q) \in Nat
  BY ListFacts
<1>2. /\ r \in Seq(Client) /\ Len(r) = Len(p) + Len(q)
      /\ \A i \in 1 .. Len(p) + Len(q) :
           r[i] = IF i <= Len(p) THEN p[i] ELSE q[i - Len(p)]
  BY <1>1, ConcatProperties
<1> HIDE DEF r
<1>3. \A i \in 1 .. Len(r) :
        \/ i \in 1 .. Len(p) /\ r[i] = p[i]
        \/ i - Len(p) \in 1 .. Len(q) /\ r[i] = q[i - Len(p)]
  BY <1>1, <1>2
<1>4. ASSUME NEW i \in 1 .. Len(p), NEW j \in 1 .. Len(q)
      PROVE  p[i] # q[j]
  <2>1. p[i] \in ToSet(p) /\ q[j] \in ToSet(q)
    BY ListFacts
  <2> QED BY <2>1
<1>5. ASSUME NEW i \in 1 .. Len(r), NEW j \in 1 .. Len(r), r[i] = r[j]
      PROVE  i = j
  <2>1. CASE i <= Len(p) /\ j <= Len(p)
    <3>1. i \in 1 .. Len(p) /\ j \in 1 .. Len(p) /\ p[i] = p[j]
      BY <1>1, <1>2, <1>5, <2>1
    <3> QED BY <3>1, ListFacts
  <2>2. CASE i > Len(p) /\ j > Len(p)
    <3>1. /\ i - Len(p) \in 1 .. Len(q) /\ j - Len(p) \in 1 .. Len(q)
          /\ q[i - Len(p)] = q[j - Len(p)]
      BY <1>1, <1>2, <1>5, <2>2
    <3>2. i - Len(p) = j - Len(p)
      BY <3>1, ListFacts
    <3> QED BY <1>1, <1>2, <3>2
  <2>3. CASE i <= Len(p) /\ j > Len(p)
    <3>1. i \in 1 .. Len(p) /\ r[i] = p[i]
      BY <1>1, <1>2, <2>3
    <3>2. j - Len(p) \in 1 .. Len(q) /\ r[j] = q[j - Len(p)]
      BY <1>1, <1>2, <2>3
    <3> QED BY <1>4, <1>5, <3>1, <3>2
  <2>4. CASE i > Len(p) /\ j <= Len(p)
    <3>1. j \in 1 .. Len(p) /\ r[j] = p[j]
      BY <1>1, <1>2, <2>4
    <3>2. i - Len(p) \in 1 .. Len(q) /\ r[i] = q[i - Len(p)]
      BY <1>1, <1>2, <2>4
    <3> QED BY <1>4, <1>5, <3>1, <3>2
  <2> QED BY <1>1, <1>2, <2>1, <2>2, <2>3, <2>4
<1>6. List(r) /\ ToSet(r) = {r[i] : i \in 1 .. Len(r)}
  BY <1>2, <1>5, ListByIndex
<1>7. ToSet(r) \subseteq ToSet(p) \cup ToSet(q)
  BY <1>3, <1>6, ListFacts
<1>8. ASSUME NEW c \in ToSet(p)
      PROVE  c \in ToSet(r)
  <2>1. PICK i \in 1 .. Len(p) : c = p[i]
    BY ListFacts
  <2>2. i \in 1 .. Len(r) /\ r[i] = c
    BY <1>1, <1>2, <2>1
  <2> QED BY <1>6, <2>2
<1>9. ASSUME NEW c \in ToSet(q)
      PROVE  c \in ToSet(r)
  <2>1. PICK j \in 1 .. Len(q) : c = q[j]
    BY ListFacts
  <2>2. Len(p) + j \in 1 .. Len(r) /\ r[Len(p) + j] = c
    BY <1>1, <1>2, <2>1
  <2> QED BY <1>6, <2>2
<1> QED BY <1>6, <1>7, <1>8, <1>9 DEF r

LEMMA SingleList ==
  ASSUME NEW c \in Client
  PROVE  List(<<c>>) /\ ToSet(<<c>>) = {c}
<1> DEFINE e == <<c>>
<1>1. e \in Seq(Client) /\ Len(e) = 1 /\ e[1] = c
  OBVIOUS
<1> HIDE DEF e
<1>2. \A i \in 1 .. Len(e) : i = 1
  BY <1>1
<1>3. List(e) /\ ToSet(e) = {e[i] : i \in 1 .. Len(e)}
  BY <1>1, <1>2, ListByIndex
<1> QED BY <1>1, <1>2, <1>3 DEF e

\* A part of a list.
LEMMA SubList ==
  ASSUME NEW q, List(q), NEW a \in Nat, NEW b \in Nat, 1 <= a, b <= Len(q)
  PROVE  /\ List(SubSeq(q, a, b))
         /\ ToSet(SubSeq(q, a, b)) = {q[i] : i \in a .. b}
<1> DEFINE r == SubSeq(q, a, b)
<1>1. \A i \in a .. b : i \in 1 .. Len(q) /\ q[i] \in Client
  BY ListFacts
<1>2. /\ r \in Seq(Client)
      /\ Len(r) = IF a <= b THEN b - a + 1 ELSE 0
      /\ \A i \in 1 .. b - a + 1 : r[i] = q[a + i - 1]
  BY <1>1, SubSeqProperties
<1> HIDE DEF r
<1>3. \A i \in 1 .. Len(r) : a + i - 1 \in a .. b /\ r[i] = q[a + i - 1]
  BY <1>2
<1>4. ASSUME NEW i \in 1 .. Len(r), NEW j \in 1 .. Len(r), r[i] = r[j]
      PROVE  i = j
  <2>1. q[a + i - 1] = q[a + j - 1]
    BY <1>3, <1>4
  <2>2. a + i - 1 \in 1 .. Len(q) /\ a + j - 1 \in 1 .. Len(q)
    BY <1>1, <1>3
  <2>3. a + i - 1 = a + j - 1
    BY <2>1, <2>2, ListFacts
  <2> QED BY <2>3
<1>5. List(r) /\ ToSet(r) = {r[i] : i \in 1 .. Len(r)}
  BY <1>2, <1>4, ListByIndex
<1>6. ToSet(r) \subseteq {q[i] : i \in a .. b}
  BY <1>3, <1>5
<1>7. ASSUME NEW i \in a .. b
      PROVE  q[i] \in ToSet(r)
  <2>1. i - a + 1 \in 1 .. Len(r) /\ r[i - a + 1] = q[i]
    BY <1>2
  <2> QED BY <1>5, <2>1
<1> QED BY <1>5, <1>6, <1>7 DEF r

-----------------------------------------------------------------------------
(* Linking and unlinking a client                                          *)

\* attach() and attachstack().
LEMMA ConsList ==
  ASSUME NEW q, List(q), NEW c \in Client, c \notin ToSet(q)
  PROVE  List(<<c>> \o q) /\ ToSet(<<c>> \o q) = ToSet(q) \cup {c}
<1> DEFINE e == <<c>>
<1>1. List(e) /\ ToSet(e) = {c}
  BY SingleList
<1> HIDE DEF e
<1>2. List(e \o q) /\ ToSet(e \o q) = ToSet(e) \cup ToSet(q)
  BY <1>1, ConcatList
<1> QED BY <1>1, <1>2 DEF e

\* The lists before index i and from index i on have no client in common and
\* together hold those of the whole list.
LEMMA SplitList ==
  ASSUME NEW q, List(q), NEW i \in 1 .. Len(q) + 1
  PROVE  /\ List(SubSeq(q, 1, i - 1)) /\ List(SubSeq(q, i, Len(q)))
         /\ ToSet(SubSeq(q, 1, i - 1)) \cap ToSet(SubSeq(q, i, Len(q))) = {}
         /\ ToSet(SubSeq(q, 1, i - 1)) \cup ToSet(SubSeq(q, i, Len(q)))
              = ToSet(q)
<1>1. Len(q) \in Nat
  BY ListFacts
<1>2. /\ List(SubSeq(q, 1, i - 1))
      /\ ToSet(SubSeq(q, 1, i - 1)) = {q[j] : j \in 1 .. i - 1}
  BY <1>1, SubList
<1>3. /\ List(SubSeq(q, i, Len(q)))
      /\ ToSet(SubSeq(q, i, Len(q))) = {q[j] : j \in i .. Len(q)}
  BY <1>1, SubList
<1>4. \A j \in 1 .. i - 1, k \in i .. Len(q) :
        j \in 1 .. Len(q) /\ k \in 1 .. Len(q) /\ j # k
  BY <1>1
<1>5. {q[j] : j \in 1 .. i - 1} \cap {q[j] : j \in i .. Len(q)} = {}
  BY <1>4, ListFacts
<1>6. 1 .. Len(q) = (1 .. i - 1) \cup (i .. Len(q))
  BY <1>1
<1>7. {q[j] : j \in 1 .. i - 1} \cup {q[j] : j \in i .. Len(q)} = ToSet(q)
  BY <1>6, ListFacts
<1> QED BY <1>2, <1>3, <1>5, <1>7

\* attachBelow(), pushdown() and pushup().
LEMMA InsertAtList ==
  ASSUME NEW q, List(q), NEW i \in 1 .. Len(q) + 1,
         NEW c \in Client, c \notin ToSet(q)
  PROVE  List(InsertAt(q, i, c)) /\ ToSet(InsertAt(q, i, c)) = ToSet(q) \cup {c}
<1> DEFINE a == SubSeq(q, 1, i - 1)
           b == SubSeq(q, i, Len(q))
           e == <<c>>
<1>1. /\ List(a) /\ List(b) /\ ToSet(a) \cap ToSet(b) = {}
      /\ ToSet(a) \cup ToSet(b) = ToSet(q)
  BY SplitList
<1>2. List(e) /\ ToSet(e) = {c}
  BY SingleList
<1>3. InsertAt(q, i, c) = (a \o e) \o b
  BY DEF InsertAt
<1> HIDE DEF a, b, e
<1>4. List(a \o e) /\ ToSet(a \o e) = ToSet(a) \cup {c}
  BY <1>1, <1>2, ConcatList
<1> DEFINE f == a \o e
<1> HIDE DEF f
<1>5. List(f) /\ ToSet(f) \cap ToSet(b) = {}
  BY <1>1, <1>4 DEF f
<1>6. List(f \o b) /\ ToSet(f \o b) = ToSet(f) \cup ToSet(b)
  BY <1>1, <1>5, ConcatList
<1> QED BY <1>1, <1>3, <1>4, <1>6 DEF f

LEMMA RemoveAtList ==
  ASSUME NEW q, List(q), NEW i \in 1 .. Len(q)
  PROVE  List(RemoveAt(q, i)) /\ ToSet(RemoveAt(q, i)) = ToSet(q) \ {q[i]}
<1> DEFINE a == SubSeq(q, 1, i - 1)
           b == SubSeq(q, i + 1, Len(q))
<1>1. Len(q) \in Nat
  BY ListFacts
<1>2. List(a) /\ ToSet(a) = {q[j] : j \in 1 .. i - 1}
  BY <1>1, SubList
<1>3. List(b) /\ ToSet(b) = {q[j] : j \in i + 1 .. Len(q)}
  BY <1>1, SubList
<1>4. \A j \in 1 .. i - 1, k \in i + 1 .. Len(q) :
        j \in 1 .. Len(q) /\ k \in 1 .. Len(q) /\ j # k
  BY <1>1
<1>5. ToSet(a) \cap ToSet(b) = {}
  <2>1. \A j \in 1 .. i - 1, k \in i + 1 .. Len(q) : q[j] # q[k]
    BY <1>4, ListFacts
  <2> QED BY <1>2, <1>3, <2>1
<1>6. ToSet(a) \cup ToSet(b) = ToSet(q) \ {q[i]}
  <2>1. 1 .. Len(q) = (1 .. i - 1) \cup (i + 1 .. Len(q)) \cup {i}
    BY <1>1
  <2>2. \A j \in (1 .. i - 1) \cup (i + 1 .. Len(q)) :
          j \in 1 .. Len(q) /\ j # i
    BY <1>1
  <2>3. \A j \in (1 .. i - 1) \cup (i + 1 .. Len(q)) : q[j] # q[i]
    BY <2>2, ListFacts
  <2>4. ToSet(q) = {q[j] : j \in 1 .. Len(q)}
    BY ListFacts
  <2> QED BY <1>2, <1>3, <2>1, <2>3, <2>4
<1>7. RemoveAt(q, i) = a \o b
  BY DEF RemoveAt
<1> HIDE DEF a, b
<1>8. List(a \o b) /\ ToSet(a \o b) = ToSet(a) \cup ToSet(b)
  BY <1>2, <1>3, <1>5, ConcatList
<1> QED BY <1>6, <1>7, <1>8

\* detach() and detachstack().
LEMMA RemoveFirstList ==
  ASSUME NEW q, List(q), NEW c
  PROVE  List(RemoveFirst(q, c)) /\ ToSet(RemoveFirst(q, c)) = ToSet(q) \ {c}
<1>1. RemoveFirst(q, c) = IF \E i \in 1 .. Len(q) : q[i] = c
                          THEN RemoveAt(q, IndexOf(q, c)) ELSE q
  BY DEF RemoveFirst, IndexOf
<1>2. q \in Seq(Client) /\ ToSet(q) = {q[i] : i \in 1 .. Len(q)}
      /\ Len(q) \in Nat
  BY ListFacts
<1>3. CASE \E i \in 1 .. Len(q) : q[i] = c
  <2>1. Contains(q, c)
    BY <1>3 DEF Contains
  <2>2. IndexOf(q, c) \in 1 .. Len(q) /\ q[IndexOf(q, c)] = c
    BY <1>2, <2>1, IndexOfRange
  <2> QED BY <1>1, <1>3, <2>2, RemoveAtList
<1>4. CASE ~ \E i \in 1 .. Len(q) : q[i] = c
  <2>1. c \notin ToSet(q)
    BY <1>2, <1>4
  <2> QED BY <1>1, <1>4, <2>1
<1> QED BY <1>3, <1>4

\* varcol() relinks the left clients behind the others.
LEMMA KeepList ==
  ASSUME NEW q, List(q), NEW S
  PROVE  List(Keep(q, S)) /\ ToSet(Keep(q, S)) = ToSet(q) \cap S
<1> DEFINE n == Len(q)
<1>1. /\ q \in Seq(Client) /\ n \in Nat
      /\ \A i \in 1 .. n : q[i] \in Client
      /\ \A i, j \in 1 .. n : q[i] = q[j] => i = j
      /\ ToSet(q) = {q[i] : i \in 1 .. n}
  BY ListFacts
<1>2. PICK kept : Keep(q, S) = kept[n] /\ KeptSoFar(kept, q, S)
  BY <1>1, KeepUnfolds
<1> DEFINE Good(i) == List(kept[i]) /\ ToSet(kept[i]) = {q[j] : j \in 1 .. i} \cap S
           T == {i \in 0 .. n : Good(i)}
<1>3. 0 \in T
  <2>1. {q[j] : j \in 1 .. 0} = {}
    OBVIOUS
  <2>2. kept[0] = << >>
    BY <1>2 DEF KeptSoFar
  <2> QED BY <1>1, <2>1, <2>2, EmptyList
<1>4. ASSUME NEW i \in 1 .. n, i - 1 \in T
      PROVE  i \in T
  <2>1. kept[i] = IF q[i] \in S THEN Append(kept[i - 1], q[i]) ELSE kept[i - 1]
    BY <1>2 DEF KeptSoFar
  <2>2. Good(i - 1) /\ i \in 0 .. n
    BY <1>1, <1>4
  <2>3. {q[j] : j \in 1 .. i} = {q[j] : j \in 1 .. i - 1} \cup {q[i]}
    <3>1. 1 .. i = (1 .. i - 1) \cup {i}
      BY <1>1
    <3> QED BY <3>1
  <2>4. q[i] \notin ToSet(kept[i - 1])
    <3>1. \A j \in 1 .. i - 1 : j \in 1 .. n /\ j # i
      BY <1>1
    <3>2. \A j \in 1 .. i - 1 : q[j] # q[i]
      BY <1>1, <3>1
    <3> QED BY <2>2, <3>2
  <2>5. ASSUME q[i] \in S
        PROVE  Good(i)
    <3> DEFINE e == <<q[i]>>
               p == kept[i - 1]
    <3>1. List(e) /\ ToSet(e) = {q[i]}
      BY <1>1, SingleList
    <3>2. List(p) /\ p \in Seq(Client) /\ q[i] \in Client
      BY <1>1, <2>2 DEF List
    <3>3. kept[i] = p \o e
      BY <2>1, <2>5, <3>2, AppendIsConcat
    <3> HIDE DEF e, p
    <3>4. ToSet(p) \cap ToSet(e) = {}
      BY <2>4, <3>1 DEF p
    <3>5. List(p \o e) /\ ToSet(p \o e) = ToSet(p) \cup ToSet(e)
      BY <3>1, <3>2, <3>4, ConcatList
    <3> QED BY <2>2, <2>3, <2>5, <3>1, <3>3, <3>5 DEF p
  <2>6. ASSUME q[i] \notin S
        PROVE  Good(i)
    BY <2>1, <2>2, <2>3, <2>6
  <2> QED BY <2>2, <2>5, <2>6
<1>5. \A i \in 0 .. n : i \in T
  <2> HIDE DEF T, n
  <2> QED BY <1>1, <1>3, <1>4, InductionUpTo
<1>6. Good(n)
  BY <1>1, <1>5
<1> QED BY <1>1, <1>2, <1>6

-----------------------------------------------------------------------------
(* Taking lists apart                                                      *)

LEMMA SubSeqElements ==
  ASSUME NEW q \in Seq(Client), NEW i \in Nat, NEW j \in Nat,
         i >= 1, j <= Len(q), i <= j + 1
  PROVE  /\ SubSeq(q, i, j) \in Seq(Client) /\ Len(SubSeq(q, i, j)) = j + 1 - i
         /\ \A k \in 1 .. j + 1 - i : SubSeq(q, i, j)[k] = q[i + k - 1]
<1>1. Len(q) \in Nat
  BY LenProperties
<1>2. SubSeq(q, i, j) \in Seq(Client)
  BY SubSeqType
<1> QED BY <1>1, <1>2, SubSeqProperties

\* The clients of q without the one at index i.
LEMMA RemoveAtElements ==
  ASSUME NEW q \in Seq(Client), NEW i \in 1 .. Len(q)
  PROVE  /\ Len(RemoveAt(q, i)) = Len(q) - 1
         /\ \A k \in 1 .. i - 1 : RemoveAt(q, i)[k] = q[k]
         /\ \A k \in i .. Len(q) - 1 : RemoveAt(q, i)[k] = q[k + 1]
<1> DEFINE a == SubSeq(q, 1, i - 1)
           b == SubSeq(q, i + 1, Len(q))
<1>1. Len(q) \in Nat /\ i \in Nat /\ i >= 1 /\ i <= Len(q)
  BY LenProperties
<1>2. /\ a \in Seq(Client) /\ Len(a) = i - 1
      /\ \A k \in 1 .. i - 1 : a[k] = q[k]
  <2>1. i - 1 \in Nat /\ 1 \in Nat /\ i - 1 <= Len(q) /\ 1 <= (i - 1) + 1
        /\ (i - 1) + 1 - 1 = i - 1 /\ \A k \in 1 .. i - 1 : 1 + k - 1 = k
    BY <1>1
  <2> QED BY <2>1, SubSeqElements
<1>3. /\ b \in Seq(Client) /\ Len(b) = Len(q) - i
      /\ \A k \in 1 .. Len(q) - i : b[k] = q[i + k]
  <2>1. i + 1 \in Nat /\ i + 1 >= 1 /\ i + 1 <= Len(q) + 1
        /\ Len(q) + 1 - (i + 1) = Len(q) - i
        /\ \A k \in 1 .. Len(q) - i : (i + 1) + k - 1 = i + k
    BY <1>1
  <2> QED BY <1>1, <2>1, SubSeqElements
<1>4. RemoveAt(q, i) = a \o b
  BY DEF RemoveAt
<1> HIDE DEF a, b
<1>5. /\ Len(a \o b) = Len(a) + Len(b)
      /\ \A k \in 1 .. Len(a) + Len(b) :
           (a \o b)[k] = IF k <= Len(a) THEN a[k] ELSE b[k - Len(a)]
  BY <1>2, <1>3, ConcatProperties
<1>6. Len(a \o b) = Len(q) - 1
  BY <1>1, <1>2, <1>3, <1>5
<1>7. ASSUME NEW k \in 1 .. i - 1
      PROVE  (a \o b)[k] = q[k]
  BY <1>1, <1>2, <1>3, <1>5, <1>7
<1>8. ASSUME NEW k \in i .. Len(q) - 1
      PROVE  (a \o b)[k] = q[k + 1]
  <2>1. k \in 1 .. Len(a) + Len(b) /\ ~(k <= Len(a))
        /\ k - Len(a) = k - i + 1 /\ k - i + 1 \in 1 .. Len(q) - i
        /\ i + (k - i + 1) = k + 1
    BY <1>1, <1>2, <1>3
  <2> QED BY <1>3, <1>5, <2>1
<1> QED BY <1>4, <1>6, <1>7, <1>8

\* What Keep() takes from two sequences, one after the other.
LEMMA KeepConcat ==
  ASSUME NEW p \in Seq(Client), NEW q \in Seq(Client), NEW S
  PROVE  Keep(p \o q, S) = Keep(p, S) \o Keep(q, S)
<1> DEFINE r == p \o q
           m == Len(p)
           n == Len(q)
<1>1. /\ m \in Nat /\ n \in Nat /\ r \in Seq(Client) /\ Len(r) = m + n
      /\ \A i \in 1 .. m + n : r[i] = IF i <= m THEN p[i] ELSE q[i - m]
      /\ \A i \in 1 .. n : q[i] \in Client
  BY LenProperties, ConcatProperties, ElementOfSeq
<1> HIDE DEF r
<1>2. PICK kp : Keep(p, S) = kp[m] /\ KeptSoFar(kp, p, S)
  BY KeepUnfolds
<1>3. PICK kq : Keep(q, S) = kq[n] /\ KeptSoFar(kq, q, S)
  BY KeepUnfolds
<1>4. PICK kr : Keep(r, S) = kr[Len(r)] /\ KeptSoFar(kr, r, S)
  BY <1>1, KeepUnfolds
<1> HIDE DEF m, n
<1>5. \A i \in 0 .. m : kr[i] = kp[i]
  <2> DEFINE T == {i \in 0 .. m : kr[i] = kp[i]}
  <2>1. 0 \in T
    BY <1>1, <1>2, <1>4 DEF KeptSoFar
  <2>2. ASSUME NEW i \in 1 .. m, i - 1 \in T
        PROVE  i \in T
    <3>1. i \in 1 .. Len(r) /\ r[i] = p[i] /\ kr[i - 1] = kp[i - 1]
      BY <1>1, <2>2
    <3>2. kr[i] = IF r[i] \in S THEN Append(kr[i - 1], r[i]) ELSE kr[i - 1]
      BY <1>4, <3>1 DEF KeptSoFar
    <3>3. kp[i] = IF p[i] \in S THEN Append(kp[i - 1], p[i]) ELSE kp[i - 1]
      BY <1>2 DEF KeptSoFar, m
    <3> QED BY <1>1, <3>1, <3>2, <3>3
  <2>3. \A i \in 0 .. m : i \in T
    <3> HIDE DEF T
    <3> QED BY <1>1, <2>1, <2>2, InductionUpTo
  <2> QED BY <2>3
<1>6. kr[m] = Keep(p, S) /\ kr[m] \in Seq(Client)
  BY <1>1, <1>2, <1>5, KeepType
<1>7. \A i \in 0 .. n : kq[i] \in Seq(Client) /\ kr[m + i] = kr[m] \o kq[i]
  <2> DEFINE T == {i \in 0 .. n : kq[i] \in Seq(Client)
                                  /\ kr[m + i] = kr[m] \o kq[i]}
  <2>1. 0 \in T
    <3>1. kq[0] = << >> /\ m + 0 = m
      BY <1>1, <1>3 DEF KeptSoFar
    <3>2. kr[m] \o << >> = kr[m] /\ << >> \in Seq(Client)
      BY <1>6, ConcatEmptySeq
    <3>3. kq[0] \in Seq(Client) /\ kr[m + 0] = kr[m] \o kq[0]
      BY <3>1, <3>2
    <3>4. 0 \in 0 .. n
      BY <1>1
    <3> QED BY <3>3, <3>4
  <2>2. ASSUME NEW i \in 1 .. n, i - 1 \in T
        PROVE  i \in T
    <3>1. /\ m + i \in 1 .. Len(r) /\ ~(m + i <= m) /\ m + i - m = i
          /\ (m + i) - 1 = m + (i - 1) /\ m + i \in 1 .. m + n
      BY <1>1
    <3>2. r[m + i] = q[i] /\ q[i] \in Client
      BY <1>1, <3>1
    <3>3. kr[m + i] = IF q[i] \in S THEN Append(kr[m + (i - 1)], q[i])
                                    ELSE kr[m + (i - 1)]
      BY <1>4, <3>1, <3>2 DEF KeptSoFar
    <3>4. kq[i] = IF q[i] \in S THEN Append(kq[i - 1], q[i]) ELSE kq[i - 1]
      BY <1>3 DEF KeptSoFar, n
    <3>5. kq[i - 1] \in Seq(Client) /\ kr[m + (i - 1)] = kr[m] \o kq[i - 1]
      BY <2>2
    <3> DEFINE x == kr[m]
               y == kq[i - 1]
               e == q[i]
    <3>6. x \in Seq(Client) /\ y \in Seq(Client) /\ e \in Client
      BY <1>6, <3>2, <3>5
    <3> HIDE DEF x, y, e
    <3>7. /\ Append(x \o y, e) = (x \o y) \o <<e>>
          /\ Append(y, e) = y \o <<e>> /\ Append(y, e) \in Seq(Client)
      <4>1. x \o y \in Seq(Client)
        BY <3>6, ConcatProperties
      <4> QED BY <3>6, <4>1, AppendIsConcat, AppendProperties
    <3>8. (x \o y) \o <<e>> = x \o (y \o <<e>>)
      <4>1. <<e>> \in Seq(Client)
        BY <3>6
      <4> QED BY <3>6, <4>1, ConcatAssociative
    <3>9. Append(x \o y, e) = x \o Append(y, e)
      BY <3>7, <3>8
    <3>10. kr[m + i] = IF e \in S THEN Append(x \o y, e) ELSE x \o y
      BY <3>3, <3>5 DEF x, y, e
    <3>11. kq[i] = IF e \in S THEN Append(y, e) ELSE y
      BY <3>4 DEF y, e
    <3>12. kq[i] \in Seq(Client) /\ kr[m + i] = x \o kq[i]
      BY <3>6, <3>7, <3>9, <3>10, <3>11
    <3>13. i \in 0 .. n
      BY <1>1
    <3> QED BY <3>12, <3>13 DEF x
  <2>3. \A i \in 0 .. n : i \in T
    <3> HIDE DEF T
    <3> QED BY <1>1, <2>1, <2>2, InductionUpTo
  <2> QED BY <2>3
<1>8. Keep(r, S) = Keep(p, S) \o Keep(q, S)
  <2>1. n \in 0 .. n /\ Len(r) = m + n
    BY <1>1
  <2>2. Keep(r, S) = kr[m + n]
    BY <1>4, <2>1
  <2>3. kr[m + n] = kr[m] \o kq[n]
    BY <1>7, <2>1
  <2> QED BY <1>3, <1>6, <2>2, <2>3
<1> QED BY <1>8 DEF r

KeepsBoth(p, q, S) == Keep(p \o q, S) = Keep(p, S) \o Keep(q, S)

LEMMA KeepBoth ==
  ASSUME NEW p \in Seq(Client), NEW q \in Seq(Client), NEW S
  PROVE  KeepsBoth(p, q, S)
BY KeepConcat DEF KeepsBoth

\* Keep() of a sequence with no element in S.
LEMMA KeepNone ==
  ASSUME NEW q \in Seq(Client), NEW S, \A i \in 1 .. Len(q) : q[i] \notin S
  PROVE  Keep(q, S) = << >>
<1> DEFINE n == Len(q)
<1>1. n \in Nat
  BY LenProperties
<1>2. PICK kept : Keep(q, S) = kept[n] /\ KeptSoFar(kept, q, S)
  BY KeepUnfolds
<1> DEFINE T == {i \in 0 .. n : kept[i] = << >>}
<1>3. 0 \in T
  BY <1>1, <1>2 DEF KeptSoFar
<1>4. ASSUME NEW i \in 1 .. n, i - 1 \in T
      PROVE  i \in T
  <2>1. kept[i] = IF q[i] \in S THEN Append(kept[i - 1], q[i]) ELSE kept[i - 1]
    BY <1>2 DEF KeptSoFar
  <2> QED BY <1>1, <1>4, <2>1
<1>5. \A i \in 0 .. n : i \in T
  <2> HIDE DEF T, n
  <2> QED BY <1>1, <1>3, <1>4, InductionUpTo
<1> QED BY <1>1, <1>2, <1>5

\* Keep() of a sequence with all elements in S.
LEMMA KeepAll ==
  ASSUME NEW q \in Seq(Client), NEW S, \A i \in 1 .. Len(q) : q[i] \in S
  PROVE  Keep(q, S) = q
<1> DEFINE n == Len(q)
<1>1. n \in Nat /\ \A i \in 1 .. n : q[i] \in Client
  BY LenProperties, ElementOfSeq
<1>2. PICK kept : Keep(q, S) = kept[n] /\ KeptSoFar(kept, q, S)
  BY KeepUnfolds
<1> DEFINE P(f, i) == /\ f \in Seq(Client) /\ Len(f) = i
                      /\ \A j \in 1 .. i : f[j] = q[j]
           T == {i \in 0 .. n : P(kept[i], i)}
<1>3. 0 \in T
  <2>1. kept[0] = << >>
    BY <1>2 DEF KeptSoFar
  <2>2. P(<< >>, 0)
    BY EmptySeq
  <2>3. P(kept[0], 0) /\ 0 \in 0 .. n
    BY <1>1, <2>1, <2>2
  <2> HIDE DEF P
  <2> QED BY <2>3
<1>4. ASSUME NEW i \in 1 .. n, i - 1 \in T
      PROVE  i \in T
  <2>1. kept[i] = Append(kept[i - 1], q[i])
    BY <1>2 DEF KeptSoFar
  <2> DEFINE f == kept[i - 1]
  <2>2. P(f, i - 1) /\ q[i] \in Client
    BY <1>1, <1>4
  <2> HIDE DEF f
  <2>3. P(Append(f, q[i]), i)
    <3>1. /\ Append(f, q[i]) \in Seq(Client) /\ Len(Append(f, q[i])) = Len(f) + 1
          /\ \A j \in 1 .. Len(f) : Append(f, q[i])[j] = f[j]
          /\ Append(f, q[i])[Len(f) + 1] = q[i]
      BY <2>2, AppendProperties
    <3>2. Len(f) = i - 1 /\ (i - 1) + 1 = i
          /\ \A j \in 1 .. i : j = i \/ j \in 1 .. i - 1
      BY <1>1, <2>2
    <3> QED BY <2>2, <3>1, <3>2
  <2>4. i \in 0 .. n
    BY <1>1
  <2> HIDE DEF P
  <2> QED BY <2>1, <2>3, <2>4 DEF f
<1>5. \A i \in 0 .. n : i \in T
  <2> HIDE DEF T, n
  <2> QED BY <1>1, <1>3, <1>4, InductionUpTo
<1>6. P(kept[n], n)
  BY <1>1, <1>5
<1> QED BY <1>2, <1>6, SeqEqual

\* One client more behind a sequence.
LEMMA SingleSeq ==
  ASSUME NEW c \in Client
  PROVE  <<c>> \in Seq(Client) /\ Len(<<c>>) = 1 /\ <<c>>[1] = c
OBVIOUS

\* A sequence around its element i.
LEMMA SplitAt ==
  ASSUME NEW q \in Seq(Client), NEW i \in 1 .. Len(q)
  PROVE  \E a, b \in Seq(Client) :
           /\ q = (a \o <<q[i]>>) \o b /\ Len(a) = i - 1 /\ Len(b) = Len(q) - i
           /\ \A k \in 1 .. i - 1 : a[k] = q[k]
           /\ \A k \in 1 .. Len(q) - i : b[k] = q[i + k]
<1> DEFINE a == SubSeq(q, 1, i - 1)
           b == SubSeq(q, i + 1, Len(q))
           e == <<q[i]>>
<1>1. Len(q) \in Nat /\ i \in Nat /\ i >= 1 /\ i <= Len(q) /\ q[i] \in Client
  BY LenProperties, ElementOfSeq
<1>2. /\ a \in Seq(Client) /\ Len(a) = i - 1
      /\ \A k \in 1 .. i - 1 : a[k] = q[k]
  <2>1. i - 1 \in Nat /\ 1 \in Nat /\ i - 1 <= Len(q) /\ 1 <= (i - 1) + 1
        /\ (i - 1) + 1 - 1 = i - 1 /\ \A k \in 1 .. i - 1 : 1 + k - 1 = k
    BY <1>1
  <2> QED BY <2>1, SubSeqElements
<1>3. /\ b \in Seq(Client) /\ Len(b) = Len(q) - i
      /\ \A k \in 1 .. Len(q) - i : b[k] = q[i + k]
  <2>1. i + 1 \in Nat /\ i + 1 >= 1 /\ i + 1 <= Len(q) + 1
        /\ Len(q) + 1 - (i + 1) = Len(q) - i
        /\ \A k \in 1 .. Len(q) - i : (i + 1) + k - 1 = i + k
    BY <1>1
  <2> QED BY <1>1, <2>1, SubSeqElements
<1>4. e \in Seq(Client) /\ Len(e) = 1 /\ e[1] = q[i]
  BY <1>1, SingleSeq
<1> HIDE DEF a, b, e
<1> DEFINE f == a \o e
<1>5. /\ f \in Seq(Client) /\ Len(f) = i
      /\ \A k \in 1 .. i : f[k] = q[k]
  <2>1. /\ f \in Seq(Client) /\ Len(f) = Len(a) + Len(e)
        /\ \A k \in 1 .. Len(a) + Len(e) :
             f[k] = IF k <= Len(a) THEN a[k] ELSE e[k - Len(a)]
    BY <1>2, <1>4, ConcatProperties
  <2>2. Len(a) + Len(e) = i /\ Len(a) = i - 1
    BY <1>1, <1>2, <1>4
  <2>3. ASSUME NEW k \in 1 .. i
        PROVE  f[k] = q[k]
    <3>1. CASE k = i
      <4>1. ~(k <= Len(a)) /\ k - Len(a) = 1
        BY <1>1, <2>2, <3>1
      <4> QED BY <1>4, <2>1, <2>2, <3>1, <4>1
    <3>2. CASE k # i
      <4>1. k <= Len(a) /\ k \in 1 .. i - 1
        BY <1>1, <2>2, <3>2
      <4> QED BY <1>2, <2>1, <2>2, <4>1
    <3> QED BY <3>1, <3>2
  <2> QED BY <2>1, <2>2, <2>3
<1> HIDE DEF f
<1>6. f \o b = q
  <2>1. /\ f \o b \in Seq(Client) /\ Len(f \o b) = Len(f) + Len(b)
        /\ \A k \in 1 .. Len(f) + Len(b) :
             (f \o b)[k] = IF k <= Len(f) THEN f[k] ELSE b[k - Len(f)]
    BY <1>3, <1>5, ConcatProperties
  <2>2. Len(f) + Len(b) = Len(q)
    BY <1>1, <1>3, <1>5
  <2>3. ASSUME NEW k \in 1 .. Len(q)
        PROVE  (f \o b)[k] = q[k]
    <3>1. CASE k <= i
      BY <1>1, <1>5, <2>1, <2>2, <3>1
    <3>2. CASE ~(k <= i)
      <4>1. k - i \in 1 .. Len(q) - i /\ i + (k - i) = k
        BY <1>1, <3>2
      <4> QED BY <1>3, <1>5, <2>1, <2>2, <3>2, <4>1
    <3> QED BY <3>1, <3>2
  <2> QED BY <2>1, <2>2, <2>3, SeqEqual
<1> QED BY <1>2, <1>3, <1>6 DEF f, e

\* The two parts of a sequence, by their indices.
LEMMA Halves ==
  ASSUME NEW x \in Seq(Client), NEW y \in Seq(Client)
  PROVE  /\ SubSeq(x \o y, 1, Len(x)) = x
         /\ SubSeq(x \o y, Len(x) + 1, Len(x \o y)) = y
<1> DEFINE q == x \o y
           m == Len(x)
           n == Len(y)
           a == SubSeq(q, 1, m)
           b == SubSeq(q, m + 1, Len(q))
<1>1. /\ m \in Nat /\ n \in Nat /\ q \in Seq(Client) /\ Len(q) = m + n
      /\ \A i \in 1 .. m + n : q[i] = IF i <= m THEN x[i] ELSE y[i - m]
  BY LenProperties, ConcatProperties
<1> HIDE DEF q, m, n
<1>2. a \in Seq(Client) /\ Len(a) = m /\ \A k \in 1 .. m : a[k] = q[k]
  <2>1. /\ m \in Nat /\ 1 \in Nat /\ m <= Len(q) /\ 1 <= m + 1 /\ m + 1 - 1 = m
        /\ \A k \in 1 .. m : 1 + k - 1 = k
    BY <1>1
  <2> QED BY <1>1, <2>1, SubSeqElements
<1>3. b \in Seq(Client) /\ Len(b) = n /\ \A k \in 1 .. n : b[k] = q[m + k]
  <2>1. /\ m + 1 \in Nat /\ Len(q) \in Nat /\ m + 1 >= 1 /\ m + 1 <= Len(q) + 1
        /\ Len(q) + 1 - (m + 1) = n /\ \A k \in 1 .. n : m + 1 + k - 1 = m + k
    BY <1>1
  <2> QED BY <1>1, <2>1, SubSeqElements
<1> HIDE DEF a, b
<1>4. a = x
  <2>1. \A k \in 1 .. m : q[k] = x[k]
    BY <1>1
  <2> QED BY <1>2, <2>1, SeqEqual DEF m
<1>5. b = y
  <2>1. \A k \in 1 .. n : m + k \in 1 .. m + n /\ ~(m + k <= m) /\ m + k - m = k
    BY <1>1
  <2>2. \A k \in 1 .. n : q[m + k] = y[k]
    BY <1>1, <2>1
  <2> QED BY <1>3, <2>2, SeqEqual DEF n
<1> QED BY <1>4, <1>5 DEF a, b, q, m

\* A client is linked in between two parts of a list.
LEMMA InsertBetween ==
  ASSUME NEW x \in Seq(Client), NEW y \in Seq(Client), NEW c \in Client
  PROVE  InsertAt(x \o y, Len(x) + 1, c) = (x \o <<c>>) \o y
<1> DEFINE q == x \o y
           j == Len(x) + 1
<1>1. Len(x) \in Nat /\ j - 1 = Len(x)
  BY LenProperties
<1>2. SubSeq(q, 1, Len(x)) = x /\ SubSeq(q, j, Len(q)) = y
  BY Halves
<1> HIDE DEF q, j
<1>3. InsertAt(q, j, c)
        = (SubSeq(q, 1, j - 1) \o <<c>>) \o SubSeq(q, j, Len(q))
  BY DEF InsertAt
<1> QED BY <1>1, <1>2, <1>3 DEF q, j

\* The client between two parts of a list is taken out.
LEMMA RemoveBetween ==
  ASSUME NEW x \in Seq(Client), NEW y \in Seq(Client), NEW c \in Client
  PROVE  /\ RemoveAt((x \o <<c>>) \o y, Len(x) + 1) = x \o y
         /\ ((x \o <<c>>) \o y)[Len(x) + 1] = c
         /\ (x \o <<c>>) \o y \in Seq(Client)
         /\ Len((x \o <<c>>) \o y) = Len(x) + 1 + Len(y)
<1> DEFINE e == <<c>>
           f == x \o e
           q == f \o y
<1>1. /\ e \in Seq(Client) /\ Len(e) = 1 /\ e[1] = c
      /\ Len(x) \in Nat /\ Len(y) \in Nat
  BY SingleSeq, LenProperties
<1> HIDE DEF e
<1>2. /\ f \in Seq(Client) /\ Len(f) = Len(x) + 1
      /\ \A k \in 1 .. Len(x) + 1 :
           f[k] = IF k <= Len(x) THEN x[k] ELSE e[k - Len(x)]
  <2>1. /\ f \in Seq(Client) /\ Len(f) = Len(x) + Len(e)
        /\ \A k \in 1 .. Len(x) + Len(e) :
             f[k] = IF k <= Len(x) THEN x[k] ELSE e[k - Len(x)]
    BY <1>1, ConcatProperties
  <2>2. Len(x) + Len(e) = Len(x) + 1
    BY <1>1
  <2> HIDE DEF f
  <2> QED BY <2>1, <2>2
<1>3. f = x \o e /\ f[Len(x) + 1] = c
  <2>1. /\ Len(x) + 1 \in 1 .. Len(x) + 1 /\ ~(Len(x) + 1 <= Len(x))
        /\ Len(x) + 1 - Len(x) = 1
    BY <1>1
  <2> QED BY <1>1, <1>2, <2>1
<1>4. q = x \o (e \o y) /\ e \o y \in Seq(Client)
  BY <1>1, ConcatAssociative, ConcatProperties
<1>5. SubSeq(q, 1, Len(x)) = x
  BY <1>4, Halves
<1> HIDE DEF f
<1>6. /\ q \in Seq(Client) /\ Len(q) = Len(x) + 1 + Len(y)
      /\ q[Len(x) + 1] = c /\ SubSeq(q, Len(x) + 2, Len(q)) = y
  <2>1. /\ q \in Seq(Client) /\ Len(q) = Len(f) + Len(y)
        /\ \A k \in 1 .. Len(f) + Len(y) :
             q[k] = IF k <= Len(f) THEN f[k] ELSE y[k - Len(f)]
    <3>1. f \in Seq(Client)
      BY <1>2
    <3> QED BY <3>1, ConcatProperties
  <2>2. /\ Len(x) + 1 \in 1 .. Len(f) + Len(y) /\ Len(x) + 1 <= Len(f)
        /\ Len(f) + 1 = Len(x) + 2 /\ Len(f) + Len(y) = Len(x) + 1 + Len(y)
    BY <1>1, <1>2
  <2>3. SubSeq(q, Len(f) + 1, Len(q)) = y
    BY <1>2, Halves
  <2> QED BY <1>3, <2>1, <2>2, <2>3
<1> HIDE DEF q
<1>7. RemoveAt(q, Len(x) + 1) = x \o y
  <2> DEFINE j == Len(x) + 1
  <2>1. j - 1 = Len(x) /\ j + 1 = Len(x) + 2
    BY <1>1
  <2> HIDE DEF j
  <2>2. RemoveAt(q, j) = SubSeq(q, 1, j - 1) \o SubSeq(q, j + 1, Len(q))
    BY DEF RemoveAt
  <2> QED BY <1>5, <1>6, <2>1, <2>2 DEF j
<1> QED BY <1>6, <1>7 DEF q, f, e

\* In a list a client has one index.
LEMMA OneIndex ==
  ASSUME NEW q, List(q), NEW i \in 1 .. Len(q)
  PROVE  IndexOf(q, q[i]) = i
<1>1. q \in Seq(Client) /\ Len(q) \in Nat
      /\ \A k, j \in 1 .. Len(q) : q[k] = q[j] => k = j
  BY ListFacts
<1>2. Contains(q, q[i])
  BY DEF Contains
<1>3. IndexOf(q, q[i]) \in 1 .. Len(q) /\ q[IndexOf(q, q[i])] = q[i]
  BY <1>1, <1>2, IndexOfRange
<1> QED BY <1>1, <1>3

\* q is a, then c, then b.
Together(q, a, c, b) == q = (a \o <<c>>) \o b

LEMMA InBetween ==
  ASSUME NEW q, List(q), NEW a \in Seq(Client), NEW c \in Client,
         NEW b \in Seq(Client), Together(q, a, c, b)
  PROVE  c \in ToSet(q)
<1>1. q = (a \o <<c>>) \o b
  BY DEF Together
<1>2. q[Len(a) + 1] = c /\ Len(q) = Len(a) + 1 + Len(b)
  BY <1>1, RemoveBetween
<1>3. Len(a) \in Nat /\ Len(b) \in Nat
  BY LenProperties
<1>4. Len(a) + 1 \in 1 .. Len(q)
  BY <1>2, <1>3
<1>5. ToSet(q) = {q[i] : i \in 1 .. Len(q)}
  BY ListFacts
<1> QED BY <1>2, <1>4, <1>5

\* A client is taken out of a list, wherever it is.
LEMMA TakenOut ==
  ASSUME NEW x \in Seq(Client), NEW y \in Seq(Client), NEW c \in Client,
         List((x \o <<c>>) \o y)
  PROVE  /\ IndexOf((x \o <<c>>) \o y, c) = Len(x) + 1
         /\ RemoveFirst((x \o <<c>>) \o y, c) = x \o y
<1> DEFINE q == (x \o <<c>>) \o y
           i == Len(x) + 1
<1>1. /\ RemoveAt(q, i) = x \o y /\ q[i] = c /\ q \in Seq(Client)
      /\ Len(q) = i + Len(y)
  BY RemoveBetween
<1>2. i \in 1 .. Len(q)
  <2>1. Len(x) \in Nat /\ Len(y) \in Nat
    BY LenProperties
  <2> QED BY <1>1, <2>1
<1> HIDE DEF q, i
<1>3. List(q)
  BY DEF q
<1>4. IndexOf(q, c) = i
  BY <1>1, <1>2, <1>3, OneIndex
<1>5. RemoveFirst(q, c) = RemoveAt(q, IndexOf(q, c))
  <2>1. RemoveFirst(q, c) = IF \E k \in 1 .. Len(q) : q[k] = c
                            THEN RemoveAt(q, IndexOf(q, c)) ELSE q
    BY DEF RemoveFirst, IndexOf
  <2> QED BY <1>1, <1>2, <2>1
<1> QED BY <1>1, <1>4, <1>5 DEF q, i

\* Relinking a client leaves a list of the same clients.
LEMMA RelinkList ==
  ASSUME NEW q, List(q), NEW i \in 1 .. Len(q), NEW k \in 1 .. Len(q)
  PROVE  LET r == InsertAt(RemoveAt(q, i), k, q[i])
         IN List(r) /\ ToSet(r) = ToSet(q)
<1> DEFINE rest == RemoveAt(q, i)
<1>1. /\ q \in Seq(Client) /\ Len(q) \in Nat /\ q[i] \in Client
      /\ q[i] \in ToSet(q)
  BY ListFacts
<1>2. List(rest) /\ ToSet(rest) = ToSet(q) \ {q[i]}
  BY RemoveAtList
<1>3. Len(rest) = Len(q) - 1
  BY <1>1, RemoveAtElements
<1> HIDE DEF rest
<1>4. k \in 1 .. Len(rest) + 1
  BY <1>1, <1>3
<1>5. /\ List(InsertAt(rest, k, q[i]))
      /\ ToSet(InsertAt(rest, k, q[i])) = ToSet(rest) \cup {q[i]}
  BY <1>1, <1>2, <1>4, InsertAtList
<1> QED BY <1>1, <1>2, <1>5 DEF rest

\* Three parts of a list, grouped either way.
LEMMA ConcatThree ==
  ASSUME NEW a \in Seq(Client), NEW b \in Seq(Client), NEW c \in Seq(Client)
  PROVE  a \o (b \o c) = (a \o b) \o c
BY ConcatAssociative

LEMMA JoinInFront ==
  ASSUME NEW a \in Seq(Client), NEW q, NEW b \in Seq(Client), NEW c \in Client,
         NEW d \in Seq(Client), Together(q, b, c, d)
  PROVE  Together(a \o q, a \o b, c, d)
<1> DEFINE e == <<c>>
           f == b \o e
<1>1. e \in Seq(Client)
  OBVIOUS
<1>2. q = f \o d
  BY DEF Together
<1> HIDE DEF e
<1>3. f \in Seq(Client)
  BY <1>1, ConcatProperties
<1>4. a \o f = (a \o b) \o e
  BY <1>1, ConcatThree, Zenon
<1> HIDE DEF f
<1>5. a \o (f \o d) = (a \o f) \o d
  BY <1>3, ConcatThree, Zenon
<1>6. a \o q = ((a \o b) \o e) \o d
  BY <1>2, <1>4, <1>5, Zenon
<1> QED BY <1>6, Zenon DEF Together, e

NoneIn(q, S) == \A i \in 1 .. Len(q) : q[i] \notin S

\* q is c and then b; or a, c and b.
Begins(q, c, b) == q = <<c>> \o b
Amid(q, a, c, b) == q = a \o (<<c>> \o b)

\* Keep() of a list that begins with an element of S.
LEMMA KeepFront ==
  ASSUME NEW c \in Client, NEW q \in Seq(Client), NEW S, c \in S
  PROVE  Keep(<<c>> \o q, S) = <<c>> \o Keep(q, S)
<1> DEFINE e == <<c>>
<1>1. e \in Seq(Client) /\ Len(e) = 1 /\ e[1] = c
  BY SingleSeq
<1> HIDE DEF e
<1>2. \A i \in 1 .. Len(e) : e[i] \in S
  BY <1>1
<1>3. Keep(e, S) = e
  BY <1>1, <1>2, KeepAll
<1>4. Keep(e \o q, S) = Keep(e, S) \o Keep(q, S)
  BY <1>1, KeepConcat, Zenon
<1>5. Keep(e \o q, S) = e \o Keep(q, S)
  BY <1>3, <1>4, Zenon
<1> QED BY <1>5, Zenon DEF e

\* Of one that ends with clients not in S.
LEMMA KeepDrops ==
  ASSUME NEW a \in Seq(Client), NEW b \in Seq(Client), NEW S, NoneIn(b, S)
  PROVE  Keep(a \o b, S) = Keep(a, S)
<1>1. Keep(b, S) = << >>
  BY KeepNone DEF NoneIn
<1>2. Keep(a \o b, S) = Keep(a, S) \o Keep(b, S)
  BY KeepConcat, Zenon
<1>3. Keep(a, S) \o << >> = Keep(a, S)
  BY KeepType, ConcatEmptySeq
<1> QED BY <1>1, <1>2, <1>3, Zenon

\* Of one that begins with clients not in S, then one in S.
LEMMA KeepSkips ==
  ASSUME NEW b \in Seq(Client), NEW c \in Client, NEW d \in Seq(Client),
         NEW S, NoneIn(b, S), c \in S, NEW q, Together(q, b, c, d)
  PROVE  Begins(Keep(q, S), c, Keep(d, S))
<1> DEFINE e == <<c>>
<1>1. e \in Seq(Client) /\ e \o d \in Seq(Client)
  BY ConsType
<1>2. Keep(e \o d, S) = e \o Keep(d, S)
  BY KeepFront
<1>3. q = (b \o e) \o d
  BY Zenon DEF Together
<1> HIDE DEF e
<1>4. b \o (e \o d) = (b \o e) \o d
  BY <1>1, ConcatThree, Zenon
<1>5. Keep(b \o (e \o d), S) = Keep(b, S) \o Keep(e \o d, S)
  BY <1>1, KeepConcat, Zenon
<1>6. Keep(b, S) = << >>
  BY KeepNone DEF NoneIn
<1> DEFINE k == Keep(e \o d, S)
<1>7. k \in Seq(Client)
  BY <1>1, KeepType
<1>8. << >> \o k = k
  <2> HIDE DEF k
  <2> QED BY <1>7, ConcatEmptySeq
<1>9. Keep(q, S) = k
  BY <1>3, <1>4, <1>5, <1>6, <1>8, Zenon
<1>10. Keep(q, S) = e \o Keep(d, S)
  BY <1>2, <1>9, Zenon
<1> QED BY <1>10, Zenon DEF Begins, e

\* Of one with an element of S in between.
LEMMA KeepAround ==
  ASSUME NEW a \in Seq(Client), NEW c \in Client, NEW b \in Seq(Client),
         NEW S, c \in S, NEW q, Together(q, a, c, b)
  PROVE  Amid(Keep(q, S), Keep(a, S), c, Keep(b, S))
<1> DEFINE e == <<c>>
<1>1. e \in Seq(Client) /\ e \o b \in Seq(Client)
  BY ConsType
<1>2. Keep(e \o b, S) = e \o Keep(b, S)
  BY KeepFront
<1>3. q = (a \o e) \o b
  BY Zenon DEF Together
<1> HIDE DEF e
<1>4. a \o (e \o b) = (a \o e) \o b
  BY <1>1, ConcatThree, Zenon
<1>5. Keep(a \o (e \o b), S) = Keep(a, S) \o Keep(e \o b, S)
  BY <1>1, KeepConcat, Zenon
<1>6. Keep(q, S) = Keep(a, S) \o (e \o Keep(b, S))
  BY <1>2, <1>3, <1>4, <1>5, Zenon
<1> QED BY <1>6, Zenon DEF Amid, e

\* A sequence begins with one client, and goes on in one way.
LEMMA BeginsOnce ==
  ASSUME NEW q, NEW c \in Client, NEW x \in Seq(Client), NEW g \in Client,
         NEW y \in Seq(Client), Begins(q, c, x), Begins(q, g, y)
  PROVE  c = g /\ x = y /\ q[1] = c /\ q # << >>
<1>1. /\ q = <<c>> \o x /\ Len(q) = 1 + Len(x) /\ q[1] = c /\ Len(x) \in Nat
      /\ \A i \in 1 .. Len(x) : q[1 + i] = x[i]
  BY DEF Begins
<1>2. /\ q = <<g>> \o y /\ Len(q) = 1 + Len(y) /\ q[1] = g /\ Len(y) \in Nat
      /\ \A i \in 1 .. Len(y) : q[1 + i] = y[i]
  BY DEF Begins
<1>3. Len(x) = Len(y) /\ q # << >>
  BY <1>1, <1>2
<1>4. \A i \in 1 .. Len(x) : x[i] = y[i]
  BY <1>1, <1>2, <1>3
<1>5. x = y
  BY <1>3, <1>4, SeqEqual
<1> QED BY <1>1, <1>2, <1>3, <1>5

\* What is kept of a list that c was moved in front of b in.
LEMMA KeepMoved ==
  ASSUME NEW a \in Seq(Client), NEW c \in Client, NEW b \in Seq(Client),
         NEW d \in Seq(Client), NEW S, c \in S, NoneIn(a, S), NoneIn(b, S)
  PROVE  LET z == ((a \o <<c>>) \o b) \o d
         IN z \in Seq(Client) /\ Begins(Keep(z, S), c, Keep(d, S))
<1> DEFINE e == <<c>>
           ae == a \o e
           bd == b \o d
           z == (ae \o b) \o d
<1>1. e \in Seq(Client) /\ ae \in Seq(Client) /\ bd \in Seq(Client)
  <2>1. e \in Seq(Client)
    BY SingleSeq
  <2> HIDE DEF e
  <2> QED BY <2>1, ConcatProperties
<1>2. z = ae \o bd /\ z \in Seq(Client)
  <2>0. ae \in Seq(Client)
    BY <1>1
  <2> HIDE DEF ae
  <2>1. ae \o (b \o d) = (ae \o b) \o d
    BY <2>0, ConcatThree, Zenon
  <2>2. ae \o b \in Seq(Client)
    BY <2>0, ConcatProperties
  <2> DEFINE x == ae \o b
  <2>3. x \in Seq(Client)
    BY <2>2
  <2> HIDE DEF x
  <2>4. x \o d \in Seq(Client)
    BY <2>3, ConcatProperties
  <2> QED BY <2>1, <2>4, Zenon DEF x
<1>3. Together(z, a, c, bd)
  BY <1>2, Zenon DEF Together
<1> HIDE DEF bd, z
<1>4. Begins(Keep(z, S), c, Keep(bd, S))
  BY <1>1, <1>3, KeepSkips
<1>5. Keep(bd, S) = Keep(d, S)
  <2>1. KeepsBoth(b, d, S)
    BY KeepBoth
  <2>2. Keep(b, S) = << >>
    BY KeepNone DEF NoneIn
  <2>3. << >> \o Keep(d, S) = Keep(d, S)
    BY KeepType, ConcatEmptySeq
  <2> QED BY <2>1, <2>2, <2>3, Zenon DEF KeepsBoth, bd
<1> QED BY <1>2, <1>4, <1>5, Zenon DEF z

-----------------------------------------------------------------------------
(* What handlers read                                                      *)

LEMMA StateFields ==
  ASSUME NEW s \in State
  PROVE  /\ s.nmon \in Mon /\ s.selmon \in Mon
         /\ s.clients[s.selmon] \in Seq(Client)
         /\ s.sel[s.selmon] \in ClientOrNull
         /\ s.seltags[s.selmon] \in Slot
         /\ 1 - s.seltags[s.selmon] \in Slot
         /\ s.createtag[s.selmon][s.seltags[s.selmon]] \in Tag
         /\ ViewOf(s, s.selmon) \in SUBSET Tag
         /\ \A c \in Client : s.mon[c] \in Mon /\ s.tags[c] \in SUBSET Tag
BY DEF State, Slot, ViewOf

LEMMA StateFlags ==
  ASSUME NEW s \in State
  PROVE  /\ s.isfloating \in [Client -> BOOLEAN]
         /\ s.isfullscreen \in [Client -> BOOLEAN]
         /\ s.oldstate \in [Client -> BOOLEAN]
         /\ s.isurgent \in [Client -> BOOLEAN]
         /\ s.neverfocus \in [Client -> BOOLEAN]
         /\ s.gone \in [Client -> BOOLEAN]
BY DEF State

LEMMA SymDiffType ==
  ASSUME NEW A \in SUBSET Tag, NEW B \in SUBSET Tag
  PROVE  SymDiff(A, B) \in SUBSET Tag
BY DEF SymDiff

LEMMA AtType ==
  ASSUME NEW q \in Seq(Client), NEW i \in 0 .. Len(q)
  PROVE  At(q, i) \in ClientOrNull
BY LenProperties, ElementOfSeq DEF At, ClientOrNull

-----------------------------------------------------------------------------
(* What a step leaves alone                                                *)

\* The views and the create tags of all monitors.
SameCreates(s, t) ==
  /\ t.tagset = s.tagset /\ t.seltags = s.seltags
  /\ t.createtag = s.createtag /\ t.nmon = s.nmon

\* And the focus histories.
SameFrame(s, t) == t.stack = s.stack /\ SameCreates(s, t)

LEMMA FrameFields ==
  ASSUME NEW s \in State
  PROVE  {"stack", "tagset", "seltags", "createtag", "nmon"} \subseteq DOMAIN s
BY StateDomain

LEMMA SameCreatesTwice ==
  ASSUME NEW s, NEW t, NEW u, SameCreates(s, t), SameCreates(t, u)
  PROVE  SameCreates(s, u)
BY DEF SameCreates

LEMMA SameFrameTwice ==
  ASSUME NEW s, NEW t, NEW u, SameFrame(s, t), SameFrame(t, u)
  PROVE  SameFrame(s, u)
BY DEF SameFrame, SameCreates

LEMMA SameFrameSelf ==
  ASSUME NEW s
  PROVE  SameFrame(s, s)
BY DEF SameFrame, SameCreates

\* The helpers for lists and the input focus write neither views nor create
\* tags.
LEMMA LinksFrame ==
  ASSUME NEW s \in State, NEW c
  PROVE  /\ SameFrame(s, Attach(s, c)) /\ SameFrame(s, AttachBelow(s, c))
         /\ SameFrame(s, Detach(s, c)) /\ SameFrame(s, Unfocus(s, c))
         /\ SameFrame(s, SetFocus(s, c))
         /\ SameCreates(s, AttachStack(s, c))
         /\ SameCreates(s, DetachStack(s, c))
<1>1. {"stack", "tagset", "seltags", "createtag", "nmon"} \subseteq DOMAIN s
  BY FrameFields
<1>2. SameFrame(s, Attach(s, c)) /\ SameFrame(s, Detach(s, c))
  BY <1>1, ZenonT(60) DEF SameFrame, SameCreates, Attach, Detach
<1>3. SameCreates(s, AttachStack(s, c)) /\ SameCreates(s, DetachStack(s, c))
  BY <1>1, ZenonT(60) DEF SameCreates, AttachStack, DetachStack
<1>4. \A m, q : SameFrame(s, [s EXCEPT !.clients[m] = q])
  BY <1>1, ZenonT(60) DEF SameFrame, SameCreates
<1>5. SameFrame(s, AttachBelow(s, c))
  BY <1>2, <1>4 DEF AttachBelow
<1>6. \A d : SameFrame(s, [s EXCEPT !.xfocus = d])
  BY <1>1, ZenonT(60) DEF SameFrame, SameCreates
<1>7. SameFrame(s, Unfocus(s, c)) /\ SameFrame(s, SetFocus(s, c))
  BY <1>6, SameFrameSelf DEF Unfocus, SetFocus
<1> QED BY <1>2, <1>3, <1>5, <1>7

-----------------------------------------------------------------------------
(* Views and tags                                                          *)

LEMMA RefreshType ==
  ASSUME NEW s \in State
  PROVE  Refresh(s) \in State
BY FocusType, ArrangeType DEF Refresh, ClientOrNull

LEMMA SetViewType ==
  ASSUME NEW s \in State, NEW m \in Mon, NEW k \in Slot, NEW new \in SUBSET Tag
  PROVE  /\ [s EXCEPT !.tagset[m][k] = new] \in State
         /\ [s EXCEPT !.seltags[m] = k, !.tagset[m][k] = new] \in State
<1>1. [s EXCEPT !.tagset[m][k] = new] \in State
  BY ZenonT(60) DEF State
<1>2. [s EXCEPT !.seltags[m] = k, !.tagset[m][k] = new] \in State
  BY ZenonT(60) DEF State
<1> QED BY <1>1, <1>2

LEMMA ViewType ==
  ASSUME NEW s \in State, NEW ui \in SUBSET Tag
  PROVE  View(s, ui) \in State
<1> DEFINE m == s.selmon
           k == 1 - s.seltags[m]
           new == IF ui = {} THEN s.tagset[m][k] ELSE ui
<1>1. m \in Mon /\ k \in Slot
  BY StateFields
<1>2. new \in SUBSET Tag
  BY <1>1 DEF State
<1> HIDE DEF m, k, new
<1>3. [s EXCEPT !.seltags[m] = k, !.tagset[m][k] = new] \in State
  BY <1>1, <1>2, SetViewType
<1> QED BY <1>3, RefreshType DEF View, m, k, new

LEMMA ToggleViewType ==
  ASSUME NEW s \in State, NEW ui \in SUBSET Tag
  PROVE  ToggleView(s, ui) \in State
<1> DEFINE m == s.selmon
           k == s.seltags[m]
           new == SymDiff(ViewOf(s, m), ui)
<1>1. m \in Mon /\ k \in Slot /\ new \in SUBSET Tag
  BY StateFields, SymDiffType
<1> HIDE DEF m, k, new
<1>2. [s EXCEPT !.tagset[m][k] = new] \in State
  BY <1>1, SetViewType
<1> QED BY <1>2, RefreshType DEF ToggleView, m, k, new

LEMMA RememberTagType ==
  ASSUME NEW s \in State
  PROVE  RememberTag(s) \in State
<1> DEFINE m == s.selmon
           k == s.seltags[m]
           cur == s.createtag[m][k]
           first == At(s.clients[m], IF s.clients[m] = << >> THEN 0 ELSE 1)
           view == s.tagset[m][k]
<1>1. m \in Mon /\ cur \in Tag /\ view \in SUBSET Tag
  BY StateFields DEF ViewOf
<1>2. first \in ClientOrNull
  BY StateFields, AtType, EmptySeq
<1> HIDE DEF m, k, cur, first, view
<1>3. [s EXCEPT !.remtagset[m][cur] = view, !.remzoomed[m][cur] = first]
        \in State
  BY <1>1, <1>2, ZenonT(60) DEF State
<1> QED BY <1>3 DEF RememberTag, m, k, cur, first, view

LEMMA SelectTagType ==
  ASSUME NEW s \in State, NEW t \in Tag
  PROVE  SelectTag(s, t) \in State
<1> DEFINE m == s.selmon
           k == 1 - s.seltags[m]
           again == s.createtag[m][s.seltags[m]] = t
           view == {t} \cup (IF again THEN {} ELSE s.remtagset[m][t])
           zoomed == IF again THEN s.zoomed[m][k] ELSE s.remzoomed[m][t]
<1>1. m \in Mon /\ k \in Slot
  BY StateFields
<1>2. view \in SUBSET Tag /\ zoomed \in ClientOrNull
  BY <1>1 DEF State
<1> HIDE DEF m, k, view, zoomed
<1>3. [s EXCEPT !.seltags[m] = k, !.combo = TRUE, !.tagset[m][k] = view]
        \in State
  BY <1>1, <1>2, ZenonT(60) DEF State
<1>4. ASSUME NEW r \in State
      PROVE  [r EXCEPT !.zoomed[m][k] = zoomed, !.createtag[m][k] = t] \in State
  BY <1>1, <1>2, ZenonT(60) DEF State
<1> QED BY <1>3, <1>4 DEF SelectTag, m, k, view, zoomed

\* Every press of a chord ends in Refresh().
LEMMA ComboViewStep ==
  ASSUME NEW s \in State, NEW t \in Tag
  PROVE  \E u \in State : ComboView(s, t) = Refresh(u)
<1> DEFINE m == s.selmon
           k == s.seltags[m]
           r == RememberTag(s)
           selected == SelectTag(r, t)
           zoomed == selected.zoomed[m][selected.seltags[m]]
           view == r.tagset[m][k] \cup {t}
           added == [r EXCEPT !.tagset[m][k] = view]
<1>1. m \in Mon /\ k \in Slot
  BY StateFields
<1>2. r \in State
  BY RememberTagType
<1>3. selected \in State
  BY <1>2, SelectTagType
<1>4. zoomed \in ClientOrNull
  BY <1>1, <1>3 DEF State
<1> HIDE DEF m, k, r, selected, zoomed
<1>5. view \in SUBSET Tag
  BY <1>1, <1>2 DEF State
<1> HIDE DEF view
<1>6. added \in State
  BY <1>1, <1>2, <1>5, SetViewType
<1>7. zoomed # NULL => Pop(selected, zoomed) \in State
  BY <1>3, <1>4, PopType DEF ClientOrNull
<1>8. ComboView(s, t) = Refresh(IF s.combo THEN added
          ELSE IF zoomed # NULL /\ Contains(s.clients[m], zoomed)
          THEN Pop(selected, zoomed) ELSE selected)
  BY DEF ComboView, m, k, r, selected, zoomed, view
<1> HIDE DEF added
<1> QED BY <1>3, <1>6, <1>7, <1>8

LEMMA ComboViewType ==
  ASSUME NEW s \in State, NEW t \in Tag
  PROVE  ComboView(s, t) \in State
BY ComboViewStep, RefreshType

LEMMA KeyReleaseType ==
  ASSUME NEW s \in State
  PROVE  KeyRelease(s) \in State
BY ZenonT(60) DEF KeyRelease, State

LEMMA SetTagsType ==
  ASSUME NEW s \in State, NEW c \in Client, NEW new \in SUBSET Tag
  PROVE  [s EXCEPT !.tags[c] = new] \in State
BY ZenonT(60) DEF State

LEMMA SetComboTagsType ==
  ASSUME NEW s \in State, NEW c \in Client, NEW new \in SUBSET Tag
  PROVE  [s EXCEPT !.combo = TRUE, !.tags[c] = new] \in State
BY ZenonT(60) DEF State

LEMMA ComboTagType ==
  ASSUME NEW s \in State, NEW ui \in SUBSET Tag
  PROVE  ComboTag(s, ui) \in State
<1> DEFINE c == s.sel[s.selmon]
           new == IF s.combo THEN s.tags[c] \cup ui ELSE ui
           t == [s EXCEPT !.combo = TRUE, !.tags[c] = new]
<1>1. ASSUME c # NULL
      PROVE  c \in Client /\ new \in SUBSET Tag
  BY <1>1, StateFields DEF ClientOrNull
<1> HIDE DEF c, new
<1>2. ASSUME c # NULL
      PROVE  t \in State
  BY <1>1, <1>2, SetComboTagsType
<1> QED BY <1>2, RefreshType DEF ComboTag, c, new

LEMMA TagSelType ==
  ASSUME NEW s \in State, NEW ui \in SUBSET Tag
  PROVE  TagSel(s, ui) \in State
BY StateFields, SetTagsType, RefreshType DEF TagSel, ClientOrNull

LEMMA ToggleTagType ==
  ASSUME NEW s \in State, NEW ui \in SUBSET Tag
  PROVE  ToggleTag(s, ui) \in State
BY StateFields, SymDiffType, SetTagsType, RefreshType
   DEF ToggleTag, ClientOrNull

-----------------------------------------------------------------------------
(* Moving the focus and reordering the list                                *)

\* focusstack() does nothing or focuses a client of the list.
LEMMA FocusStackStep ==
  ASSUME NEW s \in State, NEW dir
  PROVE  \/ FocusStack(s, dir) = s
         \/ \E i \in 1 .. Len(s.clients[s.selmon]) :
              FocusStack(s, dir) = Focus(s, s.clients[s.selmon][i])
<1> DEFINE q == s.clients[s.selmon]
           i == IndexOf(q, s.sel[s.selmon])
           I == {j \in i + 1 .. Len(q) : Visible(s, q[j])}
           J == {j \in 1 .. i - 1 : Visible(s, q[j])}
           K == {j \in i .. Len(q) : Visible(s, q[j])}
           A == {j \in 1 .. Len(q) : Visible(s, q[j])}
           after == IF I # {} THEN Min(I) ELSE 0
           before == IF J # {} THEN Max(J) ELSE 0
           to == IF dir > 0
                 THEN IF after # 0 THEN after ELSE IF A # {} THEN Min(A) ELSE 0
                 ELSE IF before # 0 THEN before ELSE IF K # {} THEN Max(K) ELSE 0
<1>1. q \in Seq(Client) /\ Len(q) \in Nat /\ i \in 0 .. Len(q)
  BY StateFields, LenProperties, IndexOfRange
<1>2. FocusStack(s, dir) = IF s.sel[s.selmon] = NULL \/ to = 0 THEN s
                           ELSE Focus(s, q[to])
  BY DEF FocusStack, SelectInSubSeq, SelectLastInSubSeq, SelectInSeq
<1> HIDE DEF q, i
<1>3. /\ I \in SUBSET (0 .. Len(q)) /\ J \in SUBSET (0 .. Len(q))
      /\ K \in SUBSET (0 .. Len(q)) /\ A \in SUBSET (0 .. Len(q))
      /\ I \in SUBSET Nat /\ A \in SUBSET Nat
  BY <1>1
<1> HIDE DEF I, J, K, A
<1>4. /\ I # {} => Min(I) \in 0 .. Len(q)
      /\ A # {} => Min(A) \in 0 .. Len(q)
  BY <1>1, <1>3, MinNat
<1>5. /\ J # {} => Max(J) \in 0 .. Len(q)
      /\ K # {} => Max(K) \in 0 .. Len(q)
  BY <1>1, <1>3, MaxNat
<1>6. to \in 0 .. Len(q)
  BY <1>1, <1>4, <1>5
<1> HIDE DEF to
<1>7. to # 0 => to \in 1 .. Len(q)
  BY <1>1, <1>6
<1> QED BY <1>2, <1>7 DEF q

LEMMA FocusStackType ==
  ASSUME NEW s \in State, NEW dir
  PROVE  FocusStack(s, dir) \in State
<1> DEFINE q == s.clients[s.selmon]
<1>1. q \in Seq(Client)
  BY StateFields
<1>2. \A i \in 1 .. Len(q) : q[i] \in ClientOrNull
  BY <1>1, ElementOfSeq, LenProperties DEF ClientOrNull
<1> QED BY <1>2, FocusStackStep, FocusType

\* zoom() does nothing or pops a client.
LEMMA ZoomStep ==
  ASSUME NEW s \in State
  PROVE  Zoom(s) = s \/ \E c \in Client : Zoom(s) = Pop(s, c)
<1> DEFINE m == s.selmon
           q == s.clients[m]
           c == s.sel[m]
           first == NextTiled(s, q, 1)
           second == IF first = 0 THEN 0 ELSE NextTiled(s, q, first + 1)
           to == IF c = At(q, first) THEN At(q, second) ELSE c
<1>1. q \in Seq(Client) /\ Len(q) \in Nat /\ c \in ClientOrNull
  BY StateFields, LenProperties
<1> HIDE DEF q, c
<1>2. first \in 0 .. Len(q)
  BY <1>1, NextTiledRange
<1>3. second \in 0 .. Len(q)
  <2>1. first # 0 => first + 1 \in 1 .. Len(q) + 1
    BY <1>1, <1>2
  <2> QED BY <1>1, <1>2, <2>1, NextTiledRange
<1> HIDE DEF first, second
<1>4. to \in ClientOrNull
  BY <1>1, <1>2, <1>3, AtType
<1> HIDE DEF to
<1>5. Zoom(s) = s \/ (to # NULL /\ Zoom(s) = Pop(s, to))
  BY DEF Zoom, m, q, c, first, second, to
<1> QED BY <1>4, <1>5 DEF ClientOrNull

LEMMA ZoomType ==
  ASSUME NEW s \in State
  PROVE  Zoom(s) \in State
BY ZoomStep, PopType

\* What pushdown() and pushup() do after they have relinked the list.
LEMMA RelinkType ==
  ASSUME NEW s \in State, NEW c \in Client, NEW m \in Mon
  PROVE  Arrange(Focus(s, c), m) \in State
BY FocusType, ArrangeType DEF ClientOrNull

\* What a command does that relinks the list, if it does anything.
RelinkStep(s, t) ==
  \/ t = s
  \/ \E u \in State, c \in Client, m \in Mon :
       SameFrame(s, u) /\ t = Arrange(Focus(u, c), m)

LEMMA PushDownStep ==
  ASSUME NEW s \in State
  PROVE  RelinkStep(s, PushDown(s))
<1> DEFINE m == s.selmon
           c == s.sel[m]
           q == s.clients[m]
           i == IndexOf(q, c)
           next == NextTiled(s, q, i + 1)
           moved == IF next # 0
                    THEN [s EXCEPT !.clients[m] = InsertAt(RemoveAt(q, i), next, c)]
                    ELSE Attach(Detach(s, c), c)
<1>1. /\ m \in Mon /\ q \in Seq(Client) /\ Len(q) \in Nat
      /\ c \in ClientOrNull
  BY StateFields, LenProperties
<1>2. i \in 0 .. Len(q)
  BY <1>1, IndexOfRange
<1>3. next \in {0} \cup (i + 1) .. Len(q)
  <2>1. i + 1 \in 1 .. Len(q) + 1
    BY <1>1, <1>2
  <2> QED BY <1>1, <2>1, NextTiledRange
<1> HIDE DEF m, c, q, i, next
<1>4. RemoveAt(q, i) \in Seq(Client) /\ Len(RemoveAt(q, i)) >= Len(q) - 1
  BY <1>1, <1>2, RemoveAtType
<1>5. ASSUME c # NULL
      PROVE  moved \in State /\ SameFrame(s, moved)
  <2>1. c \in Client
    BY <1>1, <1>5 DEF ClientOrNull
  <2>2. ASSUME next # 0
        PROVE  [s EXCEPT !.clients[m] = InsertAt(RemoveAt(q, i), next, c)] \in State
    <3>1. next \in 1 .. Len(RemoveAt(q, i)) + 1
      BY <1>1, <1>2, <1>3, <1>4, <2>2, LenProperties
    <3>2. InsertAt(RemoveAt(q, i), next, c) \in Seq(Client)
      BY <1>4, <2>1, <3>1, InsertAtType
    <3> QED BY <1>1, <3>2, SetClientsType
  <2>3. Attach(Detach(s, c), c) \in State /\ SameFrame(s, Attach(Detach(s, c), c))
    BY <2>1, DetachType, AttachType, LinksFrame, SameFrameTwice
  <2>4. \A x : SameFrame(s, [s EXCEPT !.clients[m] = x])
    BY FrameFields, ZenonT(60) DEF SameFrame, SameCreates
  <2> QED BY <2>2, <2>3, <2>4
<1> HIDE DEF moved
<1>6. PushDown(s) = s \/ (c # NULL /\ PushDown(s) = Arrange(Focus(moved, c), m))
  BY DEF PushDown, m, c, q, i, next, moved
<1> QED BY <1>1, <1>5, <1>6 DEF ClientOrNull, RelinkStep

LEMMA SetLostType ==
  ASSUME NEW s \in State, NEW m \in Mon, NEW q \in Seq(Client),
         NEW lost \in BOOLEAN
  PROVE  [s EXCEPT !.clients[m] = q, !.lost = lost] \in State
BY ZenonT(60) DEF State

LEMMA PushUpStep ==
  ASSUME NEW s \in State
  PROVE  RelinkStep(s, PushUp(s))
<1> DEFINE m == s.selmon
           c == s.sel[m]
           q == s.clients[m]
           i == IndexOf(q, c)
           J == {j \in 1 .. i - 1 : Tiled(s, q[j])}
           prev == IF J # {} THEN Max(J) ELSE 0
           rest == RemoveAt(q, i)
           moved == IF prev # 0 THEN InsertAt(rest, prev, c)
                    ELSE IF i = Len(q) THEN rest ELSE Append(rest, c)
           lost == s.lost \/ (prev = 0 /\ i = Len(q))
           t == [s EXCEPT !.clients[m] = moved, !.lost = lost]
<1>1. /\ m \in Mon /\ q \in Seq(Client) /\ Len(q) \in Nat
      /\ c \in ClientOrNull
  BY StateFields, LenProperties
<1>2. PushUp(s) = IF c = NULL \/ s.isfloating[c] THEN s
                  ELSE Arrange(Focus(t, c), m)
  BY DEF PushUp, SelectLastInSubSeq
<1>3. i \in 0 .. Len(q)
  BY <1>1, IndexOfRange
<1> HIDE DEF m, c, q, i
<1>4. J \in SUBSET (0 .. Len(q)) /\ (0 \notin J)
  BY <1>1, <1>3
<1>5. prev \in 0 .. Len(q) /\ (prev # 0 => prev <= i - 1)
  <2>1. J # {} => Max(J) \in J
    <3> HIDE DEF J
    <3> QED BY <1>1, <1>4, MaxNat
  <2>2. \A j \in J : j \in 0 .. Len(q) /\ j <= i - 1
    BY <1>1, <1>3
  <2> HIDE DEF J
  <2> QED BY <1>1, <2>1, <2>2
<1>6. rest \in Seq(Client) /\ Len(rest) = (IF i = 0 THEN Len(q) ELSE Len(q) - 1)
  BY <1>1, <1>3, RemoveAtType
<1> HIDE DEF J, prev, rest
<1>7. ASSUME c # NULL
      PROVE  moved \in Seq(Client)
  <2>1. c \in Client
    BY <1>1, <1>7 DEF ClientOrNull
  <2>2. prev # 0 => prev \in 1 .. Len(rest) + 1
    BY <1>1, <1>3, <1>5, <1>6
  <2>3. prev # 0 => InsertAt(rest, prev, c) \in Seq(Client)
    BY <1>6, <2>1, <2>2, InsertAtType
  <2> QED BY <1>6, <2>1, <2>3, AppendProperties
<1>8. lost \in BOOLEAN
  BY DEF State
<1> HIDE DEF moved, lost
<1>9. c # NULL => t \in State
  BY <1>1, <1>7, <1>8, SetLostType
<1>10. SameFrame(s, t)
  BY FrameFields, ZenonT(60) DEF SameFrame, SameCreates
<1> HIDE DEF t
<1> QED BY <1>1, <1>2, <1>9, <1>10 DEF ClientOrNull, RelinkStep

LEMMA PushType ==
  ASSUME NEW s \in State
  PROVE  PushDown(s) \in State /\ PushUp(s) \in State
<1>1. \A t : RelinkStep(s, t) => t \in State
  BY RelinkType DEF RelinkStep
<1> QED BY <1>1, PushDownStep, PushUpStep

LEMMA SetIsLeftType ==
  ASSUME NEW s \in State, NEW c \in Client, NEW left \in BOOLEAN
  PROVE  [s EXCEPT !.isLeft[c] = left] \in State
BY ZenonT(60) DEF State

LEMMA PushLeftType ==
  ASSUME NEW s \in State
  PROVE  PushLeft(s) \in State
<1> DEFINE c == s.sel[s.selmon]
           left == ~s.isLeft[c]
           t == [s EXCEPT !.isLeft[c] = left]
<1>1. c \in ClientOrNull
  BY StateFields
<1> HIDE DEF c
<1>2. left \in BOOLEAN
  OBVIOUS
<1> HIDE DEF left
<1>3. c # NULL => t \in State
  BY <1>1, <1>2, SetIsLeftType DEF ClientOrNull
<1> HIDE DEF t
<1>4. c # NULL => Focus(t, c) \in State
  BY <1>1, <1>3, FocusType
<1> QED BY <1>4, ArrangeType DEF PushLeft, c, t, left

-----------------------------------------------------------------------------
(* Layout, floating and fullscreen                                         *)

LEMMA SetNMasterType ==
  ASSUME NEW s \in State, NEW m \in Mon, NEW n \in Nat
  PROVE  [s EXCEPT !.nmaster[m] = n] \in State
BY ZenonT(60) DEF State

LEMMA IncNMasterType ==
  ASSUME NEW s \in State, NEW i \in Int
  PROVE  IncNMaster(s, i) \in State
<1> DEFINE n == s.nmaster[s.selmon] + i
           new == IF n > 0 THEN n ELSE 0
<1>1. s.selmon \in Mon /\ s.nmaster[s.selmon] \in Nat
  BY DEF State
<1>2. new \in Nat
  BY <1>1
<1> HIDE DEF new
<1>3. [s EXCEPT !.nmaster[s.selmon] = new] \in State
  BY <1>1, <1>2, SetNMasterType
<1> QED BY <1>3, ArrangeType DEF IncNMaster, new

LEMMA SetLtType ==
  ASSUME NEW s \in State, NEW m \in Mon, NEW k \in Slot, NEW new \in Layout
  PROVE  [s EXCEPT !.sellt[m] = k, !.lt[m][k] = new] \in State
BY ZenonT(60) DEF State

LEMMA SetLayoutType ==
  ASSUME NEW s \in State, NEW layout \in Layout \cup {"toggle"}
  PROVE  SetLayout(s, layout) \in State
<1> DEFINE m == s.selmon
           flip == layout = "toggle" \/ layout # s.lt[m][s.sellt[m]]
           k == IF flip THEN 1 - s.sellt[m] ELSE s.sellt[m]
           new == IF layout = "toggle" THEN s.lt[m][k] ELSE layout
           t == [s EXCEPT !.sellt[m] = k, !.lt[m][k] = new]
<1>1. m \in Mon /\ k \in Slot
  BY DEF State, Slot
<1>2. new \in Layout
  <2> HIDE DEF m, k
  <2> QED BY <1>1 DEF State
<1> HIDE DEF m, k, new
<1>3. t \in State
  BY <1>1, <1>2, SetLtType
<1> HIDE DEF t
<1> QED BY <1>3, ArrangeType DEF SetLayout, t, m, k, new

LEMMA SetFloatingType ==
  ASSUME NEW s \in State, NEW c \in Client, NEW float \in BOOLEAN
  PROVE  [s EXCEPT !.isfloating[c] = float] \in State
BY ZenonT(60) DEF State

LEMMA ToggleFloatingType ==
  ASSUME NEW s \in State
  PROVE  ToggleFloating(s) \in State
<1> DEFINE c == s.sel[s.selmon]
           float == ~s.isfloating[c] \/ s.isfixed[c]
<1>1. c \in ClientOrNull /\ float \in BOOLEAN
  BY StateFields
<1> HIDE DEF c, float
<1>2. c # NULL => [s EXCEPT !.isfloating[c] = float] \in State
  BY <1>1, SetFloatingType DEF ClientOrNull
<1> QED BY <1>2, ArrangeType DEF ToggleFloating, c, float

LEMMA ToggleFullscrType ==
  ASSUME NEW s \in State
  PROVE  ToggleFullscr(s) \in State
BY StateFields, SetFullscreenType DEF ToggleFullscr, ClientOrNull

-----------------------------------------------------------------------------
(* Monitors                                                                *)

LEMMA SetSelmonType ==
  ASSUME NEW s \in State, NEW m \in Mon
  PROVE  [s EXCEPT !.selmon = m] \in State
BY ZenonT(60) DEF State

LEMMA FocusMonType ==
  ASSUME NEW s \in State, NEW dir
  PROVE  FocusMon(s, dir) \in State
BY DirToMonType, SetSelmonType, FocusType DEF FocusMon, ClientOrNull

LEMMA SelectMonType ==
  ASSUME NEW s \in State, NEW m \in Mon
  PROVE  SelectMon(s, m) \in State
BY UnfocusType, SetSelmonType DEF SelectMon

LEMMA MoveType ==
  ASSUME NEW s \in State, NEW c \in Client, NEW m \in Mon
  PROVE  [s EXCEPT !.mon[c] = m] \in State
BY ZenonT(60) DEF State

LEMMA MoveRetagType ==
  ASSUME NEW s \in State, NEW c \in Client, NEW m \in Mon,
         NEW new \in SUBSET Tag
  PROVE  [s EXCEPT !.mon[c] = m, !.tags[c] = new] \in State
BY ZenonT(60) DEF State

LEMMA SendMonType ==
  ASSUME NEW s \in State, NEW c \in Client, NEW m \in Mon
  PROVE  SendMon(s, c, m) \in State
<1> DEFINE out == DetachStack(Detach(Unfocus(s, c), c), c)
           view == ViewOf(s, m)
           moved == [out EXCEPT !.mon[c] = m, !.tags[c] = view]
<1>1. out \in State
  BY UnfocusType, DetachType, DetachStackType
<1>2. view \in SUBSET Tag
  BY ViewOfType
<1> HIDE DEF out, view
<1>3. moved \in State
  BY <1>1, <1>2, MoveRetagType
<1> HIDE DEF moved
<1>4. AttachStack(AttachBelow(moved, c), c) \in State
  BY <1>3, AttachBelowType, AttachStackType
<1>5. ArrangeAll(Focus(AttachStack(AttachBelow(moved, c), c), NULL)) \in State
  BY <1>4, FocusType, ArrangeType DEF ClientOrNull
<1> QED BY <1>5 DEF SendMon, out, moved, view

LEMMA TagMonType ==
  ASSUME NEW s \in State, NEW dir
  PROVE  TagMon(s, dir) \in State
BY StateFields, DirToMonType, SendMonType DEF TagMon, ClientOrNull

LEMMA EnterType ==
  ASSUME NEW s \in State, NEW c \in Client, NEW m \in Mon
  PROVE  EnterClient(s, c) \in State /\ EnterRoot(s, m) \in State
BY StateFields, SelectMonType, FocusType
   DEF EnterClient, EnterRoot, ClientOrNull

LEMMA SetMotionMonType ==
  ASSUME NEW s \in State, NEW m \in Mon
  PROVE  [s EXCEPT !.motionmon = m] \in State
BY ZenonT(60) DEF State

LEMMA MotionNotifyType ==
  ASSUME NEW s \in State, NEW m \in Mon
  PROVE  MotionNotify(s, m) \in State
<1> DEFINE t == IF m # s.motionmon /\ s.motionmon # NULL
                THEN Focus(SelectMon(s, m), NULL) ELSE s
<1>1. t \in State
  BY SelectMonType, FocusType DEF ClientOrNull
<1> HIDE DEF t
<1>2. [t EXCEPT !.motionmon = m] \in State
  BY <1>1, SetMotionMonType
<1> QED BY <1>2 DEF MotionNotify, t

LEMMA ButtonPressType ==
  ASSUME NEW s \in State, NEW c \in Client
  PROVE  ButtonPress(s, c) \in State
BY StateFields, SelectMonType, FocusType DEF ButtonPress, ClientOrNull

-----------------------------------------------------------------------------
(* Clients come and go, and change their properties                        *)

LEMMA UpdateWindowTypeType ==
  ASSUME NEW s \in State, NEW c \in Client, NEW fullscreen \in BOOLEAN,
         NEW dialog \in BOOLEAN
  PROVE  UpdateWindowType(s, c, fullscreen, dialog) \in State
BY SetFullscreenType, SetFloatingType DEF UpdateWindowType

LEMMA UpdateWmHintsType ==
  ASSUME NEW s \in State, NEW c \in Client, NEW urgent \in BOOLEAN,
         NEW neverfocus \in BOOLEAN
  PROVE  UpdateWmHints(s, c, urgent, neverfocus) \in State
<1> DEFINE new == IF urgent /\ c = s.sel[s.selmon]
                  THEN s.isurgent[c] ELSE urgent
<1>1. new \in BOOLEAN
  BY DEF State
<1> HIDE DEF new
<1>2. [s EXCEPT !.isurgent[c] = new, !.neverfocus[c] = neverfocus] \in State
  BY <1>1, ZenonT(60) DEF State
<1> QED BY <1>2 DEF UpdateWmHints, new

\* What manage() assigns before and after it links the client.
LEMMA BornType ==
  ASSUME NEW s \in State, NEW c \in Client, NEW m \in Mon,
         NEW tags \in SUBSET Tag, NEW isfloating \in BOOLEAN,
         NEW isLeft \in BOOLEAN
  PROVE  [s EXCEPT !.mon[c] = m, !.tags[c] = tags,
                   !.isfloating[c] = isfloating, !.isLeft[c] = isLeft] \in State
BY ZenonT(60) DEF State

LEMMA SetFixedType ==
  ASSUME NEW s \in State, NEW c \in Client, NEW fixed \in BOOLEAN
  PROVE  [s EXCEPT !.isfixed[c] = fixed] \in State
BY ZenonT(60) DEF State

LEMMA FloatedType ==
  ASSUME NEW s \in State, NEW c \in Client, NEW float \in BOOLEAN
  PROVE  [s EXCEPT !.isfloating[c] = float, !.oldstate[c] = float] \in State
BY ZenonT(60) DEF State

LEMMA SetSelType ==
  ASSUME NEW s \in State, NEW m \in Mon, NEW c \in ClientOrNull
  PROVE  [s EXCEPT !.sel[m] = c] \in State
BY ZenonT(60) DEF State

LEMMA RuleTagsType ==
  ASSUME NEW s \in State, NEW m \in Mon, NEW kind \in Kind
  PROVE  RuleTags(s, m, kind) \in SUBSET Tag
BY DEF RuleTags, State, Kind

LEMMA ManageArrangedType ==
  ASSUME NEW s \in State, NEW c \in Client, NEW kind \in Kind,
         NEW p \in ClientOrNull
  PROVE  ManageArranged(s, c, kind, p) \in State
<1> DEFINE m == IF p = NULL THEN s.selmon ELSE s.mon[p]
           ruled == p = NULL
           tags == IF ruled THEN RuleTags(s, m, kind) ELSE s.tags[p]
           isfloating == ruled /\ kind.isfloating
           isLeft == ruled /\ kind.isLeft
           born == [s EXCEPT !.mon[c] = m, !.tags[c] = tags,
                             !.isfloating[c] = isfloating, !.isLeft[c] = isLeft]
           typed == UpdateWindowType(born, c, kind.fullscreen, kind.dialog)
           fixed == [typed EXCEPT !.isfixed[c] = kind.isfixed]
           hinted == UpdateWmHints(fixed, c, kind.urgent, kind.neverfocus)
           float == kind.transient \/ kind.isfixed
           floated == [hinted EXCEPT !.isfloating[c] = float,
                                     !.oldstate[c] = float]
           placed == IF hinted.isfloating[c] THEN hinted ELSE floated
           linked == AttachStack(AttachBelow(placed, c), c)
           selected == [linked EXCEPT !.sel[m] = c]
<1>1. /\ kind.isfloating \in BOOLEAN /\ kind.isLeft \in BOOLEAN
      /\ kind.fullscreen \in BOOLEAN /\ kind.dialog \in BOOLEAN
      /\ kind.isfixed \in BOOLEAN /\ kind.urgent \in BOOLEAN
      /\ kind.neverfocus \in BOOLEAN /\ kind.transient \in BOOLEAN
  BY DEF Kind
<1>2. m \in Mon
  BY StateFields DEF ClientOrNull
<1>3. tags \in SUBSET Tag
  BY <1>2, StateFields, RuleTagsType DEF ClientOrNull
<1>4. isfloating \in BOOLEAN /\ isLeft \in BOOLEAN /\ float \in BOOLEAN
  BY <1>1
<1> HIDE DEF m, tags, isfloating, isLeft, float
<1>5. born \in State
  BY <1>2, <1>3, <1>4, BornType
<1> HIDE DEF born
<1>6. typed \in State
  BY <1>1, <1>5, UpdateWindowTypeType
<1> HIDE DEF typed
<1>7. fixed \in State
  BY <1>1, <1>6, SetFixedType
<1> HIDE DEF fixed
<1>8. hinted \in State
  BY <1>1, <1>7, UpdateWmHintsType
<1> HIDE DEF hinted
<1>9. floated \in State
  BY <1>4, <1>8, FloatedType
<1> HIDE DEF floated
<1>10. linked \in State
  BY <1>8, <1>9, AttachBelowType, AttachStackType
<1> HIDE DEF linked
<1>11. selected \in State
  BY <1>2, <1>10, SetSelType DEF ClientOrNull
<1> HIDE DEF selected
<1>12. Arrange(selected, m) \in State
  BY <1>11, ArrangeType
<1> QED BY <1>12 DEF ManageArranged, selected, linked, floated, hinted, fixed,
                     typed, born, m, tags, isfloating, isLeft, float

LEMMA ManageType ==
  ASSUME NEW s \in State, NEW c \in Client, NEW kind \in Kind,
         NEW p \in ClientOrNull
  PROVE  Manage(s, c, kind, p) \in State
BY ManageArrangedType, FocusType DEF Manage, ClientOrNull

LEMMA FreeClientType ==
  ASSUME NEW s \in State, NEW c \in Client
  PROVE  FreeClient(s, c) \in State
<1> DEFINE rest == s.focusin \ {c}
<1>1. 1 \in Mon /\ {} \in SUBSET Tag /\ rest \in SUBSET Client
  BY ConstantsAssumption DEF Mon, State
<1> HIDE DEF rest
<1> DEFINE a == [s EXCEPT !.mon[c] = 1, !.tags[c] = {},
                          !.isfloating[c] = FALSE, !.isfullscreen[c] = FALSE]
           b == [a EXCEPT !.oldstate[c] = FALSE, !.isfixed[c] = FALSE,
                          !.isurgent[c] = FALSE, !.neverfocus[c] = FALSE]
           d == [b EXCEPT !.isLeft[c] = FALSE, !.shown[c] = FALSE,
                          !.gone[c] = FALSE, !.focusin = rest]
<1>2. a \in State
  BY <1>1, ZenonT(60) DEF State
<1>3. ASSUME NEW x \in State
      PROVE  [x EXCEPT !.oldstate[c] = FALSE, !.isfixed[c] = FALSE,
                       !.isurgent[c] = FALSE, !.neverfocus[c] = FALSE] \in State
  BY ZenonT(60) DEF State
<1>4. ASSUME NEW x \in State
      PROVE  [x EXCEPT !.isLeft[c] = FALSE, !.shown[c] = FALSE,
                       !.gone[c] = FALSE, !.focusin = rest] \in State
  BY <1>1, ZenonT(60) DEF State
<1>5. d \in State
  BY <1>2, <1>3, <1>4
<1> QED BY <1>5, Zenon DEF FreeClient, rest

LEMMA UnmanageType ==
  ASSUME NEW s \in State, NEW c \in Client
  PROVE  Unmanage(s, c) \in State
<1> DEFINE out == FreeClient(DetachStack(Detach(s, c), c), c)
<1>1. out \in State
  BY DetachType, DetachStackType, FreeClientType
<1> HIDE DEF out
<1>2. Focus(Arrange(out, s.mon[c]), NULL) \in State
  BY <1>1, ArrangeType, FocusType DEF ClientOrNull
<1> QED BY <1>2 DEF Unmanage, out

LEMMA ActiveWindowMessageType ==
  ASSUME NEW s \in State, NEW c \in Client
  PROVE  ActiveWindowMessage(s, c) \in State
BY ZenonT(60) DEF ActiveWindowMessage, State

LEMMA TransientForType ==
  ASSUME NEW s \in State, NEW c \in Client, NEW managed
  PROVE  TransientFor(s, c, managed) \in State
BY SetFloatingType, ArrangeType DEF TransientFor

LEMMA SetFocusInType ==
  ASSUME NEW s \in State, NEW rest \in SUBSET Client
  PROVE  [s EXCEPT !.focusin = rest] \in State
BY ZenonT(60) DEF State

LEMMA FocusInType ==
  ASSUME NEW s \in State, NEW c \in Client
  PROVE  FocusIn(s, c) \in State
<1> DEFINE rest == s.focusin \ {c}
           t == [s EXCEPT !.focusin = rest]
<1>1. rest \in SUBSET Client
  BY DEF State
<1> HIDE DEF rest
<1>2. t \in State
  BY <1>1, SetFocusInType
<1> HIDE DEF t
<1> QED BY <1>2, StateFields, SetFocusType DEF FocusIn, ClientOrNull, t, rest

-----------------------------------------------------------------------------
(* Monitors are connected and disconnected                                 *)

LEMMA MoveToFirstType ==
  ASSUME NEW s \in State, NEW c \in Client
  PROVE  MoveToFirst(s, c) \in State
<1> DEFINE out == DetachStack(Detach(s, c), c)
<1>1. 1 \in Mon
  BY ConstantsAssumption DEF Mon
<1>2. [out EXCEPT !.mon[c] = 1] \in State
  BY <1>1, DetachType, DetachStackType, MoveType
<1> QED BY <1>2, AttachBelowType, AttachStackType DEF MoveToFirst

\* No step of MoveToFirst() changes how many monitors there are.
LEMMA MoveToFirstKeepsMonitors ==
  ASSUME NEW s \in State, NEW c \in Client
  PROVE  MoveToFirst(s, c).nmon = s.nmon
<1>1. ASSUME NEW r \in State
      PROVE  /\ Attach(r, c).nmon = r.nmon
             /\ AttachBelow(r, c).nmon = r.nmon
             /\ AttachStack(r, c).nmon = r.nmon
             /\ Detach(r, c).nmon = r.nmon
             /\ DetachStack(r, c).nmon = r.nmon
             /\ [r EXCEPT !.mon[c] = 1].nmon = r.nmon
  <2>1. "nmon" \in DOMAIN r
    BY StateDomain
  <2>2. /\ Attach(r, c).nmon = r.nmon /\ AttachBelow(r, c).nmon = r.nmon
        /\ AttachStack(r, c).nmon = r.nmon
    BY <2>1, ZenonT(60) DEF Attach, AttachBelow, AttachStack
  <2>3. /\ Detach(r, c).nmon = r.nmon /\ DetachStack(r, c).nmon = r.nmon
        /\ [r EXCEPT !.mon[c] = 1].nmon = r.nmon
    BY <2>1, ZenonT(60) DEF Detach, DetachStack
  <2> QED BY <2>2, <2>3
<1> DEFINE out == DetachStack(Detach(s, c), c)
           moved == [out EXCEPT !.mon[c] = 1]
<1>2. out \in State /\ out.nmon = s.nmon
  BY <1>1, DetachType, DetachStackType
<1>3. 1 \in Mon
  BY ConstantsAssumption DEF Mon
<1> HIDE DEF out
<1>4. moved \in State /\ moved.nmon = s.nmon
  BY <1>1, <1>2, <1>3, MoveType
<1> HIDE DEF moved
<1>5. AttachBelow(moved, c) \in State /\ AttachBelow(moved, c).nmon = s.nmon
  BY <1>1, <1>4, AttachBelowType
<1>6. AttachStack(AttachBelow(moved, c), c).nmon = s.nmon
  BY <1>1, <1>5
<1> QED BY <1>6 DEF MoveToFirst, moved, out

\* moved[i] is the state after the first i clients of q have moved.
MovedSoFar(moved, s, q) ==
  /\ moved[0] = s
  /\ \A i \in 1 .. Len(q) : moved[i] = MoveToFirst(moved[i - 1], q[i])

LEMMA MoveAllUnfolds ==
  ASSUME NEW s \in State, NEW m \in Mon
  PROVE  \E moved : /\ MoveAll(s, m) = moved[Len(s.clients[m])]
                    /\ MovedSoFar(moved, s, s.clients[m])
<1> DEFINE q == s.clients[m]
           n == Len(q)
           Up(f) == f = [i \in 0 .. n |->
                           IF i = 0 THEN s ELSE MoveToFirst(f[i - 1], q[i])]
           moved == CHOOSE f : Up(f)
<1>1. MoveAll(s, m) = moved[n]
  BY Zenon DEF MoveAll
<1>2. n \in Nat /\ \A i \in 1 .. n : q[i] \in Client
  <2>1. q \in Seq(Client)
    BY DEF State
  <2> QED BY <2>1, LenProperties, ElementOfSeq
<1> HIDE DEF n, q
<1>3. \E f : Up(f)
  <2> DEFINE step == [p \in (1 .. n) \X State |-> MoveToFirst(p[2], q[p[1]])]
  <2>1. ASSUME NEW p \in (1 .. n) \X State
        PROVE  MoveToFirst(p[2], q[p[1]]) \in State
    BY <1>2, MoveToFirstType
  <2>2. step \in [(1 .. n) \X State -> State]
    BY <2>1
  <2> HIDE DEF step
  <2>3. PICK f : Recursion(f, State, n, s, step)
    BY <1>2, <2>2, RecursionExists
  <2>4. \A i \in 0 .. n : i # 0 => f[i - 1] \in State /\ i \in 1 .. n
    BY <1>2, <2>3 DEF Recursion
  <2>5. Up(f)
    BY <2>3, <2>4 DEF Recursion, step
  <2> QED BY <2>5
<1>4. Up(moved)
  BY <1>3
<1>5. \A i \in 0 .. n :
        moved[i] = IF i = 0 THEN s ELSE MoveToFirst(moved[i - 1], q[i])
  BY <1>4, Zenon
<1> HIDE DEF moved
<1>6. moved[0] = s
  <2>1. 0 \in 0 .. n
    BY <1>2
  <2> QED BY <1>5, <2>1, Zenon
<1>7. \A i \in 1 .. n : moved[i] = MoveToFirst(moved[i - 1], q[i])
  <2>1. \A i \in 1 .. n : i \in 0 .. n /\ i # 0
    BY <1>2
  <2> QED BY <1>5, <2>1, Zenon
<1>8. MovedSoFar(moved, s, q)
  BY <1>6, <1>7 DEF MovedSoFar, n
<1> QED BY <1>1, <1>8 DEF n, q

LEMMA MoveAllType ==
  ASSUME NEW s \in State, NEW m \in Mon
  PROVE  MoveAll(s, m) \in State /\ MoveAll(s, m).nmon = s.nmon
<1> DEFINE q == s.clients[m]
           n == Len(q)
           Same == {r \in State : r.nmon = s.nmon}
<1>1. PICK moved : MoveAll(s, m) = moved[n] /\ MovedSoFar(moved, s, q)
  BY MoveAllUnfolds
<1>2. n \in Nat /\ \A i \in 1 .. n : q[i] \in Client
  <2>1. q \in Seq(Client)
    BY DEF State
  <2> QED BY <2>1, LenProperties, ElementOfSeq
<1>3. moved[0] = s /\ \A i \in 1 .. n : moved[i] = MoveToFirst(moved[i - 1], q[i])
  BY <1>1 DEF MovedSoFar
<1>4. \A r \in Same, c \in Client : MoveToFirst(r, c) \in Same
  BY MoveToFirstType, MoveToFirstKeepsMonitors
<1>5. s \in Same
  OBVIOUS
<1> HIDE DEF n, q, Same
<1> DEFINE T == {i \in 0 .. n : moved[i] \in Same}
<1>6. 0 \in T
  BY <1>2, <1>3, <1>5
<1>7. ASSUME NEW i \in 1 .. n, i - 1 \in T
      PROVE  i \in T
  BY <1>2, <1>3, <1>4, <1>7
<1>8. \A i \in 0 .. n : i \in T
  <2> HIDE DEF T
  <2> QED BY <1>2, <1>6, <1>7, InductionUpTo
<1>9. moved[n] \in Same
  BY <1>2, <1>8
<1> QED BY <1>1, <1>9 DEF Same, n

LEMMA CleanupMonType ==
  ASSUME NEW s \in State, NEW m \in Mon
  PROVE  CleanupMon(s, m) \in State /\ CleanupMon(s, m).nmon = s.nmon
<1> DEFINE new == InitialState(1, 1)
<1>1. 1 \in Mon /\ 0 \in Slot /\ NULL \in ClientOrNull
  BY ConstantsAssumption DEF Mon, Slot, ClientOrNull
<1>2. new \in State
  BY <1>1, InitialStateType
<1> HIDE DEF new
<1> DEFINE a == [s EXCEPT !.tagset[m] = new.tagset[m], !.seltags[m] = 0,
                          !.createtag[m] = new.createtag[m],
                          !.remtagset[m] = new.remtagset[m]]
           b == [a EXCEPT !.remzoomed[m] = new.remzoomed[m],
                          !.zoomed[m] = new.zoomed[m],
                          !.lt[m] = new.lt[m]]
           d == [b EXCEPT !.sellt[m] = 0, !.nmaster[m] = 1, !.sel[m] = NULL]
<1>3. a \in State
  BY <1>1, <1>2, ZenonT(60) DEF State
<1>4. ASSUME NEW x \in State
      PROVE  [x EXCEPT !.remzoomed[m] = new.remzoomed[m],
                       !.zoomed[m] = new.zoomed[m],
                       !.lt[m] = new.lt[m]] \in State
  BY <1>2, ZenonT(60) DEF State
<1>5. ASSUME NEW x \in State
      PROVE  [x EXCEPT !.sellt[m] = 0, !.nmaster[m] = 1, !.sel[m] = NULL]
               \in State
  <2>1. 1 \in Nat
    OBVIOUS
  <2> QED BY <1>1, <2>1, ZenonT(60) DEF State
<1>6. d \in State
  BY <1>3, <1>4, <1>5
<1>7. CleanupMon(s, m) = d
  BY Zenon DEF CleanupMon, new
<1>8. CleanupMon(s, m).nmon = s.nmon
  BY DEF CleanupMon, State
<1> QED BY <1>6, <1>7, <1>8

LEMMA RemoveMonType ==
  ASSUME NEW s \in State, s.nmon # 1
  PROVE  RemoveMon(s) \in State /\ RemoveMon(s).nmon = s.nmon - 1
<1> DEFINE m == s.nmon
           empty == MoveAll(s, m)
           sel == IF empty.selmon = m THEN 1 ELSE empty.selmon
           left == [empty EXCEPT !.selmon = sel, !.nmon = m - 1]
<1>1. m \in Mon /\ m - 1 \in Mon /\ 1 \in Mon
  BY StateFields, ConstantsAssumption DEF Mon
<1>2. empty \in State
  BY <1>1, MoveAllType
<1> HIDE DEF m, empty
<1>3. sel \in Mon
  BY <1>1, <1>2 DEF State
<1> HIDE DEF sel
<1> DEFINE k == m - 1
<1>4. k \in Mon
  BY <1>1
<1> HIDE DEF k
<1>5. left \in State
  <2>1. [empty EXCEPT !.selmon = sel, !.nmon = k] \in State
    BY <1>2, <1>3, <1>4, ZenonT(60) DEF State
  <2> QED BY <2>1 DEF k
<1>6. left.nmon = m - 1
  BY <1>2 DEF State
<1> HIDE DEF left
<1>7. CleanupMon(left, m) \in State /\ CleanupMon(left, m).nmon = m - 1
  BY <1>1, <1>5, <1>6, CleanupMonType
<1> QED BY <1>7 DEF RemoveMon, m, empty, sel, left

\* removed[i] is the state after i monitors have been removed.
RemovedSoFar(removed, s, k) ==
  /\ removed[0] = s
  /\ \A i \in 1 .. k : removed[i] = RemoveMon(removed[i - 1])
  /\ \A i \in 0 .. k : removed[i] \in State /\ removed[i].nmon = s.nmon - i

LEMMA RemoveMonsUnfolds ==
  ASSUME NEW s \in State, NEW k \in Nat, k < s.nmon
  PROVE  \E removed : /\ RemoveMons(s, k) = removed[k]
                      /\ RemovedSoFar(removed, s, k)
<1> DEFINE Up(f) == f = [i \in 0 .. k |->
                           IF i = 0 THEN s ELSE RemoveMon(f[i - 1])]
           removed == CHOOSE f : Up(f)
           Good(r, i) == r \in State /\ r.nmon = s.nmon - i
<1>1. RemoveMons(s, k) = removed[k]
  BY Zenon DEF RemoveMons
<1>2. ASSUME NEW r, NEW i \in 1 .. k, Good(r, i - 1)
      PROVE  Good(RemoveMon(r), i)
  <2>1. s.nmon \in Nat
    BY StateFields, ConstantsAssumption DEF Mon
  <2>2. r \in State /\ r.nmon = s.nmon - (i - 1)
    BY <1>2
  <2>3. r.nmon # 1 /\ r.nmon - 1 = s.nmon - i
    BY <2>1, <2>2
  <2> QED BY <2>2, <2>3, RemoveMonType
<1>3. Good(s, 0)
  BY StateFields, ConstantsAssumption DEF Mon
<1>4. \E f : Up(f)
  <2> DEFINE step == [p \in (1 .. k) \X State |->
                        IF Good(p[2], p[1] - 1) THEN RemoveMon(p[2]) ELSE s]
  <2>1. ASSUME NEW p \in (1 .. k) \X State
        PROVE  (IF Good(p[2], p[1] - 1) THEN RemoveMon(p[2]) ELSE s) \in State
    <3>1. p[1] \in 1 .. k
      OBVIOUS
    <3> QED BY <1>2, <3>1
  <2> HIDE DEF Good
  <2>2. step \in [(1 .. k) \X State -> State]
    BY <2>1
  <2> HIDE DEF step
  <2>3. PICK f : Recursion(f, State, k, s, step)
    BY <2>2, RecursionExists
  <2> DEFINE T == {i \in 0 .. k : Good(f[i], i)}
  <2>4. 0 \in T
    BY <1>3, <2>3 DEF Recursion
  <2>5. ASSUME NEW i \in 1 .. k, Good(f[i - 1], i - 1)
        PROVE  f[i] = RemoveMon(f[i - 1])
    <3>1. f[i - 1] \in State
      BY <2>3 DEF Recursion
    <3>2. f[i] = step[<<i, f[i - 1]>>]
      BY <2>3 DEF Recursion
    <3> QED BY <2>5, <3>1, <3>2 DEF step
  <2>6. ASSUME NEW i \in 1 .. k, i - 1 \in T
        PROVE  i \in T
    <3>1. Good(f[i - 1], i - 1)
      BY <2>6
    <3> QED BY <1>2, <2>5, <3>1
  <2>7. \A i \in 0 .. k : i \in T
    <3> HIDE DEF T
    <3> QED BY <2>4, <2>6, InductionUpTo
  <2>8. \A i \in 0 .. k : i # 0 => i \in 1 .. k /\ Good(f[i - 1], i - 1)
    BY <2>7
  <2>9. Up(f)
    BY <2>3, <2>5, <2>8 DEF Recursion
  <2> QED BY <2>9
<1>5. Up(removed)
  BY <1>4
<1>6. \A i \in 0 .. k :
        removed[i] = IF i = 0 THEN s ELSE RemoveMon(removed[i - 1])
  BY <1>5, Zenon
<1> HIDE DEF removed, Good
<1> DEFINE T == {i \in 0 .. k : Good(removed[i], i)}
<1>7. 0 \in T
  <2>1. 0 \in 0 .. k
    OBVIOUS
  <2>2. removed[0] = s
    BY <1>6, <2>1, Zenon
  <2> QED BY <1>3, <2>1, <2>2
<1>8. ASSUME NEW i \in 1 .. k, i - 1 \in T
      PROVE  i \in T
  <2>1. removed[i] = RemoveMon(removed[i - 1])
    BY <1>6
  <2> QED BY <1>2, <1>8, <2>1
<1>9. \A i \in 0 .. k : i \in T
  <2> HIDE DEF T
  <2> QED BY <1>7, <1>8, InductionUpTo
<1>10. removed[0] = s /\ \A i \in 1 .. k : removed[i] = RemoveMon(removed[i - 1])
  <2>1. 0 \in 0 .. k /\ \A i \in 1 .. k : i \in 0 .. k /\ i # 0
    OBVIOUS
  <2> QED BY <1>6, <2>1, Zenon
<1>11. RemovedSoFar(removed, s, k)
  BY <1>9, <1>10 DEF RemovedSoFar, Good
<1> QED BY <1>1, <1>11

LEMMA RemoveMonsType ==
  ASSUME NEW s \in State, NEW k \in Nat, k < s.nmon
  PROVE  RemoveMons(s, k) \in State /\ RemoveMons(s, k).nmon = s.nmon - k
<1>1. PICK removed : /\ RemoveMons(s, k) = removed[k]
                     /\ RemovedSoFar(removed, s, k)
  BY RemoveMonsUnfolds
<1>2. k \in 0 .. k
  OBVIOUS
<1> QED BY <1>1, <1>2 DEF RemovedSoFar

LEMMA SetNMonType ==
  ASSUME NEW s \in State, NEW n \in Mon
  PROVE  [s EXCEPT !.nmon = n] \in State
BY ZenonT(60) DEF State

\* Whatever updategeom() has done, focus() and arrange() follow.
LEMMA ConfigureNotifyStep ==
  ASSUME NEW s \in State, NEW n \in Mon, NEW p \in Mon
  PROVE  \E u \in State : ConfigureNotify(s, n, p) = ArrangeAll(Focus(u, NULL))
<1> DEFINE t == IF n >= s.nmon THEN [s EXCEPT !.nmon = n]
                ELSE RemoveMons(s, s.nmon - n)
           dirty == n >= s.nmon \/ \E m \in n + 1 .. s.nmon : s.clients[m] # << >>
           sel == IF dirty THEN p ELSE t.selmon
           u == [t EXCEPT !.selmon = sel]
<1>1. [s EXCEPT !.nmon = n] \in State
  BY SetNMonType
<1>2. ASSUME ~(n >= s.nmon)
      PROVE  RemoveMons(s, s.nmon - n) \in State
  <2>1. s.nmon - n \in Nat /\ s.nmon - n < s.nmon
    BY <1>2, StateFields, ConstantsAssumption DEF Mon
  <2> QED BY <2>1, RemoveMonsType
<1>3. t \in State
  BY <1>1, <1>2
<1> HIDE DEF t, dirty
<1>4. sel \in Mon
  BY <1>3, StateFields
<1> HIDE DEF sel
<1>5. u \in State
  BY <1>3, <1>4, SetSelmonType
<1>6. ConfigureNotify(s, n, p) = ArrangeAll(Focus(u, NULL))
  BY DEF ConfigureNotify, sel, dirty, t
<1> QED BY <1>5, <1>6

LEMMA ConfigureNotifyType ==
  ASSUME NEW s \in State, NEW n \in Mon, NEW p \in Mon
  PROVE  ConfigureNotify(s, n, p) \in State
<1>1. PICK u \in State : ConfigureNotify(s, n, p) = ArrangeAll(Focus(u, NULL))
  BY ConfigureNotifyStep
<1>2. NULL \in ClientOrNull
  BY DEF ClientOrNull
<1> QED BY <1>1, <1>2, FocusType, ArrangeType
=============================================================================
