----------------------------- MODULE PageProofs -----------------------------
(***************************************************************************)
(* What the pages of the dashboard show, for every value of its constants: *)
(* the list and the top of the Live messages page, the form of the Quiet   *)
(* hours page and what a save overwrites, the buttons that say busy, the   *)
(* list and the panel of the Apps page, and the types of it all.           *)
(***************************************************************************)
EXTENDS DashboardProofs, SequenceTheorems

-----------------------------------------------------------------------------
(* The event stream: sources, and the list they fill.                      *)

Phases == {"none", "accepted", "subscribed", "live"}

SourceState ==
    [readyState: States4, ok: BOOLEAN, phase: Phases, lastSent: Nat, listed: BOOLEAN,
     inbox: Seq(Ids), wire: Seq(Ids), whole: BOOLEAN]

\* Source x, while messages 1..n are stored.  Frames on their way ascend up to
\* lastSent, whatever the order of the inbox.
Ascends(x, n) ==
    /\ x.lastSent <= n
    /\ \A k \in 1..Len(x.inbox) : x.inbox[k] <= n
    /\ \A k \in 1..Len(x.wire) : x.wire[k] <= x.lastSent
    /\ \A j, k \in 1..Len(x.wire) : j < k => x.wire[j] < x.wire[k]
    /\ x.wire # <<>> => x.wire[Len(x.wire)] = x.lastSent
    /\ x.phase # "live" => x.lastSent = 0 /\ x.wire = <<>>

SourcesAscend ==
    /\ log \in 0..MaxMessages
    /\ source \in [1..Sources -> SourceState]
    /\ \A i \in 1..Sources : Ascends(source[i], log)

ScreenShape ==
    /\ messagesPage \in [cred: {"blank", "valid", "wrong"}, busy: BOOLEAN,
                         conn: {"idle", "connecting", "open", "error"}, ref: 0..Sources,
                         events: Seq(Ids), fresh: 0..EventCap]
    /\ Len(messagesPage.events) <= EventCap
    /\ messagesPage.fresh <= Len(messagesPage.events)

\* Page pg shows what source x brought, up to the first frame on its way.
ShowsUpTo(pg, x) ==
    /\ pg.fresh > 0 => /\ pg.events[1] <= x.lastSent
                       /\ \A k \in 1..Len(x.wire) : pg.events[1] < x.wire[k]
    /\ x.wire = <<>> => IF pg.fresh = 0 THEN x.lastSent = 0
                        ELSE pg.events[1] = x.lastSent

ListFollows ==
    /\ StreamInOrder
    /\ messagesPage.fresh > 0 => \E i \in 1..Sources : IsOpen(i)
    /\ \A i \in 1..Sources : IsOpen(i) => ShowsUpTo(messagesPage, source[i])

ListInv == SourcesAscend /\ ScreenShape /\ ListFollows

\* What is still to be published is stored.
PostingStored ==
    posting \in [Senders -> 0..MaxMessages] /\ \A p \in Senders : posting[p] <= log

-----------------------------------------------------------------------------
(* Sources one at a time.                                                  *)

\* Messages of a sequence are positive numbers.
LEMMA IdsOf ==
    ASSUME NEW q \in Seq(Ids)
    PROVE  /\ Len(q) \in Nat
           /\ q = <<>> <=> Len(q) = 0
           /\ \A k \in 1..Len(q) : q[k] \in Ids /\ q[k] \in Nat /\ q[k] > 0
  <1>1. \A m \in Ids : m \in Nat /\ m > 0
    BY ApiAssumption DEF Ids
  <1>2. \A k \in 1..Len(q) : q[k] \in Ids
    BY ElementOfSeq
  <1>3. Len(q) \in Nat /\ (q = <<>> <=> Len(q) = 0)
    BY LenProperties, EmptySeq
  <1> QED
    BY <1>1, <1>2, <1>3

\* Taking the first away.
LEMMA IdsTail ==
    ASSUME NEW q \in Seq(Ids), q # <<>>
    PROVE  /\ Tail(q) \in Seq(Ids) /\ Len(Tail(q)) = Len(q) - 1
           /\ Head(q) = q[1] /\ 1 \in 1..Len(q)
           /\ \A k \in 1..Len(Tail(q)) : Tail(q)[k] = q[k + 1] /\ k + 1 \in 1..Len(q)
  <1>1. Len(q) \in Nat \ {0}
    BY IdsOf
  <1>2. /\ Tail(q) \in Seq(Ids) /\ Len(Tail(q)) = Len(q) - 1
        /\ \A k \in 1..Len(Tail(q)) : Tail(q)[k] = q[k + 1]
    BY HeadTailProperties
  <1>3. Head(q) = q[1]
    BY <1>1
  <1> QED
    BY <1>1, <1>2, <1>3

\* Adding one at the end.
LEMMA IdsAppend ==
    ASSUME NEW q \in Seq(Ids), NEW m \in Ids
    PROVE  /\ Append(q, m) \in Seq(Ids) /\ Len(Append(q, m)) = Len(q) + 1
           /\ Append(q, m) # <<>> /\ Append(q, m)[Len(q) + 1] = m
           /\ \A k \in 1..Len(q) : Append(q, m)[k] = q[k]
           /\ \A k \in 1..Len(Append(q, m)) : k \in 1..Len(q) \/ k = Len(q) + 1
  <1>1. Len(q) \in Nat
    BY IdsOf
  <1>2. /\ Append(q, m) \in Seq(Ids) /\ Len(Append(q, m)) = Len(q) + 1
        /\ \A k \in 1..Len(q) : Append(q, m)[k] = q[k]
        /\ Append(q, m)[Len(q) + 1] = m /\ Append(q, m) # <<>>
    BY <1>1, AppendProperties
  <1> QED
    BY <1>1, <1>2

\* A source that is not connected has nothing to bring.
LEMMA NewSourceAscends ==
    ASSUME NEW n \in Nat
    PROVE  /\ NoSource \in SourceState /\ Ascends(NoSource, n)
           /\ \A ok \in BOOLEAN : NewSource(ok) \in SourceState /\ Ascends(NewSource(ok), n)
  <1>1. <<>> \in Seq(Ids) /\ Len(<<>>) = 0
    OBVIOUS
  <1>2. ASSUME NEW ok \in BOOLEAN PROVE NewSource(ok) \in SourceState /\ Ascends(NewSource(ok), n)
    BY <1>1 DEF NewSource, SourceState, Ascends, States4, Phases
  <1>3. NoSource \in SourceState
    BY <1>2 DEF NoSource, SourceState, States4
  <1>4. Ascends(NoSource, n)
    BY <1>1 DEF NoSource, NewSource, Ascends
  <1> QED
    BY <1>2, <1>3, <1>4

\* More messages are stored.
LEMMA AscendsStays ==
    ASSUME NEW x \in SourceState, NEW n \in Nat, NEW m \in Nat, n <= m, Ascends(x, n)
    PROVE  Ascends(x, m)
  <1>1. x.lastSent \in Nat /\ x.inbox \in Seq(Ids)
    BY DEF SourceState
  <1>2. \A k \in 1..Len(x.inbox) : x.inbox[k] \in Nat
    BY <1>1, IdsOf
  <1> QED
    BY <1>1, <1>2 DEF Ascends

\* Source x after its handler took the head of the inbox.
Forwarded(x) ==
    IF Head(x.inbox) <= x.lastSent
    THEN [x EXCEPT !.inbox = Tail(@)]
    ELSE [x EXCEPT !.inbox = Tail(@), !.lastSent = Head(x.inbox),
                   !.wire = Append(@, Head(x.inbox))]

\* The head of an inbox is dropped, or sent when it is above everything sent.
LEMMA ForwardAscends ==
    ASSUME NEW x \in SourceState, NEW n \in Nat, Ascends(x, n), x.phase = "live",
           x.inbox # <<>>,
           NEW pg, pg.events \in Seq(Ids), pg.fresh \in Nat, pg.fresh <= Len(pg.events),
           ShowsUpTo(pg, x)
    PROVE  /\ Forwarded(x) \in SourceState /\ Ascends(Forwarded(x), n)
           /\ Forwarded(x).readyState = x.readyState
           /\ ShowsUpTo(pg, Forwarded(x))
  <1> DEFINE m == Head(x.inbox)
  <1> SUFFICES ASSUME NEW y, y = Forwarded(x)
               PROVE  /\ y \in SourceState /\ Ascends(y, n) /\ y.readyState = x.readyState
                      /\ ShowsUpTo(pg, y)
    OBVIOUS
  <1>1. /\ x.inbox \in Seq(Ids) /\ x.wire \in Seq(Ids) /\ x.lastSent \in Nat
        /\ x.phase \in Phases /\ x.readyState \in States4
    BY DEF SourceState
  <1>2. /\ m \in Ids /\ m \in Nat /\ m <= n /\ Tail(x.inbox) \in Seq(Ids)
        /\ \A k \in 1..Len(Tail(x.inbox)) : Tail(x.inbox)[k] <= n
    <2>1. \A k \in 1..Len(x.inbox) : x.inbox[k] <= n
      BY DEF Ascends
    <2> QED
      BY <1>1, <2>1, IdsOf, IdsTail
  <1>3. CASE m <= x.lastSent
    <2>1. y = [x EXCEPT !.inbox = Tail(x.inbox)]
      BY <1>3 DEF Forwarded
    <2>2. y \in SourceState
      BY <1>2, <2>1 DEF SourceState
    <2>3. /\ y.inbox = Tail(x.inbox) /\ y.wire = x.wire /\ y.lastSent = x.lastSent
          /\ y.phase = x.phase /\ y.readyState = x.readyState
      BY <2>1 DEF SourceState
    <2> QED
      BY <1>2, <2>2, <2>3 DEF Ascends, ShowsUpTo
  <1>4. CASE ~(m <= x.lastSent)
    <2> DEFINE w == Append(x.wire, m)
    <2>1. y = [x EXCEPT !.inbox = Tail(x.inbox), !.lastSent = m, !.wire = w]
      BY <1>4 DEF Forwarded
    <2>2. /\ w \in Seq(Ids) /\ Len(w) = Len(x.wire) + 1 /\ w[Len(w)] = m /\ w # <<>>
          /\ \A k \in 1..Len(x.wire) : w[k] = x.wire[k] /\ x.wire[k] \in Nat
          /\ \A k \in 1..Len(w) : k \in 1..Len(x.wire) \/ k = Len(w)
      BY <1>1, <1>2, IdsAppend, IdsOf
    <2> HIDE DEF m, w
    <2>3. y \in SourceState
      BY <1>2, <2>1, <2>2 DEF SourceState
    <2>4. /\ y.inbox = Tail(x.inbox) /\ y.wire = w /\ y.lastSent = m
          /\ y.phase = x.phase /\ y.readyState = x.readyState
      BY <2>1 DEF SourceState
    <2>5. Len(x.wire) \in Nat
      BY <1>1, IdsOf
    <2>7. \A k \in 1..Len(x.wire) : x.wire[k] <= x.lastSent /\ x.wire[k] < m
      BY <1>1, <1>2, <1>4, <2>2 DEF Ascends
    <2>8. ASSUME NEW k \in 1..Len(w) PROVE w[k] <= m
      <3>1. CASE k \in 1..Len(x.wire)
        <4>1. w[k] = x.wire[k] /\ x.wire[k] \in Nat /\ x.wire[k] < m
          BY <2>2, <2>7, <3>1
        <4> QED
          BY <1>2, <4>1
      <3>2. CASE k = Len(w)
        BY <1>2, <2>2, <3>2
      <3> QED
        BY <2>2, <3>1, <3>2
    <2>9. \A j, k \in 1..Len(w) : j < k => w[j] < w[k]
      <3> SUFFICES ASSUME NEW j \in 1..Len(w), NEW k \in 1..Len(w), j < k
                   PROVE  w[j] < w[k]
        OBVIOUS
      <3>1. j \in 1..Len(x.wire) /\ w[j] = x.wire[j]
        BY <2>2, <2>5
      <3>2. CASE k \in 1..Len(x.wire)
        BY <2>2, <3>1, <3>2 DEF Ascends
      <3>3. CASE k = Len(w)
        BY <2>2, <2>7, <3>1, <3>3
      <3> QED
        BY <2>2, <2>5, <3>2, <3>3
    <2>10. Ascends(y, n)
      BY <1>2, <2>2, <2>4, <2>8, <2>9 DEF Ascends
    <2>11. pg.fresh > 0 => pg.events[1] \in Nat /\ pg.events[1] <= x.lastSent
      <3>1. Len(pg.events) \in Nat /\ \A k \in 1..Len(pg.events) : pg.events[k] \in Nat
        BY IdsOf
      <3> QED
        BY <3>1 DEF ShowsUpTo
    <2>12. pg.fresh > 0 => pg.events[1] < m
      BY <1>1, <1>2, <1>4, <2>11
    <2>13. pg.fresh > 0 => \A k \in 1..Len(w) : pg.events[1] < w[k]
      BY <2>2, <2>12 DEF ShowsUpTo
    <2>14. ShowsUpTo(pg, y)
      <3>1. y.wire # <<>>
        BY <2>2, <2>4, <2>5
      <3>2. pg.fresh > 0 => pg.events[1] <= m
        BY <1>2, <2>11, <2>12
      <3> QED
        BY <2>4, <2>13, <3>1, <3>2 DEF ShowsUpTo
    <2> QED
      BY <2>3, <2>4, <2>10, <2>14
  <1> QED
    BY <1>3, <1>4

\* A list with a new first element, cut at n.
Pushed(m, q, n) == FrontOf(<<m>> \o q, n)

\* What it holds.
OnTop(m, q, n, r) ==
    /\ r \in Seq(Ids) /\ Len(r) = (IF Len(q) + 1 < n THEN Len(q) + 1 ELSE n)
    /\ 1 \in 1..Len(r) /\ r[1] = m
    /\ \A k \in 1..Len(r) : k # 1 => k - 1 \in 1..Len(q) /\ r[k] = q[k - 1]

\* And it does.
LEMMA IdsPush ==
    ASSUME NEW q \in Seq(Ids), NEW m \in Ids, NEW n \in Nat \ {0}, NEW r,
           r = Pushed(m, q, n)
    PROVE  OnTop(m, q, n, r)
  <1> DEFINE c == <<m>> \o q
             l == IF Len(c) < n THEN Len(c) ELSE n
  <1>1. Len(q) \in Nat
    BY IdsOf
  <1>2. <<m>> \in Seq(Ids) /\ Len(<<m>>) = 1 /\ <<m>>[1] = m
    OBVIOUS
  <1>3. /\ c \in Seq(Ids) /\ Len(c) = Len(q) + 1
        /\ \A k \in 1..(Len(q) + 1) : c[k] = IF k <= 1 THEN <<m>>[k] ELSE q[k - 1]
    BY <1>1, <1>2, ConcatProperties
  <1>4. c[1] = m /\ \A k \in 1..(Len(q) + 1) : k # 1 => c[k] = q[k - 1]
    BY <1>1, <1>2, <1>3
  <1> HIDE DEF c
  <1>5. l \in Nat \ {0} /\ l <= Len(q) + 1 /\ l = (IF Len(q) + 1 < n THEN Len(q) + 1 ELSE n)
    BY <1>1, <1>3
  <1>6. r = SubSeq(c, 1, l)
    BY DEF Pushed, FrontOf, c
  <1> HIDE DEF l
  <1>7. \A k \in 1..l : c[k] \in Ids
    BY <1>1, <1>3, <1>5, IdsOf
  <1>8. r \in Seq(Ids) /\ Len(r) = l /\ \A k \in 1..l : r[k] = c[k]
    <2>1. /\ r \in Seq(Ids) /\ Len(r) = IF 1 <= l THEN l - 1 + 1 ELSE 0
          /\ \A k \in 1..(l - 1 + 1) : r[k] = c[1 + k - 1]
      BY <1>5, <1>6, <1>7, SubSeqProperties
    <2> QED
      BY <1>5, <2>1
  <1>9. ASSUME NEW k \in 1..Len(r), k # 1
        PROVE  k - 1 \in 1..Len(q) /\ r[k] = q[k - 1]
    <2>1. k \in 1..l /\ k \in 1..(Len(q) + 1) /\ k - 1 \in 1..Len(q)
      BY <1>1, <1>5, <1>8, <1>9
    <2> QED
      BY <1>4, <1>8, <1>9, <2>1
  <1>10. 1 \in 1..Len(r) /\ r[1] = m
    BY <1>4, <1>5, <1>8
  <1>11. r \in Seq(Ids) /\ Len(r) = (IF Len(q) + 1 < n THEN Len(q) + 1 ELSE n)
    BY <1>5, <1>8
  <1> QED
    BY <1>9, <1>10, <1>11 DEF OnTop

\* A list r with h on top, whose first g messages are in order.
InOrder(r, g, h) ==
    /\ r \in Seq(Ids) /\ Len(r) <= EventCap /\ 1 \in 1..Len(r) /\ r[1] = h
    /\ g \in 1..EventCap /\ g <= Len(r)
    /\ \A j, k \in 1..g : j < k => r[j] > r[k]

\* A list in order stays so, with a message on top that is above the others.
LEMMA PushedInOrder ==
    ASSUME NEW ev \in Seq(Ids), NEW f \in Nat, f <= Len(ev), Len(ev) <= EventCap,
           NEW h \in Ids, f > 0 => ev[1] < h,
           \A j, k \in 1..f : j < k => ev[j] > ev[k],
           NEW r, r = Pushed(h, ev, EventCap),
           NEW g, g = IF f < EventCap THEN f + 1 ELSE f
    PROVE  InOrder(r, g, h)
  <1>1. EventCap \in Nat \ {0}
    BY MessagesAssumption
  <1>2. Len(ev) \in Nat /\ \A k \in 1..Len(ev) : ev[k] \in Nat
    BY IdsOf
  <1>3. h \in Nat
    BY ApiAssumption DEF Ids
  <1>4. /\ r \in Seq(Ids)
        /\ Len(r) = (IF Len(ev) + 1 < EventCap THEN Len(ev) + 1 ELSE EventCap)
        /\ 1 \in 1..Len(r) /\ r[1] = h
        /\ \A k \in 1..Len(r) : k # 1 => k - 1 \in 1..Len(ev) /\ r[k] = ev[k - 1]
    <2>1. ev \in Seq(Ids) /\ h \in Ids /\ EventCap \in Nat \ {0} /\ r = Pushed(h, ev, EventCap)
      BY <1>1
    <2>2. OnTop(h, ev, EventCap, r)
      BY <2>1, IdsPush
    <2> QED
      BY <2>2 DEF OnTop
  <1>5. g \in 1..EventCap /\ g <= Len(r) /\ Len(r) <= EventCap /\ g <= f + 1
    BY <1>1, <1>2, <1>4
  <1>6. ASSUME NEW j \in 1..g, NEW k \in 1..g, j < k PROVE r[j] > r[k]
    <2>1. j \in 1..Len(r) /\ k \in 1..Len(r) /\ k # 1 /\ k - 1 \in 1..f
      BY <1>2, <1>4, <1>5, <1>6
    <2>2. r[k] = ev[k - 1] /\ k - 1 \in 1..Len(ev) /\ 1 \in 1..f /\ 1 \in 1..Len(ev)
      BY <1>2, <1>4, <2>1
    <2>3. CASE j = 1
      <3>1. ev[1] < h /\ r[j] = h
        BY <1>4, <2>2, <2>3
      <3>2. ev[k - 1] <= ev[1]
        <4>1. CASE k - 1 = 1
          BY <1>2, <2>2, <4>1
        <4>2. CASE 1 < k - 1
          BY <1>2, <2>1, <2>2, <4>2
        <4> QED
          BY <2>1, <4>1, <4>2
      <3> QED
        BY <1>2, <1>3, <2>2, <3>1, <3>2
    <2>4. CASE j # 1
      <3>1. r[j] = ev[j - 1] /\ j - 1 \in 1..f /\ j - 1 < k - 1
        BY <1>4, <1>6, <2>1, <2>4
      <3> QED
        BY <2>1, <2>2, <3>1
    <2> QED
      BY <2>3, <2>4
  <1> QED
    BY <1>4, <1>5, <1>6 DEF InOrder

\* The first frame on its way reaches the page: it is above what the page shows of
\* this connection, and below what follows.
LEMMA ReceiveAscends ==
    ASSUME NEW x \in SourceState, NEW n \in Nat, Ascends(x, n), x.wire # <<>>,
           NEW y, y = [x EXCEPT !.wire = Tail(@)],
           ScreenShape, StreamInOrder, ShowsUpTo(messagesPage, x),
           messagesPage' = [messagesPage EXCEPT
               !.events = FrontOf(<<Head(x.wire)>> \o @, EventCap),
               !.fresh = IF @ < EventCap THEN @ + 1 ELSE @]
    PROVE  /\ y \in SourceState /\ Ascends(y, n) /\ y.readyState = x.readyState
           /\ ScreenShape' /\ StreamInOrder' /\ ShowsUpTo(messagesPage', y)
  <1> DEFINE h  == Head(x.wire)
             t  == Tail(x.wire)
             ev == messagesPage.events
             f  == messagesPage.fresh
             r  == FrontOf(<<h>> \o ev, EventCap)
             g  == IF f < EventCap THEN f + 1 ELSE f
  <1>1. /\ x.inbox \in Seq(Ids) /\ x.wire \in Seq(Ids) /\ x.lastSent \in Nat
        /\ x.phase \in Phases
    BY DEF SourceState
  <1>2. /\ Len(x.wire) \in Nat /\ 1 \in 1..Len(x.wire) /\ h = x.wire[1]
        /\ t \in Seq(Ids) /\ Len(t) = Len(x.wire) - 1
        /\ \A k \in 1..Len(t) : t[k] = x.wire[k + 1] /\ k + 1 \in 1..Len(x.wire)
    BY <1>1, IdsOf, IdsTail
  <1>3. /\ h \in Ids /\ h \in Nat /\ \A k \in 1..Len(x.wire) : x.wire[k] \in Nat
        /\ Len(t) \in Nat /\ (t = <<>> <=> Len(t) = 0)
    BY <1>1, <1>2, IdsOf
  <1>4. /\ y.inbox = x.inbox /\ y.wire = t /\ y.lastSent = x.lastSent
        /\ y.phase = x.phase /\ y.readyState = x.readyState
    BY DEF SourceState
  <1>5. y \in SourceState
    BY <1>2 DEF SourceState
  <1> HIDE DEF h, t
  <1>6. Ascends(y, n)
    <2>1. \A k \in 1..Len(t) : t[k] <= x.lastSent
      BY <1>2 DEF Ascends
    <2>2. ASSUME NEW j \in 1..Len(t), NEW k \in 1..Len(t), j < k
          PROVE  t[j] < t[k]
      <3>1. j + 1 < k + 1 /\ j + 1 \in 1..Len(x.wire) /\ k + 1 \in 1..Len(x.wire)
        BY <1>2, <1>3, <2>2
      <3> QED
        BY <1>2, <3>1 DEF Ascends
    <2>3. ASSUME t # <<>> PROVE t[Len(t)] = x.lastSent
      <3>1. Len(t) \in 1..Len(t) /\ Len(t) + 1 = Len(x.wire)
        BY <1>2, <1>3, <2>3
      <3>2. t[Len(t)] = x.wire[Len(x.wire)]
        BY <1>2, <3>1
      <3> QED
        BY <3>2 DEF Ascends
    <2>4. x.phase = "live"
      BY DEF Ascends
    <2> QED
      BY <1>4, <2>1, <2>2, <2>3, <2>4 DEF Ascends
  <1>7. /\ ev \in Seq(Ids) /\ f \in Nat /\ f <= Len(ev) /\ Len(ev) <= EventCap
        /\ EventCap \in Nat \ {0}
    BY MessagesAssumption DEF ScreenShape
  <1>8. Len(ev) \in Nat /\ \A k \in 1..Len(ev) : ev[k] \in Nat
    BY <1>7, IdsOf
  <1>9. messagesPage' = [messagesPage EXCEPT !.events = r, !.fresh = g]
    BY DEF h
  <1>10. /\ f > 0 => ev[1] < h
         /\ \A j, k \in 1..f : j < k => ev[j] > ev[k]
    BY <1>2 DEF ShowsUpTo, StreamInOrder
  <1>11. messagesPage'.events = r /\ messagesPage'.fresh = g
    BY <1>9 DEF ScreenShape
  <1> DEFINE shape(q, k) ==
        [messagesPage EXCEPT !.events = q, !.fresh = k] \in
            [cred: {"blank", "valid", "wrong"}, busy: BOOLEAN,
             conn: {"idle", "connecting", "open", "error"}, ref: 0..Sources,
             events: Seq(Ids), fresh: 0..EventCap]
  <1>12. \A q \in Seq(Ids), k \in 0..EventCap : shape(q, k)
    BY DEF ScreenShape
  <1>13. r = Pushed(h, ev, EventCap)
    BY DEF Pushed
  <1> HIDE DEF ev, f, r, shape
  <1>14. g = IF f < EventCap THEN f + 1 ELSE f
    OBVIOUS
  <1> HIDE DEF g
  <1>15. /\ r \in Seq(Ids) /\ Len(r) <= EventCap /\ 1 \in 1..Len(r) /\ r[1] = h
         /\ g \in 1..EventCap /\ g <= Len(r)
         /\ \A j, k \in 1..g : j < k => r[j] > r[k]
    <2>1. InOrder(r, g, h)
      BY <1>3, <1>7, <1>10, <1>13, <1>14, PushedInOrder
    <2> QED
      BY <2>1 DEF InOrder
  <1>16. ScreenShape'
    <2>1. shape(r, g)
      BY <1>12, <1>15
    <2> QED
      BY <1>9, <1>11, <1>15, <2>1 DEF ScreenShape, shape
  <1>17. StreamInOrder'
    BY <1>11, <1>15 DEF StreamInOrder
  <1>18. ShowsUpTo(messagesPage', y)
    <2>1. h <= x.lastSent
      BY <1>2 DEF Ascends
    <2>2. ASSUME NEW k \in 1..Len(t) PROVE h < t[k]
      <3>1. k + 1 \in 1..Len(x.wire) /\ 1 < k + 1
        BY <1>2, <1>3
      <3> QED
        BY <1>2, <3>1 DEF Ascends
    <2>3. t = <<>> => h = x.lastSent
      BY <1>2, <1>3 DEF Ascends
    <2>4. messagesPage'.events[1] = h /\ messagesPage'.fresh # 0
      BY <1>7, <1>11, <1>14, <1>15
    <2>5. \A k \in 1..Len(y.wire) : h < y.wire[k]
      BY <1>4, <2>2
    <2>6. y.wire = <<>> => h = y.lastSent
      BY <1>4, <2>3
    <2>7. h <= y.lastSent
      BY <1>4, <2>1
    <2> QED
      BY <2>4, <2>5, <2>6, <2>7 DEF ShowsUpTo
  <1> QED
    BY <1>4, <1>5, <1>6, <1>16, <1>17, <1>18

-----------------------------------------------------------------------------
(* The steps of the stream and of its page.                                *)

\* The number of stored messages is a number.
LEMMA LogNat == SourcesAscend => log \in Nat
  BY ApiAssumption DEF SourcesAscend

\* The one source there is moves to y, and the page to what it shows then.
LEMMA SourceMoves ==
    ASSUME ListInv, StreamInv, log' = log, NEW i \in 1..Sources, Exists(i),
           NEW y \in SourceState, Ascends(y, log), source' = [source EXCEPT ![i] = y],
           ScreenShape', StreamInOrder',
           messagesPage'.fresh > 0 => y.readyState = "open",
           y.readyState = "open" => ShowsUpTo(messagesPage', y)
    PROVE  ListInv'
  <1>1. source \in [1..Sources -> SourceState]
    BY DEF ListInv, SourcesAscend
  <1>2. /\ source' \in [1..Sources -> SourceState] /\ source'[i] = y
        /\ \A j \in 1..Sources \ {i} : source'[j] = source[j]
    BY <1>1
  <1>3. SourcesAscend'
    BY <1>2 DEF ListInv, SourcesAscend
  <1>4. \A j \in 1..Sources \ {i} : ~IsOpen(j)'
    BY <1>2 DEF StreamInv, StreamHeld, Exists, IsOpen
  <1>5. IsOpen(i)' <=> y.readyState = "open"
    BY <1>2 DEF IsOpen
  <1> QED
    BY <1>2, <1>3, <1>4, <1>5 DEF ListInv, ListFollows

\* The page does not change.
LEMMA SameScreen ==
    ASSUME ScreenShape, StreamInOrder, messagesPage' = messagesPage
    PROVE  ScreenShape' /\ StreamInOrder'
  BY DEF ScreenShape, StreamInOrder

\* The page starts its list again.
LEMMA ScreenClears ==
    ASSUME ScreenShape, NEW c \in {"idle", "connecting", "error"}, NEW i \in 0..Sources,
           \/ messagesPage' = [messagesPage EXCEPT !.conn = c, !.fresh = 0]
           \/ messagesPage' = [messagesPage EXCEPT !.ref = i, !.conn = c, !.fresh = 0]
    PROVE  ScreenShape' /\ messagesPage'.fresh = 0
  <1>1. 0 \in 0..EventCap
    BY MessagesAssumption
  <1> DEFINE p == messagesPage
             q == messagesPage'
             shape == [cred: {"blank", "valid", "wrong"}, busy: BOOLEAN,
                       conn: {"idle", "connecting", "open", "error"}, ref: 0..Sources,
                       events: Seq(Ids), fresh: 0..EventCap]
  <1>2. p \in shape
    BY DEF ScreenShape
  <1>3. q \in shape /\ q.fresh = 0 /\ q.events = p.events
    <2> HIDE DEF p, q
    <2>1. CASE q = [p EXCEPT !.conn = c, !.fresh = 0]
      BY <1>1, <1>2, <2>1
    <2>2. CASE q = [p EXCEPT !.ref = i, !.conn = c, !.fresh = 0]
      BY <1>1, <1>2, <2>2
    <2> QED
      BY <2>1, <2>2 DEF p, q
  <1>4. Len(p.events) \in Nat
    BY <1>2, IdsOf
  <1> QED
    BY <1>3, <1>4 DEF ScreenShape

\* While the only source is not open, the page has nothing of the connection.
LEMMA NothingFresh ==
    ASSUME ListInv, StreamInv, NEW i \in 1..Sources, Exists(i), ~IsOpen(i)
    PROVE  messagesPage.fresh = 0
  <1>1. \A j \in 1..Sources : ~IsOpen(j)
    BY DEF StreamInv, StreamHeld, Exists, IsOpen
  <1> QED
    BY <1>1, MessagesAssumption DEF ListInv, ListFollows, ScreenShape

\* Nor before the replay.
LEMMA NothingYet ==
    ASSUME ListInv, NEW i \in 1..Sources, IsOpen(i), source[i].phase # "live"
    PROVE  messagesPage.fresh = 0 /\ source[i].wire = <<>> /\ source[i].lastSent = 0
  <1>1. source[i].wire = <<>> /\ source[i].lastSent = 0
    BY DEF ListInv, SourcesAscend, Ascends
  <1>2. IF messagesPage.fresh = 0 THEN TRUE ELSE messagesPage.events[1] = 0
    BY <1>1 DEF ListInv, ListFollows, ShowsUpTo
  <1>3. messagesPage.fresh # 0 => messagesPage.events[1] > 0
    <2>1. messagesPage.fresh \in Nat /\ messagesPage.events \in Seq(Ids)
          /\ messagesPage.fresh <= Len(messagesPage.events)
      BY MessagesAssumption DEF ListInv, ScreenShape
    <2> QED
      BY <2>1, IdsOf
  <1> QED
    BY <1>1, <1>2, <1>3

\* The server accepts, refuses or loses a connection, and the list starts again.
LEMMA ConnectionList ==
    ASSUME ListInv, StreamInv, log' = log, NEW i \in 1..Sources,
           Accept(i) \/ Refused(i) \/ LoseConnection(i)
    PROVE  ListInv'
  <1>1. source[i] \in SourceState /\ log \in Nat /\ Ascends(source[i], log)
    BY LogNat DEF ListInv, SourcesAscend
  <1>2. Exists(i)
    BY DEF Accept, Refused, LoseConnection, Exists
  <1>3. CASE Accept(i)
    <2> DEFINE y == [NewSource(TRUE) EXCEPT !.readyState = "open", !.phase = "accepted"]
    <2>1. messagesPage.fresh = 0
      BY <1>2, <1>3, NothingFresh DEF Accept, IsOpen
    <2>2. NewSource(TRUE) \in SourceState /\ Ascends(NewSource(TRUE), log)
      BY <1>1, NewSourceAscends
    <2>3. y \in SourceState
      BY <2>2 DEF SourceState, States4, Phases
    <2>4. Ascends(y, log) /\ y.wire = <<>> /\ y.lastSent = 0 /\ y.readyState = "open"
      BY <2>2 DEF Ascends, NewSource
    <2>5. source' = [source EXCEPT ![i] = y]
      BY <1>3 DEF Accept
    <2> HIDE DEF y
    <2>6. ScreenShape' /\ StreamInOrder' /\ messagesPage'.fresh = 0
      BY <1>3, <2>1 DEF Accept, ListInv, ScreenShape, StreamInOrder
    <2>7. ShowsUpTo(messagesPage', y)
      BY <2>4, <2>6 DEF ShowsUpTo
    <2> QED
      BY <1>2, <2>3, <2>4, <2>5, <2>6, <2>7, SourceMoves
  <1>4. CASE Refused(i)
    <2> DEFINE y == [source[i] EXCEPT !.readyState = "closed"]
    <2>1. messagesPage.fresh = 0
      BY <1>2, <1>4, NothingFresh DEF Refused, IsOpen
    <2>2. y \in SourceState
      BY <1>1 DEF SourceState, States4
    <2>3. Ascends(y, log) /\ y.readyState = "closed"
      BY <1>1 DEF SourceState, Ascends
    <2>4. source' = [source EXCEPT ![i] = y]
      BY <1>4 DEF Refused
    <2> HIDE DEF y
    <2>5. ScreenShape' /\ StreamInOrder' /\ messagesPage'.fresh = 0
      BY <1>4, <2>1 DEF Refused, ListInv, ScreenShape, StreamInOrder
    <2>6. ~(messagesPage'.fresh > 0) /\ y.readyState # "open"
      BY <2>3, <2>5
    <2> QED
      BY <1>2, <2>2, <2>3, <2>4, <2>5, <2>6, SourceMoves
  <1>5. CASE LoseConnection(i)
    <2> DEFINE y == NewSource(source[i].ok)
    <2>1. source[i].ok \in BOOLEAN
      BY <1>1 DEF SourceState
    <2>2. y \in SourceState /\ Ascends(y, log) /\ y.readyState = "connecting"
      BY <1>1, <2>1, NewSourceAscends, NoSourceState
    <2>3. source' = [source EXCEPT ![i] = y]
      BY <1>5 DEF LoseConnection
    <2> HIDE DEF y
    <2>4. ScreenShape' /\ StreamInOrder' /\ messagesPage'.fresh = 0
      <3>1. messagesPage' = [messagesPage EXCEPT !.conn = "error", !.fresh = 0]
        BY <1>5 DEF LoseConnection
      <3>2. ScreenShape /\ 0 \in 0..Sources
        BY MessagesAssumption DEF ListInv
      <3>3. ScreenShape' /\ messagesPage'.fresh = 0
        BY <3>1, <3>2, ScreenClears
      <3> QED
        BY <3>3 DEF StreamInOrder
    <2>5. ~(messagesPage'.fresh > 0) /\ y.readyState # "open"
      BY <2>2, <2>4
    <2> QED
      BY <1>2, <2>2, <2>3, <2>4, <2>5, SourceMoves
  <1> QED
    BY <1>3, <1>4, <1>5

\* The handler subscribes, replays and forwards; frames reach the page.
LEMMA HandlerList ==
    ASSUME ListInv, StreamInv, log' = log, NEW i \in 1..Sources,
           \/ Subscribe(i) \/ Replay(i) \/ ReplayFails(i)
           \/ Forward(i) \/ ReceiveEvent(i)
    PROVE  ListInv'
  <1> DEFINE x == source[i]
  <1>1. /\ x \in SourceState /\ log \in Nat /\ log <= MaxMessages /\ Ascends(x, log)
        /\ ScreenShape /\ StreamInOrder
    BY LogNat DEF ListInv, SourcesAscend, ListFollows
  <1>2. IsOpen(i) /\ Exists(i) /\ x.readyState = "open"
    BY DEF Subscribe, Replay, ReplayFails, Forward, ReceiveEvent, IsOpen, Exists
  <1>3. ShowsUpTo(messagesPage, x)
    BY <1>2 DEF ListInv, ListFollows
  <1>4. CASE Subscribe(i) \/ ReplayFails(i)
    <2>1. PICK y : /\ source' = [source EXCEPT ![i] = y] /\ y \in SourceState
                   /\ y.inbox = x.inbox /\ y.wire = x.wire /\ y.lastSent = x.lastSent
                   /\ y.readyState = x.readyState
      <3>1. CASE Subscribe(i)
        <4> DEFINE y == [x EXCEPT !.phase = "subscribed", !.listed = TRUE]
        <4>1. source' = [source EXCEPT ![i] = y]
          BY <3>1 DEF Subscribe
        <4>2. /\ y \in SourceState /\ y.inbox = x.inbox /\ y.wire = x.wire
              /\ y.lastSent = x.lastSent /\ y.readyState = x.readyState
          BY <1>1 DEF SourceState, Phases
        <4> QED
          BY <4>1, <4>2
      <3>2. CASE ReplayFails(i)
        <4> DEFINE y == [x EXCEPT !.phase = "live", !.whole = FALSE]
        <4>1. source' = [source EXCEPT ![i] = y]
          BY <3>2 DEF ReplayFails
        <4>2. /\ y \in SourceState /\ y.inbox = x.inbox /\ y.wire = x.wire
              /\ y.lastSent = x.lastSent /\ y.readyState = x.readyState
          BY <1>1 DEF SourceState, Phases
        <4> QED
          BY <4>1, <4>2
      <3> QED
        BY <1>4, <3>1, <3>2
    <2>2. x.phase # "live" /\ messagesPage' = messagesPage
      BY <1>4 DEF Subscribe, ReplayFails
    <2>3. x.wire = <<>> /\ x.lastSent = 0
      BY <1>2, <2>2, NothingYet
    <2>4. Ascends(y, log) /\ ShowsUpTo(messagesPage', y)
      BY <1>1, <1>3, <2>1, <2>2, <2>3 DEF Ascends, ShowsUpTo
    <2> QED
      BY <1>1, <1>2, <2>1, <2>2, <2>4, SameScreen, SourceMoves
  <1>5. CASE Replay(i)
    <2> DEFINE n == IF log < PageLimit THEN log ELSE PageLimit
               w == [k \in 1..n |-> k]
               y == [x EXCEPT !.phase = "live", !.lastSent = n, !.wire = w, !.whole = n = log]
    <2>1. /\ source' = [source EXCEPT ![i] = y] /\ messagesPage' = messagesPage
          /\ x.phase # "live"
      BY <1>5 DEF Replay
    <2>2. n \in Nat /\ n <= log /\ n <= MaxMessages
      BY <1>1, ApiAssumption, MessagesAssumption
    <2> HIDE DEF n
    <2>3. w \in Seq(Ids) /\ Len(w) = n /\ \A k \in 1..n : w[k] = k
      <3>1. w \in [1..n -> Ids]
        BY <2>2, ApiAssumption DEF Ids
      <3> QED
        BY <2>2, <3>1
    <2>4. (w = <<>> <=> n = 0) /\ (w # <<>> => w[Len(w)] = n)
      BY <2>2, <2>3, IdsOf
    <2> HIDE DEF w
    <2>5. y \in SourceState
      BY <1>1, <2>2, <2>3 DEF SourceState, Phases
    <2>6. /\ y.inbox = x.inbox /\ y.wire = w /\ y.lastSent = n
          /\ y.readyState = x.readyState /\ y.phase = "live"
      BY <1>1 DEF SourceState
    <2> HIDE DEF y
    <2>7. Ascends(y, log)
      BY <1>1, <2>2, <2>3, <2>4, <2>6 DEF Ascends
    <2>8. messagesPage.fresh = 0
      BY <1>2, <2>1, NothingYet
    <2>9. ShowsUpTo(messagesPage', y)
      BY <2>1, <2>4, <2>6, <2>8 DEF ShowsUpTo
    <2> QED
      BY <1>1, <1>2, <2>1, <2>5, <2>6, <2>7, <2>9, SameScreen, SourceMoves
  <1>6. CASE Forward(i)
    <2> DEFINE y == Forwarded(x)
    <2>1. x.phase = "live" /\ x.inbox # <<>> /\ messagesPage' = messagesPage
      BY <1>6 DEF Forward
    <2>2. source' = [source EXCEPT ![i] = y]
      BY <1>6 DEF Forward, Forwarded
    <2>3. /\ messagesPage.events \in Seq(Ids) /\ messagesPage.fresh \in Nat
          /\ messagesPage.fresh <= Len(messagesPage.events)
      BY <1>1, MessagesAssumption DEF ScreenShape
    <2>4. /\ y \in SourceState /\ Ascends(y, log) /\ y.readyState = x.readyState
          /\ ShowsUpTo(messagesPage, y)
      <3>1. /\ x \in SourceState /\ log \in Nat /\ Ascends(x, log)
            /\ x.phase = "live" /\ x.inbox # <<>>
        BY <1>1, <2>1
      <3>2. ShowsUpTo(messagesPage, x)
        BY <1>3
      <3> HIDE DEF x
      <3> QED
        BY <2>3, <3>1, <3>2, ForwardAscends
    <2> HIDE DEF y
    <2> QED
      BY <1>1, <1>2, <2>1, <2>2, <2>4, SameScreen, SourceMoves
  <1>7. CASE ReceiveEvent(i)
    <2> DEFINE y == [x EXCEPT !.wire = Tail(@)]
    <2>1. /\ x.wire # <<>>
          /\ messagesPage' = [messagesPage EXCEPT
                !.events = FrontOf(<<Head(x.wire)>> \o @, EventCap),
                !.fresh = IF @ < EventCap THEN @ + 1 ELSE @]
      BY <1>7 DEF ReceiveEvent
    <2>2. source' = [source EXCEPT ![i] = y]
      BY <1>7 DEF ReceiveEvent
    <2>3. /\ y \in SourceState /\ Ascends(y, log) /\ y.readyState = x.readyState
          /\ ScreenShape' /\ StreamInOrder' /\ ShowsUpTo(messagesPage', y)
      BY <1>1, <1>3, <2>1, ReceiveAscends
    <2> HIDE DEF y
    <2> QED
      BY <1>2, <2>2, <2>3, SourceMoves
  <1> QED
    BY <1>4, <1>5, <1>6, <1>7

\* A publication fills an inbox with a stored message, or takes the subscription out.
LEMMA PublishList ==
    ASSUME ListInv, PostingStored, log' = log, messagesPage' = messagesPage,
           NEW p \in Senders, Publish(p)
    PROVE  ListInv'
  <1>1. /\ posting[p] \in Ids /\ posting[p] <= log /\ log \in Nat
        /\ source \in [1..Sources -> SourceState]
    BY ApiAssumption DEF Publish, PostingStored, Ids, ListInv, SourcesAscend
  <1>2. ASSUME NEW i \in 1..Sources
        PROVE  /\ source'[i] \in SourceState /\ Ascends(source'[i], log)
               /\ source'[i].readyState = source[i].readyState
               /\ source'[i].wire = source[i].wire
               /\ source'[i].lastSent = source[i].lastSent
    <2> DEFINE x == source[i]
    <2>1. x \in SourceState /\ Ascends(x, log) /\ x.inbox \in Seq(Ids)
      BY <1>1 DEF ListInv, SourcesAscend, SourceState
    <2>2. CASE source'[i] = x
      BY <2>1, <2>2
    <2>3. CASE source'[i] = [x EXCEPT !.listed = FALSE]
      <3>1. source'[i] \in SourceState
        BY <2>1, <2>3 DEF SourceState
      <3> QED
        BY <2>1, <2>3, <3>1 DEF SourceState, Ascends
    <2>4. CASE source'[i] = [x EXCEPT !.inbox = Append(x.inbox, posting[p])]
      <3> DEFINE b == Append(x.inbox, posting[p])
      <3>1. /\ b \in Seq(Ids)
            /\ \A k \in 1..Len(b) : b[k] <= log
        <4>1. /\ b \in Seq(Ids) /\ b[Len(x.inbox) + 1] = posting[p]
              /\ \A k \in 1..Len(x.inbox) : b[k] = x.inbox[k]
              /\ \A k \in 1..Len(b) : k \in 1..Len(x.inbox) \/ k = Len(x.inbox) + 1
          BY <1>1, <2>1, IdsAppend
        <4> HIDE DEF b
        <4> QED
          BY <1>1, <2>1, <4>1 DEF Ascends
      <3> HIDE DEF b
      <3>2. source'[i] = [x EXCEPT !.inbox = b]
        BY <2>4 DEF b
      <3>3. source'[i] \in SourceState
        BY <2>1, <3>1, <3>2 DEF SourceState
      <3>4. /\ source'[i].inbox = b /\ source'[i].wire = x.wire
            /\ source'[i].lastSent = x.lastSent /\ source'[i].phase = x.phase
            /\ source'[i].readyState = x.readyState
        BY <2>1, <3>2 DEF SourceState
      <3> QED
        BY <2>1, <3>1, <3>3, <3>4 DEF Ascends
    <2> QED
      BY <2>2, <2>3, <2>4 DEF Publish
  <1>3. source' \in [1..Sources -> SourceState]
    BY <1>2 DEF Publish
  <1>4. SourcesAscend'
    BY <1>2, <1>3 DEF ListInv, SourcesAscend
  <1>5. ScreenShape' /\ StreamInOrder'
    BY SameScreen DEF ListInv, ListFollows
  <1>6. \A i \in 1..Sources : IsOpen(i)' <=> IsOpen(i)
    BY <1>2 DEF IsOpen
  <1>7. \A i \in 1..Sources :
           ShowsUpTo(messagesPage, source[i]) => ShowsUpTo(messagesPage', source'[i])
    BY <1>2 DEF ShowsUpTo
  <1> QED
    BY <1>4, <1>5, <1>6, <1>7 DEF ListInv, ListFollows

\* Closing the page's source leaves sources that have nothing to bring.
LEMMA ClosedRefAscends ==
    ASSUME ListInv
    PROVE  /\ ClosedRef \in [1..Sources -> SourceState]
           /\ \A i \in 1..Sources : Ascends(ClosedRef[i], log)
  <1>1. /\ source \in [1..Sources -> SourceState] /\ log \in Nat
        /\ \A i \in 1..Sources : Ascends(source[i], log)
    BY LogNat DEF ListInv, SourcesAscend
  <1>2. NoSource \in SourceState /\ Ascends(NoSource, log)
    BY <1>1, NewSourceAscends
  <1>3. \A i \in 1..Sources : ClosedRef[i] = source[i] \/ ClosedRef[i] = NoSource
    BY <1>1 DEF ClosedRef
  <1>4. ClosedRef \in [1..Sources -> SourceState]
    BY <1>1, <1>2 DEF ClosedRef
  <1> QED
    BY <1>1, <1>2, <1>3, <1>4

\* Without an open source, the list starts again.
LEMMA ListStartsAgain ==
    ASSUME ListInv, log' = log, ScreenShape', messagesPage'.fresh = 0,
           source' \in [1..Sources -> SourceState],
           \A i \in 1..Sources :
              Ascends(source'[i], log) /\ source'[i].readyState # "open"
    PROVE  ListInv'
  <1>1. SourcesAscend'
    BY DEF ListInv, SourcesAscend
  <1>2. \A i \in 1..Sources : ~IsOpen(i)'
    BY DEF IsOpen
  <1>3. StreamInOrder'
    BY DEF StreamInOrder
  <1> QED
    BY <1>1, <1>2, <1>3 DEF ListInv, ListFollows

\* An empty page.
LEMMA FreshScreen ==
    ASSUME messagesPage' = MessagesFresh
    PROVE  ScreenShape' /\ messagesPage'.fresh = 0
  <1>1. EventCap \in Nat \ {0} /\ Sources \in Nat \ {0}
    BY MessagesAssumption
  <1>2. <<>> \in Seq(Ids) /\ Len(<<>>) = 0
    OBVIOUS
  <1> QED
    BY <1>1, <1>2 DEF MessagesFresh, ScreenShape, NoRef

\* The buttons of the page.
LEMMA MessagesUserList ==
    ASSUME ListInv, StreamInv, log' = log, MessagesUser
    PROVE  ListInv'
  <1>1. ScreenShape /\ StreamInOrder /\ EventCap \in Nat /\ Sources \in Nat \ {0}
    BY MessagesAssumption DEF ListInv, ListFollows
  <1>2. CASE RegisterViewer \/ \E cred \in {"valid", "wrong"} : PasteCredentials(cred)
    <2>1. /\ source' = source /\ ScreenShape' /\ messagesPage'.fresh = messagesPage.fresh
          /\ messagesPage'.events = messagesPage.events
      BY <1>1, <1>2 DEF RegisterViewer, PasteCredentials, ScreenShape
    <2>2. StreamInOrder'
      BY <1>1, <2>1 DEF StreamInOrder
    <2> QED
      BY <2>1, <2>2 DEF ListInv, ListFollows, SourcesAscend, ShowsUpTo, IsOpen
  <1>3. CASE Disconnect
    <2>1. source' = ClosedRef /\ ScreenShape' /\ messagesPage'.fresh = 0
      <3>1. NoRef \in 0..Sources
        BY <1>1 DEF NoRef
      <3> QED
        BY <1>1, <1>3, <3>1, ScreenClears DEF Disconnect
    <2>2. \A i \in 1..Sources : ClosedRef[i].readyState # "open"
      BY ClosedRefHasNone
    <2> QED
      BY <2>1, <2>2, ClosedRefAscends, ListStartsAgain
  <1>4. CASE Connect
    <2>1. PICK i \in 1..Sources :
             /\ source' = [ClosedRef EXCEPT ![i] = NewSource(messagesPage.cred = "valid")]
             /\ messagesPage' = [messagesPage EXCEPT !.ref = i, !.conn = "connecting",
                                                     !.fresh = 0]
      BY <1>4 DEF Connect, ConnectOver
    <2> DEFINE new == NewSource(messagesPage.cred = "valid")
    <2>2. /\ new \in SourceState /\ Ascends(new, log) /\ new.readyState = "connecting"
      BY LogNat, NewSourceAscends, NoSourceState DEF ListInv
    <2> HIDE DEF new
    <2>3. source' = [ClosedRef EXCEPT ![i] = new]
      BY <2>1 DEF new
    <2>4. source' \in [1..Sources -> SourceState]
      BY <2>2, <2>3, ClosedRefAscends
    <2>5. \A j \in 1..Sources : source'[j] = IF j = i THEN new ELSE ClosedRef[j]
      BY <2>3, ClosedRefAscends
    <2>6. \A j \in 1..Sources : Ascends(source'[j], log) /\ source'[j].readyState # "open"
      BY <2>2, <2>5, ClosedRefAscends, ClosedRefHasNone
    <2>7. ScreenShape' /\ messagesPage'.fresh = 0
      <3>1. i \in 0..Sources
        BY <1>1
      <3> QED
        BY <1>1, <2>1, <3>1, ScreenClears
    <2> QED
      BY <2>4, <2>6, <2>7, ListStartsAgain
  <1> QED
    BY <1>2, <1>3, <1>4 DEF MessagesUser

\* A page that mounts starts with an empty list and no source.
LEMMA MountList ==
    ASSUME ListInv, StreamInv, log' = log, NEW n, NEW old, NEW new, NEW calls,
           Mount(n, old, new, calls), old = "messages" \/ messagesPage.ref = NoRef
    PROVE  ListInv'
  <1>1. source' = ClosedRef /\ messagesPage' = MessagesFresh
    BY DEF Mount, MessagesUnmounted, ClosedRef
  <1>2. \A i \in 1..Sources : ClosedRef[i].readyState # "open"
    BY ClosedRefHasNone
  <1> QED
    BY <1>1, <1>2, FreshScreen, ClosedRefAscends, ListStartsAgain

\* The router unmounts the page on screen.
LEMMA NavigateList ==
    ASSUME ListInv, StreamInv, log' = log, NEW n, NEW r, Navigate(n, r)
    PROVE  ListInv'
  <1>1. Page = "messages" \/ messagesPage.ref = NoRef
    BY DEF StreamInv, StreamHeld
  <1> QED
    BY <1>1, MountList DEF Navigate

\* Page and sources stay, and more may be stored.
LEMMA SameList ==
    ASSUME ListInv, UNCHANGED <<messagesPage, source>>, log' \in 0..MaxMessages, log' >= log
    PROVE  ListInv'
  <1>1. log \in Nat /\ log' \in Nat /\ log <= log'
    BY LogNat, ApiAssumption DEF ListInv
  <1>2. SourcesAscend'
    BY <1>1, AscendsStays DEF ListInv, SourcesAscend
  <1>3. ScreenShape' /\ StreamInOrder'
    BY SameScreen DEF ListInv, ListFollows
  <1> QED
    BY <1>2, <1>3 DEF ListInv, ListFollows, IsOpen

\* The tab opens without a stream and without messages.
LEMMA InitList == Init => ListInv /\ PostingStored
  <1> SUFFICES ASSUME Init PROVE ListInv /\ PostingStored
    OBVIOUS
  <1>1. /\ log = 0 /\ MaxMessages \in Nat /\ messagesPage = MessagesFresh
        /\ source = NoSources /\ posting = [p \in Senders |-> 0]
    BY ApiAssumption DEF Init, ApiInit, MessagesInit
  <1>2. NoSource \in SourceState /\ Ascends(NoSource, log) /\ NoSource.readyState = "none"
    BY <1>1, NewSourceAscends, NoSourceState
  <1>3. source = [i \in 1..Sources |-> NoSource]
    BY <1>1 DEF NoSources
  <1>4. SourcesAscend /\ \A i \in 1..Sources : ~IsOpen(i)
    BY <1>1, <1>2, <1>3 DEF SourcesAscend, IsOpen
  <1>5. messagesPage.fresh = 0 /\ ScreenShape
    <2>1. EventCap \in Nat \ {0} /\ Sources \in Nat \ {0}
      BY MessagesAssumption
    <2>2. <<>> \in Seq(Ids) /\ Len(<<>>) = 0
      OBVIOUS
    <2> QED
      BY <1>1, <2>1, <2>2 DEF MessagesFresh, ScreenShape, NoRef
  <1>6. ListFollows
    BY <1>4, <1>5 DEF ListFollows, StreamInOrder
  <1> QED
    BY <1>1, <1>4, <1>5, <1>6 DEF ListInv, PostingStored

-----------------------------------------------------------------------------
(* Every step.                                                             *)

\* A read of the limits changes nothing but its answer and the faults.
LEMMA LimitsServed ==
    ASSUME NEW s \in Slots, ServeLimits(s)
    PROVE  /\ Is(s, "limits")
           /\ UNCHANGED <<cookie, apiVars>>
           /\ faults' = faults \/ (MayFail /\ faults' = faults + 1)
  BY DEF ServeLimits, HeaderReset, HeaderCount, HeaderFailsOpen, LimitsReset,
     LimitsTokenFails, Limits

\* Nothing but a send stores a message or leaves one to be published.
LEMMA ServeKeepsLog ==
    ASSUME NEW s \in Slots, Serve(s)
    PROVE  log' = log
  <1>1. CASE Unauthorized(s) \/ ServerError(s) \/ Login(s) \/ LoginFails(s) \/ Me(s)
    BY <1>1 DEF Unauthorized, ServerError, Login, LoginFails, Me, apiVars
  <1>2. CASE ListApps(s) \/ CreateApp(s) \/ DeleteApp(s)
    BY <1>2 DEF ListApps, CreateApp, DeleteApp, apiVars
  <1>3. CASE ServeLimits(s)
    BY <1>3, LimitsServed DEF apiVars
  <1>4. CASE QuietHours(s) \/ DeviceLogin(s)
    BY <1>4 DEF QuietHours, DeviceLogin, apiVars
  <1> QED
    BY <1>1, <1>2, <1>3, <1>4 DEF Serve

\* The same for the tab and the streams.
LEMMA TabKeepsLog ==
    ASSUME \/ UserStep \/ HomeReplaced
           \/ \E s \in Slots : Served(s) \/ Settle(s) \/ Reject(s)
           \/ \E i \in 1..Sources : Streams(i)
           \/ Others
           \/ UNCHANGED vars
    PROVE  UNCHANGED <<log, posting>>
  <1> USE DEF apiVars, serverVars
  <1>1. ASSUME UserStep \/ HomeReplaced PROVE UNCHANGED <<log, posting>>
    BY <1>1 DEF UserStep, HomeReplaced, OnSubmit, GoTo, UserActs, Deaf
  <1>2. ASSUME NEW s \in Slots, Served(s) PROVE UNCHANGED <<log, posting>>
    BY <1>2, ServeKeepsLog DEF Served
  <1>3. ASSUME NEW s \in Slots, Settle(s) \/ Reject(s) PROVE UNCHANGED <<log, posting>>
    BY <1>3 DEF Settle, LoginAnswered, LayoutProbed, PageAnswered, Unheard, Deaf, Reject
  <1>4. ASSUME NEW i \in 1..Sources, Streams(i) PROVE UNCHANGED <<log, posting>>
    BY <1>4 DEF Streams
  <1>5. ASSUME Others PROVE UNCHANGED <<log, posting>>
    BY <1>5 DEF Others, SessionExpires, OtherSaves, OtherClientSaves
  <1>6. ASSUME UNCHANGED vars PROVE UNCHANGED <<log, posting>>
    BY <1>6 DEF vars, state
  <1> QED
    BY <1>1, <1>2, <1>3, <1>4, <1>5, <1>6

\* A send stores the next message and has it published, or neither.
LEMMA SendsLog ==
    ASSUME PostingStored, log \in 0..MaxMessages, NEW p \in Senders, Sends(p)
    PROVE  /\ UNCHANGED <<messagesPage, source, route, layout>>
           /\ log' \in 0..MaxMessages
           /\ \/ log' = log /\ posting' = posting
              \/ /\ log' = log + 1 /\ posting' = [posting EXCEPT ![p] = log + 1]
                 /\ SendStored(p)
  <1>1. MaxMessages \in Nat
    BY ApiAssumption
  <1>2. UNCHANGED <<messagesPage, source, route, layout>>
    BY DEF Sends, tabVars, pageVars, routeVars
  <1>3. CASE SendStored(p) /\ posting' = [posting EXCEPT ![p] = log']
    BY <1>1, <1>2, <1>3 DEF SendStored
  <1>4. CASE UNCHANGED <<log, posting>>
    BY <1>2, <1>4
  <1> QED
    BY <1>3, <1>4 DEF Sends, SendGated, SendRefused, SendCharged, SendUncharged, apiVars

\* What is to be published was stored before.
LEMMA PostingStep ==
    ASSUME ListInv, PostingStored, [Next]_vars
    PROVE  PostingStored'
  <1>1. MaxMessages \in Nat /\ log \in 0..MaxMessages
    BY ApiAssumption DEF ListInv, SourcesAscend
  <1>2. ASSUME UNCHANGED <<log, posting>> PROVE PostingStored'
    BY <1>2 DEF PostingStored
  <1>3. ASSUME NEW p \in Senders, Sends(p) PROVE PostingStored'
    <2>1. CASE log' = log /\ posting' = posting
      BY <1>2, <2>1
    <2>2. CASE log' = log + 1 /\ posting' = [posting EXCEPT ![p] = log + 1]
      <3>1. log' \in 0..MaxMessages
        BY <1>1, <1>3, SendsLog
      <3> QED
        BY <1>1, <2>2, <3>1 DEF PostingStored
    <2> QED
      BY <1>1, <1>3, <2>1, <2>2, SendsLog
  <1>4. ASSUME NEW p \in Senders, Published(p) PROVE PostingStored'
    BY <1>1, <1>4 DEF Published, Publish, apiVars, PostingStored
  <1> QED
    BY <1>2, <1>3, <1>4, TabKeepsLog DEF Next

\* The probe of a layout that is loading, hence with no page on screen.
LEMMA LayoutProbedList ==
    ASSUME Owned, StreamInv, ListInv, log' = log, NEW s \in Slots, LayoutProbed(s)
    PROVE  ListInv'
  <1>1. layout = "loading"
    BY DEF LayoutProbed, Owned, OwnedBy, FromPage, Vacant
  <1>2. Page = "blank"
    BY <1>1 DEF Owned, Routed, Page, PageAt, Pages
  <1>3. messagesPage.ref = NoRef
    BY <1>2 DEF StreamInv, StreamHeld
  <1>4. CASE net[s].answer.status = 200
    BY <1>3, <1>4, MountList DEF LayoutProbed
  <1>5. CASE net[s].answer.status # 200
    BY <1>5, NavigateList DEF LayoutProbed
  <1> QED
    BY <1>4, <1>5

\* No step of the tab, the server or the others spoils the order.
LEMMA ListStep ==
    ASSUME Owned, StreamInv, ListInv, PostingStored, [Next]_vars
    PROVE  ListInv'
  <1>1. log \in 0..MaxMessages /\ MaxMessages \in Nat
    BY ApiAssumption DEF ListInv, SourcesAscend
  <1>2. ASSUME UNCHANGED <<messagesPage, source, log>> PROVE ListInv'
    BY <1>1, <1>2, SameList
  <1>3. ASSUME NEW p \in Senders, Sends(p) PROVE ListInv'
    <2>1. UNCHANGED <<messagesPage, source>> /\ log' \in 0..MaxMessages /\ log' >= log
      BY <1>1, <1>3, SendsLog
    <2> QED
      BY <2>1, SameList
  <1>4. ASSUME NEW p \in Senders, Published(p) PROVE ListInv'
    BY <1>4, PublishList DEF Published, apiVars
  <1>5. ASSUME NEW r \in Pages, GoTo(r) PROVE ListInv'
    BY <1>5, NavigateList DEF GoTo, Deaf, serverVars, apiVars
  <1>6. ASSUME HomeReplaced PROVE ListInv'
    BY <1>6, NavigateList DEF HomeReplaced, Deaf, serverVars, apiVars
  <1>7. ASSUME UserActs PROVE ListInv'
    <2>1. log' = log
      BY <1>7 DEF UserActs, Deaf, serverVars, apiVars
    <2>2. CASE MessagesUser
      BY <2>1, <2>2, MessagesUserList
    <2>3. CASE UNCHANGED <<messagesPage, source>>
      BY <1>2, <2>1, <2>3
    <2> QED
      BY <1>7, <2>2, <2>3 DEF UserActs
  <1>8. ASSUME NEW i \in 1..Sources, Streams(i) PROVE ListInv'
    <2>1. log' = log
      BY <1>8 DEF Streams, serverVars, apiVars
    <2>2. CASE Accept(i) \/ Refused(i) \/ LoseConnection(i)
      BY <2>1, <2>2, ConnectionList
    <2>3. CASE Subscribe(i) \/ Replay(i) \/ ReplayFails(i) \/ Forward(i) \/ ReceiveEvent(i)
      BY <2>1, <2>3, HandlerList
    <2> QED
      BY <1>8, <2>2, <2>3 DEF Streams, StreamStep, StreamFault, Refuse
  <1>9. ASSUME NEW s \in Slots, Settle(s) PROVE ListInv'
    <2>1. log' = log
      BY <1>9, TabKeepsLog
    <2>2. CASE LoginAnswered(s)
      <3>1. CASE \E r : Navigate(Done(s), r)
        BY <2>1, <3>1, NavigateList
      <3>2. CASE UNCHANGED <<messagesPage, source>>
        BY <1>2, <2>1, <3>2
      <3> QED
        BY <2>2, <3>1, <3>2 DEF LoginAnswered, LoginProbed, CookieStored, LoggedIn,
           ToDashboard, Stay, pageVars
    <2>3. CASE LayoutProbed(s)
      BY <2>1, <2>3, LayoutProbedList
    <2>4. CASE Registered(s)
      <3>1. /\ source' = source /\ ScreenShape' /\ messagesPage'.fresh = messagesPage.fresh
            /\ messagesPage'.events = messagesPage.events
        <4>1. ScreenShape
          BY DEF ListInv
        <4> DEFINE page == [messagesPage EXCEPT !.busy = FALSE]
        <4>2. /\ messagesPage' \in {page, [page EXCEPT !.cred = "valid"]}
              /\ source' = source
          BY <2>4 DEF Registered
        <4>3. messagesPage' = page \/ messagesPage' = [messagesPage EXCEPT !.busy = FALSE,
                                                                         !.cred = "valid"]
          BY <4>1, <4>2 DEF ScreenShape
        <4> QED
          BY <4>1, <4>2, <4>3 DEF ScreenShape
      <3>2. StreamInOrder'
        BY <3>1 DEF StreamInOrder, ListInv, ListFollows
      <3> QED
        BY <2>1, <3>1, <3>2 DEF ListInv, ListFollows, SourcesAscend, ShowsUpTo, IsOpen
    <2>5. CASE UNCHANGED <<messagesPage, source>>
      BY <1>2, <2>1, <2>5
    <2> QED
      BY <1>9, <2>2, <2>3, <2>4, <2>5 DEF Settle, PageAnswered, Unheard, Stay, pageVars
  <1>10. ASSUME \/ \E valid \in BOOLEAN : OnSubmit(valid)
                \/ \E s \in Slots : Served(s) \/ Reject(s)
                \/ Others \/ UNCHANGED vars
         PROVE  ListInv'
    <2>1. log' = log
      BY <1>10, TabKeepsLog DEF UserStep
    <2>2. UNCHANGED <<messagesPage, source>>
      BY <1>10 DEF OnSubmit, Served, Reject, Others, OtherSaves, vars, state, tabVars,
         pageVars
    <2> QED
      BY <1>2, <2>1, <2>2
  <1> QED
    BY <1>3, <1>4, <1>5, <1>6, <1>7, <1>8, <1>9, <1>10 DEF Next, UserStep

\* What the Live messages page shows of a connection stands newest first and
\* without repetition, in every order of commits, publications, replay and
\* reconnections (messages/page.tsx:138, internal/hub/sse.go:44).
THEOREM ListIsInOrder == Spec => []StreamInOrder
  <1>1. Init => Owned /\ StreamInv /\ ListInv /\ PostingStored
    BY InitOwned, InitStreams, InitList
  <1>2. Owned /\ StreamInv /\ ListInv /\ PostingStored /\ [Next]_vars
            => (Owned /\ StreamInv /\ ListInv /\ PostingStored)'
    BY OwnedStep, StreamsStep, ListStep, PostingStep
  <1>3. ListInv => StreamInOrder
    BY DEF ListInv, ListFollows
  <1> QED
    BY <1>1, <1>2, <1>3, PTL DEF Spec

-----------------------------------------------------------------------------
(* The top of the list.                                                    *)

\* A send that has still to be published is between its insert and its charge, so
\* no other send of that goroutine takes its place.
PostingHeld == \A p \in Senders : posting[p] # 0 => sender[p].step = "sent"

\* A live stream whose replay read everything and that is subscribed gets every
\* message: it was sent, waits in the inbox, or is still to be published.
Reached(i) ==
    IsOpen(i) /\ source[i].phase = "live" /\ source[i].whole /\ source[i].listed =>
        \A m \in 1..log : \/ m <= source[i].lastSent
                          \/ \E k \in 1..Len(source[i].inbox) : source[i].inbox[k] = m
                          \/ \E p \in Senders : posting[p] = m

LatestInv == PostingHeld /\ \A i \in 1..Sources : Reached(i)

\* Only the sender itself moves on, and not before its message is published.
LEMMA HeldStep ==
    ASSUME QuotaTypeOK, PostingStored, ListInv, PostingHeld, [Next]_vars
    PROVE  PostingHeld'
  <1>1. /\ sender \in [Senders -> SenderState] /\ posting \in [Senders -> 0..MaxMessages]
        /\ log \in Nat
    BY LogNat DEF QuotaTypeOK, PostingStored, ListInv
  <1>2. ASSUME sender' = sender, UNCHANGED posting PROVE PostingHeld'
    BY <1>2 DEF PostingHeld
  <1>3. ASSUME NEW p \in Senders, Sends(p) PROVE PostingHeld'
    <2>1. CASE SendStored(p) /\ posting' = [posting EXCEPT ![p] = log']
      <3>1. sender[p].step = "passed" /\ sender' = [sender EXCEPT ![p].step = "sent"]
        BY <2>1 DEF SendStored, Ingest
      <3>2. "step" \in DOMAIN sender[p]
        BY <1>1 DEF SenderState, Idle
      <3>3. /\ sender'[p].step = "sent"
            /\ \A q \in Senders \ {p} : sender'[q] = sender[q]
        BY <1>1, <3>1, <3>2
      <3>4. \A q \in Senders \ {p} : posting'[q] = posting[q]
        BY <1>1, <2>1
      <3> QED
        BY <3>3, <3>4 DEF PostingHeld
    <2>2. CASE posting' = posting /\ posting[p] = 0
                /\ \A q \in Senders \ {p} : sender'[q] = sender[q]
      BY <2>2 DEF PostingHeld
    <2>3. CASE \E a \in Apps, n \in 1..MaxRecipients :
                  SendGated(p, a, n) /\ UNCHANGED posting
      <3>1. sender[p].step = "idle" /\ \A q \in Senders \ {p} : sender'[q] = sender[q]
        BY <1>1, <2>3 DEF SendGated, Gate, Idle
      <3> QED
        BY <2>2, <2>3, <3>1 DEF PostingHeld
    <2>4. CASE SendRefused(p) /\ UNCHANGED posting
      <3>1. sender[p].step = "passed" /\ \A q \in Senders \ {p} : sender'[q] = sender[q]
        BY <1>1, <2>4 DEF SendRefused, IngestFails
      <3> QED
        BY <2>2, <2>4, <3>1 DEF PostingHeld
    <2>5. CASE /\ posting[p] = 0 /\ (SendCharged(p) \/ SendUncharged(p))
               /\ UNCHANGED posting
      <3>1. \A q \in Senders \ {p} : sender'[q] = sender[q]
        BY <1>1, <2>5 DEF SendCharged, SendUncharged, Charge, ChargeFails
      <3> QED
        BY <2>2, <2>5, <3>1
    <2> QED
      BY <1>3, <2>1, <2>3, <2>4, <2>5 DEF Sends
  <1>4. ASSUME NEW p \in Senders, Published(p) PROVE PostingHeld'
    <2>1. sender' = sender /\ posting' = [posting EXCEPT ![p] = 0]
      BY <1>4 DEF Published, Publish, quotaVars
    <2> QED
      BY <1>1, <2>1 DEF PostingHeld
  <1>5. ASSUME Others PROVE PostingHeld'
    <2>1. sender' = sender
      BY <1>5 DEF Others, OtherSaves, MonthEnds, quotaVars
    <2> QED
      BY <1>2, <1>5, <2>1, TabKeepsLog
  <1>6. ASSUME \/ UserStep \/ HomeReplaced
               \/ \E s \in Slots : Served(s) \/ Settle(s) \/ Reject(s)
               \/ \E i \in 1..Sources : Streams(i)
        PROVE  PostingHeld'
    <2>1. sender' = sender
      BY <1>6, OtherStepsLeaveGate DEF quotaVars
    <2> QED
      BY <1>2, <1>6, <2>1, TabKeepsLog
  <1>7. ASSUME UNCHANGED vars PROVE PostingHeld'
    BY <1>2, <1>7 DEF vars, state, serverVars, quotaVars
  <1> QED
    BY <1>3, <1>4, <1>5, <1>6, <1>7 DEF Next

\* A source that stays as it is, or is not open.
LEMMA SameReached ==
    ASSUME NEW i \in 1..Sources, Reached(i), UNCHANGED <<log, posting>>,
           source'[i] = source[i] \/ source'[i].readyState # "open"
    PROVE  Reached(i)'
  BY DEF Reached, IsOpen

\* The steps of the stream: a replay that reads everything reaches every message, and
\* what the live loop drops was sent before.
LEMMA StreamStepReached ==
    ASSUME ListInv, NEW i \in 1..Sources, \A j \in 1..Sources : Reached(j),
           UNCHANGED <<log, posting>>, StreamStep(i) \/ StreamFault(i)
    PROVE  \A j \in 1..Sources : Reached(j)'
  <1> DEFINE x == source[i]
  <1>1. /\ source \in [1..Sources -> SourceState] /\ log \in Nat /\ x \in SourceState
        /\ x.inbox \in Seq(Ids) /\ x.lastSent \in Nat
    BY LogNat DEF ListInv, SourcesAscend, SourceState
  <1>2. \A j \in 1..Sources \ {i} : source'[j] = source[j]
    BY <1>1 DEF StreamStep, StreamFault, Accept, Refuse, Refused, Subscribe, Replay, Forward,
       ReceiveEvent, LoseConnection, ReplayFails
  <1>3. ASSUME Reached(i)' PROVE \A j \in 1..Sources : Reached(j)'
    BY <1>2, <1>3, SameReached
  <1>4. CASE Accept(i)
    <2>1. source'[i].phase = "accepted"
      BY <1>1, <1>4 DEF Accept, NewSource
    <2> QED
      BY <1>3, <2>1 DEF Reached
  <1>5. CASE Refused(i) \/ LoseConnection(i)
    <2>1. source'[i].readyState # "open"
      <3>1. CASE Refused(i)
        BY <1>1, <3>1 DEF Refused, SourceState
      <3>2. CASE LoseConnection(i)
        <4>1. source'[i] = NewSource(x.ok)
          BY <1>1, <3>2 DEF LoseConnection
        <4> QED
          BY <4>1 DEF NewSource
      <3> QED
        BY <1>5, <3>1, <3>2
    <2> QED
      BY <1>3, <2>1, SameReached
  <1>6. CASE Subscribe(i)
    <2>1. source'[i].phase = "subscribed"
      BY <1>1, <1>6 DEF Subscribe, SourceState
    <2> QED
      BY <1>3, <2>1 DEF Reached
  <1>7. CASE ReplayFails(i)
    <2>1. source'[i].whole = FALSE
      BY <1>1, <1>7 DEF ReplayFails, SourceState
    <2> QED
      BY <1>3, <2>1 DEF Reached
  <1>8. CASE Replay(i)
    <2> DEFINE n == IF log < PageLimit THEN log ELSE PageLimit
               y == [x EXCEPT !.phase = "live", !.lastSent = n,
                              !.wire = [k \in 1..n |-> k], !.whole = n = log]
    <2>1. source' = [source EXCEPT ![i] = y]
      BY <1>8 DEF Replay
    <2> HIDE DEF n
    <2>2. y.lastSent = n /\ (y.whole <=> n = log)
      BY <1>1 DEF SourceState
    <2>3. source'[i] = y
      BY <1>1, <2>1
    <2> HIDE DEF y
    <2>4. Reached(i)'
      <3> SUFFICES ASSUME y.whole, NEW m \in 1..log PROVE m <= y.lastSent
        BY <2>3 DEF Reached
      <3> QED
        BY <1>1, <2>2
    <2> QED
      BY <1>3, <2>4
  <1>9. CASE Forward(i)
    <2> DEFINE h == Head(x.inbox)
               b == Tail(x.inbox)
               y == IF h <= x.lastSent
                    THEN [x EXCEPT !.inbox = b]
                    ELSE [x EXCEPT !.inbox = b, !.lastSent = h,
                                   !.wire = Append(x.wire, h)]
    <2>1. source' = [source EXCEPT ![i] = y] /\ x.inbox # <<>> /\ x.phase = "live"
      BY <1>9 DEF Forward
    <2>2. source'[i] = y
      BY <1>1, <2>1
    <2>3. /\ h = x.inbox[1] /\ h \in Nat /\ Len(x.inbox) \in Nat /\ Len(b) = Len(x.inbox) - 1
          /\ \A k \in 1..Len(b) : b[k] = x.inbox[k + 1]
      BY <1>1, <2>1, IdsOf, IdsTail
    <2> HIDE DEF b, h
    <2>4. /\ y.inbox = b /\ y.readyState = x.readyState /\ y.whole = x.whole
          /\ y.listed = x.listed
      BY <1>1 DEF SourceState
    <2>5. y.lastSent = IF h <= x.lastSent THEN x.lastSent ELSE h
      BY <1>1 DEF SourceState
    <2> HIDE DEF y
    <2>6. y.lastSent \in Nat /\ x.lastSent <= y.lastSent /\ h <= y.lastSent
      BY <1>1, <2>3, <2>5
    <2>7. ASSUME NEW m \in 1..log, m <= x.lastSent PROVE m <= y.lastSent
      BY <1>1, <2>6, <2>7
    <2>8. ASSUME NEW m \in 1..log, NEW k \in 1..Len(x.inbox), x.inbox[k] = m
          PROVE  m <= y.lastSent \/ \E l \in 1..Len(b) : b[l] = m
      <3>1. CASE k = 1
        BY <2>3, <2>6, <2>8, <3>1
      <3>2. CASE k # 1
        <4>1. k - 1 \in 1..Len(b) /\ b[k - 1] = x.inbox[(k - 1) + 1] /\ (k - 1) + 1 = k
          BY <2>3, <3>2
        <4> QED
          BY <2>8, <4>1
      <3> QED
        BY <3>1, <3>2
    <2>9. Reached(i)'
      <3> SUFFICES ASSUME y.readyState = "open", y.whole, y.listed, NEW m \in 1..log
                   PROVE  \/ m <= y.lastSent
                          \/ \E l \in 1..Len(b) : b[l] = m
                          \/ \E p \in Senders : posting[p] = m
        BY <2>2, <2>4 DEF Reached, IsOpen
      <3>1. \/ m <= x.lastSent
            \/ \E k \in 1..Len(x.inbox) : x.inbox[k] = m
            \/ \E p \in Senders : posting[p] = m
        BY <2>1, <2>4 DEF Reached, IsOpen
      <3> QED
        BY <2>7, <2>8, <3>1
    <2> QED
      BY <1>3, <2>9
  <1>10. CASE ReceiveEvent(i)
    <2>1. /\ source'[i].inbox = x.inbox /\ source'[i].lastSent = x.lastSent
          /\ source'[i].whole = x.whole /\ source'[i].listed = x.listed
          /\ source'[i].phase = x.phase /\ source'[i].readyState = x.readyState
      BY <1>1, <1>10 DEF ReceiveEvent, SourceState
    <2>2. Reached(i)'
      <3> SUFFICES ASSUME IsOpen(i)', x.phase = "live", x.whole, x.listed, NEW m \in 1..log
                   PROVE  \/ m <= x.lastSent
                          \/ \E k \in 1..Len(x.inbox) : x.inbox[k] = m
                          \/ \E p \in Senders : posting[p] = m
        BY <2>1 DEF Reached
      <3> QED
        BY <2>1 DEF Reached, IsOpen
    <2> QED
      BY <1>3, <2>2
  <1> QED
    BY <1>4, <1>5, <1>6, <1>7, <1>8, <1>9, <1>10 DEF StreamStep, StreamFault, Refuse

\* A publication takes a message from posting to every inbox that is not full.
LEMMA PublishReached ==
    ASSUME ListInv, PostingStored, NEW i \in 1..Sources, Reached(i), log' = log,
           NEW p \in Senders, Publish(p)
    PROVE  Reached(i)'
  <1> DEFINE x == source[i]
             y == source'[i]
             b == Append(x.inbox, posting[p])
  <1>1. /\ source \in [1..Sources -> SourceState] /\ x \in SourceState
        /\ x.inbox \in Seq(Ids) /\ posting[p] \in Ids
    BY ApiAssumption DEF ListInv, SourcesAscend, SourceState, Publish, PostingStored, Ids
  <1>2. \A q \in Senders \ {p} : posting'[q] = posting[q]
    BY DEF Publish, PostingStored
  <1>3. CASE ~Listed(i)
    <2>1. y = x
      BY <1>3 DEF Publish
    <2> QED
      BY <1>3, <2>1 DEF Reached, Listed, IsOpen
  <1>4. CASE Listed(i) /\ y = [x EXCEPT !.listed = FALSE]
    <2>1. y.listed = FALSE
      BY <1>1, <1>4 DEF SourceState
    <2> QED
      BY <2>1 DEF Reached
  <1>5. CASE Listed(i) /\ y = [x EXCEPT !.inbox = b]
    <2>1. /\ Len(x.inbox) \in Nat /\ Len(b) = Len(x.inbox) + 1
          /\ b[Len(x.inbox) + 1] = posting[p]
          /\ \A k \in 1..Len(x.inbox) : b[k] = x.inbox[k]
      BY <1>1, IdsOf, IdsAppend
    <2> HIDE DEF b
    <2>2. /\ y.inbox = b /\ y.lastSent = x.lastSent /\ y.whole = x.whole
          /\ y.phase = x.phase /\ y.readyState = x.readyState
      BY <1>1, <1>5 DEF SourceState
    <2> SUFFICES ASSUME y.readyState = "open", y.phase = "live", y.whole, NEW m \in 1..log
                 PROVE  \/ m <= y.lastSent
                        \/ \E l \in 1..Len(b) : b[l] = m
                        \/ \E q \in Senders : posting'[q] = m
      BY <2>2 DEF Reached, IsOpen
    <2>3. \/ m <= x.lastSent
          \/ \E k \in 1..Len(x.inbox) : x.inbox[k] = m
          \/ \E q \in Senders : posting[q] = m
      BY <1>5, <2>2 DEF Reached, Listed, IsOpen
    <2>4. CASE \E k \in 1..Len(x.inbox) : x.inbox[k] = m
      <3>1. PICK k \in 1..Len(x.inbox) : x.inbox[k] = m
        BY <2>4
      <3>2. k \in 1..Len(b) /\ b[k] = m
        BY <2>1, <3>1
      <3> QED
        BY <3>2
    <2>5. CASE posting[p] = m
      <3>1. Len(x.inbox) + 1 \in 1..Len(b) /\ b[Len(x.inbox) + 1] = m
        BY <2>1, <2>5
      <3> QED
        BY <3>1
    <2> QED
      BY <1>2, <2>2, <2>3, <2>4, <2>5
  <1> QED
    BY <1>3, <1>4, <1>5 DEF Publish

\* A message that is stored is to be published.
LEMMA SendReached ==
    ASSUME ListInv, PostingStored, PostingHeld, NEW i \in 1..Sources, Reached(i),
           NEW p \in Senders, Sends(p)
    PROVE  Reached(i)'
  <1>1. log \in 0..MaxMessages /\ log \in Nat /\ source' = source
    BY LogNat, SendsLog DEF ListInv, SourcesAscend
  <1>2. CASE log' = log /\ posting' = posting
    BY <1>1, <1>2, SameReached
  <1>3. CASE /\ log' = log + 1 /\ posting' = [posting EXCEPT ![p] = log + 1]
             /\ SendStored(p)
    <2>1. posting[p] = 0
      BY <1>3 DEF SendStored, Ingest, PostingHeld
    <2>2. posting'[p] = log + 1 /\ \A q \in Senders \ {p} : posting'[q] = posting[q]
      BY <1>3 DEF PostingStored
    <2>3. ASSUME NEW m \in 1..log, NEW q \in Senders, posting[q] = m
          PROVE  posting'[q] = m
      <3>1. q # p
        BY <2>1, <2>3
      <3> QED
        BY <2>2, <2>3, <3>1
    <2>4. \A m \in 1..(log + 1) : m \in 1..log \/ m = log + 1
      BY <1>1
    <2> QED
      BY <1>1, <1>3, <2>2, <2>3, <2>4 DEF Reached, IsOpen
  <1> QED
    BY <1>1, <1>2, <1>3, SendsLog

\* What the router and the page's buttons leave of the sources.
LEMMA SourcesClosed ==
    ASSUME StreamInv, NEW i \in 1..Sources,
           \/ \E n, old, new, calls : Mount(n, old, new, calls)
           \/ \E n, r : Navigate(n, r)
           \/ MessagesUser
    PROVE  source'[i] = source[i] \/ source'[i].readyState # "open"
  <1>1. ClosedRef[i].readyState # "open"
    BY ClosedRefHasNone
  <1>2. ASSUME NEW n, NEW old, NEW new, NEW calls, Mount(n, old, new, calls)
        PROVE  source' = source \/ source' = ClosedRef
    BY <1>2 DEF Mount, MessagesUnmounted
  <1>3. ASSUME NEW n, NEW r, Navigate(n, r)
        PROVE  source' = source \/ source' = ClosedRef
    BY <1>2, <1>3 DEF Navigate
  <1>4. CASE MessagesUser
    <2>1. CASE Connect
      <3>1. PICK k \in 1..Sources :
               source' = [ClosedRef EXCEPT ![k] = NewSource(messagesPage.cred = "valid")]
        BY <2>1 DEF Connect, ConnectOver
      <3>2. NewSource(messagesPage.cred = "valid").readyState # "open"
        BY NoSourceState
      <3> QED
        BY <1>1, <3>1, <3>2, ClosedRefHasNone
    <2>2. CASE source' = source \/ source' = ClosedRef
      BY <1>1, <2>2
    <2> QED
      BY <1>4, <2>1, <2>2 DEF MessagesUser, RegisterViewer, PasteCredentials, Disconnect
  <1> QED
    BY <1>1, <1>2, <1>3, <1>4

\* No step loses a message on its way to the page.
LEMMA LatestStep ==
    ASSUME QuotaTypeOK, StreamInv, ListInv, PostingStored, LatestInv, [Next]_vars
    PROVE  LatestInv'
  <1>1. PostingHeld'
    BY HeldStep DEF LatestInv
  <1> DEFINE all == \A i \in 1..Sources : Reached(i)'
  <1>2. ASSUME UNCHANGED <<log, posting>>,
               \A i \in 1..Sources :
                  source'[i] = source[i] \/ source'[i].readyState # "open"
        PROVE  all
    BY <1>2, SameReached DEF LatestInv
  <1>3. ASSUME NEW p \in Senders, Sends(p) PROVE all
    BY <1>3, SendReached DEF LatestInv
  <1>4. ASSUME NEW p \in Senders, Published(p) PROVE all
    <2>1. log' = log /\ Publish(p)
      BY <1>4 DEF Published, apiVars
    <2> QED
      BY <2>1, PublishReached DEF LatestInv
  <1>5. ASSUME NEW i \in 1..Sources, Streams(i) PROVE all
    BY <1>5, TabKeepsLog, StreamStepReached DEF Streams, LatestInv
  <1>6. ASSUME UserStep \/ HomeReplaced PROVE all
    <2>1. UNCHANGED <<log, posting>>
      BY <1>6, TabKeepsLog
    <2>2. source' = source \/ MessagesUser \/ \E n, r : Navigate(n, r)
      BY <1>6 DEF UserStep, HomeReplaced, OnSubmit, GoTo, UserActs, pageVars
    <2> QED
      BY <1>2, <2>1, <2>2, SourcesClosed
  <1>7. ASSUME NEW s \in Slots, Served(s) \/ Settle(s) \/ Reject(s) PROVE all
    <2>1. UNCHANGED <<log, posting>>
      BY <1>7, TabKeepsLog
    <2>2. \/ source' = source \/ \E n, r : Navigate(n, r)
          \/ \E n, old, new, calls : Mount(n, old, new, calls)
      <3>1. CASE Served(s) \/ Reject(s)
        BY <3>1 DEF Served, Reject, pageVars
      <3>2. CASE LoginAnswered(s)
        BY <3>2 DEF LoginAnswered, LoginProbed, CookieStored, LoggedIn, ToDashboard, Stay,
           pageVars
      <3>3. CASE LayoutProbed(s)
        BY <3>3 DEF LayoutProbed
      <3>4. CASE PageAnswered(s) \/ Unheard(s)
        BY <3>4 DEF PageAnswered, Registered, Unheard, Stay, pageVars
      <3> QED
        BY <1>7, <3>1, <3>2, <3>3, <3>4 DEF Settle
    <2> QED
      BY <1>2, <2>1, <2>2, SourcesClosed
  <1>8. ASSUME Others \/ UNCHANGED vars PROVE all
    <2>1. UNCHANGED <<log, posting>>
      BY <1>8, TabKeepsLog
    <2>2. source' = source
      BY <1>8 DEF Others, OtherSaves, vars, state, tabVars, pageVars
    <2> QED
      BY <1>2, <2>1, <2>2
  <1> QED
    BY <1>1, <1>3, <1>4, <1>5, <1>6, <1>7, <1>8 DEF Next, LatestInv

\* When all is published and received, the top of the Live messages list is the
\* latest message of the account, unless the replay was cut or the inbox
\* overflowed (messages/page.tsx:142, internal/hub/sse.go:44).
THEOREM LatestIsOnTop == Spec => []LatestOnTop
  <1>1. Init => LatestInv
    <2> SUFFICES ASSUME Init PROVE LatestInv
      OBVIOUS
    <2>1. \A p \in Senders : posting[p] = 0
      BY DEF Init, MessagesInit
    <2>2. log = 0
      BY DEF Init, ApiInit
    <2> QED
      BY <2>1, <2>2 DEF LatestInv, PostingHeld, Reached
  <1>2. Init => Owned /\ StreamInv /\ ListInv /\ PostingStored
    BY InitOwned, InitStreams, InitList
  <1>3. Spec => []QuotaTypeOK
    BY ImplementsQuotaGate, QuotaTypeCorrect, PTL
  <1>4. Owned /\ StreamInv /\ ListInv /\ PostingStored /\ LatestInv /\ QuotaTypeOK
           /\ [Next]_vars
            => (Owned /\ StreamInv /\ ListInv /\ PostingStored /\ LatestInv)'
    <2> SUFFICES ASSUME Owned, StreamInv, ListInv, PostingStored, LatestInv, QuotaTypeOK,
                        [Next]_vars
                 PROVE  (Owned /\ StreamInv /\ ListInv /\ PostingStored /\ LatestInv)'
      OBVIOUS
    <2>1. Owned' /\ StreamInv'
      BY OwnedStep, StreamsStep
    <2>2. ListInv' /\ PostingStored'
      BY ListStep, PostingStep
    <2>3. LatestInv'
      BY LatestStep
    <2> QED
      BY <2>1, <2>2, <2>3
  <1>5. StreamInv /\ ListInv /\ LatestInv => LatestOnTop
    <2> SUFFICES ASSUME ListInv, LatestInv, NEW i \in 1..Sources,
                        IsOpen(i), source[i].phase = "live",
                        source[i].whole, source[i].listed,
                        source[i].inbox = <<>>, source[i].wire = <<>>,
                        \A p \in Senders : posting[p] = 0, log > 0
                 PROVE  messagesPage.fresh > 0 /\ messagesPage.events[1] = log
      BY DEF LatestOnTop
    <2>1. log \in Nat /\ source[i] \in SourceState /\ Ascends(source[i], log)
      BY LogNat DEF ListInv, SourcesAscend
    <2>2. log \in 1..log /\ Len(source[i].inbox) = 0 /\ source[i].lastSent \in Nat
      BY <2>1 DEF SourceState
    <2>3. log <= source[i].lastSent
      <3>1. ~\E k \in 1..Len(source[i].inbox) : source[i].inbox[k] = log
        BY <2>2
      <3>2. ~\E p \in Senders : posting[p] = log
        BY <2>1
      <3> QED
        BY <2>2, <3>1, <3>2 DEF LatestInv, Reached
    <2>4. source[i].lastSent = log
      BY <2>1, <2>2, <2>3 DEF Ascends
    <2>5. messagesPage.fresh \in Nat
      BY MessagesAssumption DEF ListInv, ScreenShape
    <2> QED
      BY <2>1, <2>4, <2>5 DEF ListInv, ListFollows, ShowsUpTo
  <1> QED
    BY <1>1, <1>2, <1>3, <1>4, <1>5, PTL DEF Spec

-----------------------------------------------------------------------------
(* Requests, one at a time.                                                *)

\* A request that has just left.
LEMMA RequestOf ==
    ASSUME NEW c
    PROVE  /\ Request(c).call = c /\ Request(c).cookie = cookie
           /\ Request(c).answer.status = 0 /\ Request(c) # Vacant
  BY DEF Request, Pending, Status, Vacant

\* An answer that has been heard.
LEMMA DoneKeeps ==
    ASSUME Owned, NEW s \in Slots, net' = Done(s)
    PROVE  net'[s] = Vacant /\ \A t \in Slots : t # s => net'[t] = net[t]
  BY DEF Done, Owned, OwnedBy

\* An answer in whose place the handler's next call stands.
LEMMA FollowKeeps ==
    ASSUME Owned, NEW s \in Slots, NEW c, net' = Follow(s, c)
    PROVE  net'[s] = Request(c) /\ \A t \in Slots : t # s => net'[t] = net[t]
  BY DEF Follow, Owned, OwnedBy

\* An answer on its way.
LEMMA ReplyKeeps ==
    ASSUME Owned, NEW s \in Slots, InFlight(s), NEW a, net' = Reply(s, a)
    PROVE  /\ net'[s].call = net[s].call /\ net'[s].cookie = net[s].cookie
           /\ net'[s].answer = a /\ net'[s] # Vacant
           /\ \A t \in Slots : t # s => net'[t] = net[t]
  <1>1. /\ net[s] = [call |-> net[s].call, cookie |-> net[s].cookie,
                     answer |-> net[s].answer]
        /\ net = [t \in Slots |-> net[t]]
    BY DEF Owned, OwnedBy, Entry, InFlight
  <1>2. net' = [net EXCEPT ![s] = [net[s] EXCEPT !.answer = a]]
    BY DEF Reply
  <1> QED
    BY <1>1, <1>2 DEF Vacant

\* A call takes a free slot.
LEMMA SendKeeps ==
    ASSUME Owned, HasRoom, NEW c, net' = Send(net, {c})
    PROVE  \E k \in Slots : /\ net[k] = Vacant /\ net'[k] = Request(c)
                            /\ \A t \in Slots : t # k => net'[t] = net[t]
  <1> DEFINE k == CHOOSE s \in Slots : net[s] = Vacant
  <1>1. k \in Slots /\ net[k] = Vacant
    BY DEF HasRoom, InFlight
  <1>2. net' = [net EXCEPT ![k] = Request(c)]
    BY DEF Send
  <1> HIDE DEF k
  <1> QED
    BY <1>1, <1>2 DEF Owned, OwnedBy

\* A request that is rejected is over, or goes on for nobody.
LEMMA RejectKeeps ==
    ASSUME Owned, NEW s \in Slots, Reject(s)
    PROVE  /\ net'[s] = Vacant \/ net'[s].call.page = "gone"
           /\ \A t \in Slots : t # s => net'[t] = net[t]
  <1>1. /\ net[s] = [call |-> net[s].call, cookie |-> net[s].cookie,
                     answer |-> net[s].answer]
        /\ net[s].call = [x \in DOMAIN net[s].call |-> net[s].call[x]]
        /\ "page" \in DOMAIN net[s].call
        /\ net = [t \in Slots |-> net[t]]
    BY DEF Reject, Owned, OwnedBy, Entry, InFlight
  <1>2. CASE net' = Done(s)
    BY <1>2, DoneKeeps
  <1>3. CASE net' = [net EXCEPT ![s].call.page = "gone"]
    <2> DEFINE c == [net[s].call EXCEPT !.page = "gone"]
    <2>1. net' = [net EXCEPT ![s] = [net[s] EXCEPT !.call = c]]
      BY <1>3
    <2>2. c.page = "gone"
      BY <1>1
    <2> HIDE DEF c
    <2> QED
      BY <1>1, <2>1, <2>2
  <1> QED
    BY <1>2, <1>3 DEF Reject

\* An expiry leaves calls and answers as they are.
LEMMA ExpiryKeeps ==
    ASSUME Owned, SessionExpires
    PROVE  \A s \in Slots : /\ net'[s].call = net[s].call
                            /\ InFlight(s) => /\ net'[s].answer = net[s].answer
                                              /\ net'[s] # Vacant
  <1> SUFFICES ASSUME NEW s \in Slots
               PROVE  /\ net'[s].call = net[s].call
                      /\ InFlight(s) => /\ net'[s].answer = net[s].answer
                                        /\ net'[s] # Vacant
    OBVIOUS
  <1>1. CASE ~Waits(s)
    BY <1>1 DEF SessionExpires, InFlight
  <1>2. CASE Waits(s)
    <2>1. net[s] = [call |-> net[s].call, cookie |-> net[s].cookie,
                    answer |-> net[s].answer]
      BY <1>2 DEF Waits, Owned, OwnedBy, Entry, InFlight
    <2>2. net'[s] = [net[s] EXCEPT !.cookie = FALSE]
      BY <1>2 DEF SessionExpires
    <2> QED
      BY <2>1, <2>2 DEF Vacant
  <1> QED
    BY <1>1, <1>2

-----------------------------------------------------------------------------
(* The requests of one page.                                               *)

\* Page p has no request it did not have.
NoneNew(p) ==
    \A s \in Slots : FromPage(s, p)' =>
        net'[s].call = net[s].call /\ net'[s].answer = net[s].answer

\* Nor has it lost or got an answer to one it had.
SameRequests(p) ==
    /\ NoneNew(p)
    /\ \A s \in Slots : FromPage(s, p) => FromPage(s, p)'

\* A call of another page.
LEMMA SendElsewhere ==
    ASSUME Owned, HasRoom, NEW c, net' = Send(net, {c}), NEW p, p \notin {"none", c.page}
    PROVE  SameRequests(p)
  <1>1. PICK k \in Slots : /\ net[k] = Vacant /\ net'[k] = Request(c)
                           /\ \A t \in Slots : t # k => net'[t] = net[t]
    BY SendKeeps
  <1>2. net'[k].call = c /\ net[k].call.page = "none"
    BY <1>1, RequestOf DEF Vacant
  <1> QED
    BY <1>1, <1>2 DEF SameRequests, NoneNew, FromPage

\* Something happens to a request of another page.
LEMMA SettledElsewhere ==
    ASSUME Owned, NEW s \in Slots, NEW p, p # "none", ~FromPage(s, p),
           \/ net' = Done(s)
           \/ \E c : net' = Follow(s, c) /\ c.page = net[s].call.page
    PROVE  SameRequests(p)
  <1>1. net'[s].call.page # p /\ \A t \in Slots : t # s => net'[t] = net[t]
    <2>1. CASE net' = Done(s)
      BY <2>1, DoneKeeps DEF Vacant
    <2>2. ASSUME NEW c, net' = Follow(s, c), c.page = net[s].call.page
          PROVE  net'[s].call.page # p /\ \A t \in Slots : t # s => net'[t] = net[t]
      BY <2>2, FollowKeeps, RequestOf DEF FromPage
    <2> QED
      BY <2>1, <2>2
  <1> QED
    BY <1>1 DEF SameRequests, NoneNew, FromPage

\* A rejection makes no requests.
LEMMA RejectNoneNew ==
    ASSUME Owned, NEW s \in Slots, Reject(s), NEW p, p \notin {"none", "gone"}
    PROVE  NoneNew(p) /\ (~FromPage(s, p) => SameRequests(p))
  <1>1. /\ net'[s] = Vacant \/ net'[s].call.page = "gone"
        /\ \A t \in Slots : t # s => net'[t] = net[t]
    BY RejectKeeps
  <1> QED
    BY <1>1 DEF SameRequests, NoneNew, FromPage, Vacant

\* An expiry neither.
LEMMA ExpirySame ==
    ASSUME Owned, SessionExpires, NEW p, p # "none"
    PROVE  SameRequests(p)
  <1>1. \A s \in Slots : FromPage(s, p) => InFlight(s)
    BY DEF FromPage, InFlight, Vacant
  <1>2. \A s \in Slots : net'[s].call = net[s].call
                         /\ (InFlight(s) => net'[s].answer = net[s].answer)
    BY ExpiryKeeps
  <1> QED
    BY <1>1, <1>2 DEF SameRequests, NoneNew, FromPage

\* Nothing happens to requests.
LEMMA NetSame ==
    ASSUME UNCHANGED net, NEW p
    PROVE  SameRequests(p)
  BY DEF SameRequests, NoneNew, FromPage

\* A click calls the server in the name of its page, from a free slot.
LEMMA UserActsSend ==
    ASSUME UserActs, net' # net
    PROVE  \E c : /\ HasRoom /\ net' = Send(net, {c}) /\ c.page = Page /\ Page # "blank"
                  /\ {"page", "op"} \subseteq DOMAIN c
  <1>1. HasRoom
    BY DEF UserActs, AppsUser, ShowLimits, OnCreate, OnDelete, AppsClick, QuotaUser, TypeToken,
       LoadLimits, QuietUser, Save, EditForm, MessagesUser, RegisterViewer, PasteCredentials,
       Connect, ConnectOver, Disconnect
  <1> QED
    BY <1>1, UserActsNet

\* The first requests of a tab.
LEMMA InitRequests ==
    ASSUME Init
    PROVE  \E k : \A s \in Slots :
              \/ net[s] = Vacant
              \/ s = k /\ \E p \in {"login", "layout"} :
                             net[s] = Request(MeCall(p)) /\ (p = "layout" => route \in Pages)
  <1> DEFINE n == [s \in Slots |-> Vacant]
             calls == CASE route = "home"  -> {}
                        [] route = "login" -> {MeCall("login")}
                        [] OTHER           -> {MeCall("layout")}
  <1>1. net = Send(n, calls) /\ n = [s \in Slots |-> n[s]]
    BY DEF Init
  <1>2. \A c \in calls : \E p \in {"login", "layout"} :
           c = MeCall(p) /\ (p = "layout" => route \notin {"home", "login"})
    OBVIOUS
  <1>3. \A s \in Slots : n[s] = Vacant
    OBVIOUS
  <1>4. route \in {"home", "login"} \cup Pages
    BY InitOwned DEF Owned, Routed
  <1> HIDE DEF n, calls
  <1>5. PICK c, k : \A s \in Slots :
           net[s] = n[s] \/ (s = k /\ c \in calls /\ net[s] = Request(c))
    BY <1>1, SendSlots
  <1> QED
    BY <1>2, <1>3, <1>4, <1>5

-----------------------------------------------------------------------------
(* The router moves.                                                       *)

\* All that is in flight outlives its page, or is the probe of the layout, or is a
\* fresh request for one of `calls`.
Left(calls) ==
    \E k : \A s \in Slots :
        \/ net'[s] = Vacant \/ net'[s].call.page \in {"left", "gone"}
        \/ net'[s] = net[s] /\ FromPage(s, "layout")
        \/ s = k /\ \E c \in calls : net'[s] = Request(c)

\* Every page starts afresh.
Mounted ==
    /\ quotaPage' = QuotaFresh /\ quietPage' = QuietFresh
    /\ messagesPage' = MessagesFresh /\ loginPage' = LoginFresh
    /\ appsPage'.busy = FALSE /\ "busy" \in DOMAIN appsPage'
    /\ Page' # "apps" => appsPage' = AppsFresh

\* The login page asks who is there and logs in, also after it has gone.
Probing ==
    \A s \in Slots : net[s].call.page \in {"login", "left"} =>
                      net[s].call.op \in {"me", "login"}

\* What outlives its page is the request it was, in the name of nobody or of a login
\* page that has gone.
Outlived ==
    \A s \in Slots : net'[s].call.page \in {"left", "gone"} =>
        /\ InFlight(s) /\ net'[s].call.op = net[s].call.op
        /\ net'[s].cookie = net[s].cookie /\ net'[s].answer = net[s].answer
        /\ net'[s].call.page = "left" => net[s].call.page \in {"login", "left"}

\* The user of the Apps page has waited for earlier visits.
AppsArrive ==
    /\ \/ appsPage' = AppsFresh
       \/ \E w \in BOOLEAN : appsPage' = [AppsFresh EXCEPT !.waited = w]
    /\ appsPage'.waited => Page' = "apps" /\ \A s \in Slots : net'[s].call.page # "gone"
    /\ Outlived /\ (Probing => Probing')

\* The page on screen makes its first call, or the layout does when there is none.
Moves ==
    /\ Mounted /\ AppsArrive
    /\ \/ Left(MountCalls(Page'))
       \/ Page' = "blank" /\ layout' = "loading" /\ Left({MeCall("layout")})
    /\ UNCHANGED <<cookie, faults>>

\* What one page leaves to the next.
LEMMA MountLeaves ==
    ASSUME NEW l, NEW old \in {"login", "blank"} \cup Pages, NEW n, OwnedBy(n, old, l),
           \A s \in Slots : n[s] \in {Vacant, net[s]},
           NEW new, NEW calls, Mount(n, old, new, calls)
    PROVE  Left(calls)
  <1> DEFINE gone == {old} \cup (IF new = "login" THEN {"layout"} ELSE {})
             left == Abandon(n, gone)
  <1>1. net' = Send(left, calls)
    BY DEF Mount
  <1>2. gone \cap {"left", "gone", "none"} = {} /\ old \in gone
    BY DEF Pages
  <1> HIDE DEF gone
  <1>3. /\ left = [s \in Slots |-> left[s]]
        /\ \A s \in Slots :
              \/ left[s] = Vacant \/ left[s].call.page \in {"left", "gone"}
              \/ left[s] = n[s] /\ n[s].call.page \notin gone
    BY <1>2, AbandonSlots DEF OwnedBy
  <1> HIDE DEF left
  <1>4. left = [s \in Slots |-> left[s]]
    BY <1>3
  <1>5. \A s \in Slots :
           \/ left[s] = Vacant \/ left[s].call.page \in {"left", "gone"}
           \/ left[s] = net[s] /\ FromPage(s, "layout")
    BY <1>2, <1>3 DEF OwnedBy, FromPage
  <1>6. PICK c, k : \A s \in Slots :
           net'[s] = left[s] \/ (s = k /\ c \in calls /\ net'[s] = Request(c))
    BY <1>1, <1>4, SendSlots
  <1> QED
    BY <1>5, <1>6 DEF Left

\* Nothing on the pages that mount.
LEMMA MountFresh ==
    ASSUME NEW n, NEW old, NEW calls, Mount(n, old, Page', calls)
    PROVE  Mounted
  <1>1. \A m : AppsMounted(m).busy = FALSE /\ "busy" \in DOMAIN AppsMounted(m)
    BY DEF AppsMounted, AppsFresh
  <1>2. AppsFresh.busy = FALSE /\ "busy" \in DOMAIN AppsFresh
    BY DEF AppsFresh
  <1> QED
    BY <1>1, <1>2 DEF Mount, Mounted

\* What the Apps page finds when it mounts, and what pages leave behind.
LEMMA MountArrives ==
    ASSUME NEW l, NEW old \in {"login", "blank"} \cup Pages, NEW n, OwnedBy(n, old, l),
           \A s \in Slots : n[s] \in {Vacant, net[s]},
           NEW calls, Mount(n, old, Page', calls),
           \A c \in calls : c.page \notin {"left", "gone"} /\ (c.page = "login" => c.op = "me")
    PROVE  AppsArrive
  <1> DEFINE gone == {old} \cup (IF Page' = "login" THEN {"layout"} ELSE {})
             left == Abandon(n, gone)
  <1>1. /\ net' = Send(left, calls)
        /\ appsPage' = IF Page' = "apps" THEN AppsMounted(left) ELSE AppsFresh
    BY DEF Mount
  <1>2. gone \cap {"left", "gone", "none"} = {}
    BY DEF Pages
  <1>3. left = [s \in Slots |-> left[s]]
    <2> HIDE DEF gone
    <2> QED
      BY <1>2, AbandonSlots DEF OwnedBy
  <1>4. ASSUME NEW s \in Slots, left[s].call.page \in {"login", "left", "gone"}
        PROVE  /\ InFlight(s) /\ left[s].call.op = net[s].call.op
               /\ left[s].cookie = net[s].cookie /\ left[s].answer = net[s].answer
               /\ left[s].call.page \in {"login", "left"} =>
                      net[s].call.page \in {"login", "left"}
    <2>1. n[s] = net[s] \/ n[s] = Vacant
      OBVIOUS
    <2>2. Vacant.call.page \notin {"login", "left", "gone"}
      BY DEF Vacant
    <2> HIDE DEF gone
    <2>3. CASE n[s].call.page \notin gone
      <3>1. left[s] = n[s]
        BY <2>3 DEF Abandon
      <3> QED
        BY <1>4, <2>1, <2>2, <3>1 DEF InFlight
    <2>4. CASE n[s].call.page \in gone /\ ~Outlives(n[s].call)
      <3>1. left[s] = Vacant
        BY <2>4 DEF Abandon
      <3> QED
        BY <1>4, <2>2, <3>1
    <2>5. CASE n[s].call.page \in gone /\ Outlives(n[s].call)
      <3> DEFINE to == IF n[s].call.page = "login" THEN "left" ELSE "gone"
                 c  == [n[s].call EXCEPT !.page = to]
      <3>1. left[s] = [n[s] EXCEPT !.call = c]
        BY <2>5 DEF Abandon
      <3>2. Vacant.call.page = "none" /\ n[s].call.page # "none" /\ Entry(n[s])
        BY <1>2, <2>5 DEF Vacant, OwnedBy
      <3>3. /\ n[s] = [call |-> n[s].call, cookie |-> n[s].cookie, answer |-> n[s].answer]
            /\ {"page", "op"} \subseteq DOMAIN n[s].call
        BY <3>2 DEF Entry
      <3>4. left[s].call = c /\ left[s].cookie = n[s].cookie /\ left[s].answer = n[s].answer
        BY <3>1, <3>3
      <3>5. c.page = to /\ c.op = n[s].call.op
        BY <3>3
      <3>6. n[s] = net[s] /\ InFlight(s)
        BY <2>1, <3>2 DEF InFlight
      <3> QED
        BY <3>4, <3>5, <3>6
    <2> QED
      BY <2>3, <2>4, <2>5
  <1> HIDE DEF left
  <1>5. PICK c, k : \A s \in Slots :
           net'[s] = left[s] \/ (s = k /\ c \in calls /\ net'[s] = Request(c))
    BY <1>1, <1>3, SendSlots
  <1>6. Request(c).call = c
    BY RequestOf
  <1>7. Outlived
    BY <1>4, <1>5, <1>6 DEF Outlived
  <1>8. Probing => Probing'
    BY <1>4, <1>5, <1>6 DEF Probing
  <1>9. CASE Page' = "apps"
    <2> DEFINE w == ~\E s \in Slots : left[s].call.page = "gone"
    <2>1. appsPage' = [AppsFresh EXCEPT !.waited = w] /\ w \in BOOLEAN
      BY <1>1, <1>9 DEF AppsMounted
    <2>2. appsPage'.waited = w
      BY <2>1 DEF AppsFresh
    <2> QED
      BY <1>5, <1>6, <1>7, <1>8, <1>9, <2>1, <2>2 DEF AppsArrive
  <1>10. CASE Page' # "apps"
    <2>1. appsPage' = AppsFresh /\ appsPage'.waited = FALSE
      BY <1>1, <1>10 DEF AppsFresh
    <2> QED
      BY <1>7, <1>8, <2>1 DEF AppsArrive
  <1> QED
    BY <1>9, <1>10

\* The pages ask, once mounted; the login page who is there.
LEMMA MountCallsArrive ==
    ASSUME NEW page, NEW c \in MountCalls(page) \cup {MeCall("layout")}
    PROVE  c.page \notin {"left", "gone"} /\ (c.page = "login" => c.op = "me")
  BY DEF MountCalls, ListCall, AppsCall, QuotaListCall, QuietMeCall, MeCall

\* The router shows another page.
LEMMA NavigateMoves ==
    ASSUME Owned, NEW n, OwnedBy(n, Page, layout), NEW r, Navigate(n, r),
           \A s \in Slots : n[s] \in {Vacant, net[s]}, UNCHANGED <<cookie, faults>>
    PROVE  Moves
  <1>1. Page \in {"login", "blank"} \cup Pages
    BY PageType DEF Owned
  <1>2. CASE r # "login" /\ layout = "none"
    <2>1. layout' = "loading" /\ route' = r /\ Mount(n, Page, "blank", {MeCall("layout")})
      BY <1>2 DEF Navigate
    <2>2. Page' = "blank"
      BY <1>2, <2>1 DEF Page, PageAt
    <2> QED
      <3>1. AppsArrive
        BY <1>1, <2>1, <2>2, MountArrives, MountCallsArrive
      <3> QED
        BY <1>1, <2>1, <2>2, <3>1, MountLeaves, MountFresh DEF Moves
  <1>3. CASE ~(r # "login" /\ layout = "none")
    <2>1. Mount(n, Page, Page', MountCalls(Page'))
      BY <1>3 DEF Navigate, Page
    <2> QED
      <3>1. AppsArrive
        BY <1>1, <2>1, MountArrives, MountCallsArrive
      <3> QED
        BY <1>1, <2>1, <3>1, MountLeaves, MountFresh DEF Moves
  <1> QED
    BY <1>2, <1>3

\* The layout has its answer.
LEMMA ProbedMoves ==
    ASSUME Owned, NEW s \in Slots, LayoutProbed(s)
    PROVE  Moves
  <1>1. \A t \in Slots : Done(s)[t] \in {Vacant, net[t]}
    BY DEF Done, Owned, OwnedBy
  <1>2. OwnedBy(Done(s), Page, layout)
    BY DoneOwned DEF Owned
  <1>3. layout = "loading" /\ Page = "blank" /\ route \in Pages /\ UNCHANGED <<cookie, faults>>
    BY DEF LayoutProbed, Owned, OwnedBy, Routed, FromPage, Vacant, Page, PageAt, Pages, Deaf
  <1>4. CASE Navigate(Done(s), "login")
    BY <1>1, <1>2, <1>3, <1>4, NavigateMoves
  <1>5. CASE /\ layout' = "authed" /\ route' = route
             /\ Mount(Done(s), "blank", route, MountCalls(route))
    <2>1. Page' = route
      BY <1>3, <1>5 DEF Page, PageAt, Pages
    <2> QED
      <3>1. AppsArrive
        BY <1>1, <1>2, <1>3, <1>5, <2>1, MountArrives, MountCallsArrive
      <3> QED
        BY <1>1, <1>2, <1>3, <1>5, <2>1, <3>1, MountLeaves, MountFresh DEF Moves
  <1> QED
    BY <1>4, <1>5 DEF LayoutProbed

\* The login page has its answer: the router moves, or the page stays as it is but
\* for the button, or the browser stores the cookie.
LEMMA LoginAnsweredMoves ==
    ASSUME Owned, NEW s \in Slots, LoginAnswered(s)
    PROVE  \/ Moves
           \/ /\ net' = Done(s) /\ UNCHANGED <<route, layout, pageVars, faults, cookie>>
              /\ \/ UNCHANGED loginPage
                    /\ (FromPage(s, "login") => net[s].call.op # "login")
                 \/ loginPage' = [busy |-> FALSE] /\ FromPage(s, "login")
                    /\ net[s].call.op = "login"
           \/ cookie' = TRUE /\ UNCHANGED <<net, route, layout, pageVars, faults, loginPage>>
  <1>1. \A t \in Slots : Done(s)[t] \in {Vacant, net[t]}
    BY DEF Done, Owned, OwnedBy
  <1>2. OwnedBy(Done(s), Page, layout)
    BY DoneOwned DEF Owned
  <1>3. CASE Navigate(Done(s), "overview") /\ UNCHANGED cookie
    BY <1>1, <1>2, <1>3, NavigateMoves DEF LoginAnswered
  <1>4. FromPage(s, "login") => route = "login"
    BY DEF FromPage, Owned, OwnedBy, Page, PageAt, Routed, Pages, Vacant
  <1>5. CASE Stay(Done(s))
    <2>1. CASE LoginProbed(s)
      BY <1>5, <2>1 DEF Stay, LoginAnswered, LoginProbed, routeVars
    <2>2. CASE LoggedIn(s) /\ route = "overview"
      BY <1>4, <1>5, <2>2 DEF Stay, LoginAnswered, LoggedIn, routeVars
    <2>3. CASE LoggedIn(s) /\ route # "overview"
      BY <1>3, <1>5, <2>3 DEF Stay, LoginAnswered, LoggedIn, ToDashboard, routeVars
    <2>4. CASE CookieStored(s)
      BY <2>4 DEF Stay, LoginAnswered, CookieStored, routeVars
    <2> QED
      BY <2>1, <2>2, <2>3, <2>4 DEF LoginAnswered
  <1>6. CASE CookieStored(s)
    BY <1>6 DEF Stay, LoginAnswered, CookieStored, routeVars
  <1>7. CASE LoggedIn(s) /\ net[s].answer.status # 200
    BY <1>7 DEF LoginAnswered, LoggedIn
  <1> QED
    BY <1>3, <1>5, <1>6, <1>7 DEF LoginAnswered, LoginProbed, LoggedIn, ToDashboard

-----------------------------------------------------------------------------
(* The form of the Quiet hours page, and what the server stores.           *)

\* The page waits for one request at most, and has no flash meanwhile; what has
\* been answered is what is stored, unless another client has saved since.
QuietRequests ==
    /\ \A s \in Slots : FromPage(s, "quiet-hours") =>
          /\ quietPage.flash = "none"
          /\ \/ net[s].call.op = "me" /\ quietPage.loadState = "loading"
             \/ /\ net[s].call.op = "save" /\ quietPage.loadState = "ready"
                /\ quietPage.busy /\ net[s].call.seen = quietPage.seen
          /\ net[s].answer.status = 200 =>
                /\ net[s].answer.window \in Windows
                /\ ~quietPage.foreign => net[s].answer.window = window
    /\ \A s, t \in Slots :
          FromPage(s, "quiet-hours") /\ FromPage(t, "quiet-hours") => s = t

QuietInv ==
    /\ quietPage \in QuietState /\ window \in Windows
    /\ Page # "quiet-hours" => quietPage = QuietFresh
    /\ QuietRequests
    /\ FlashIsTrue

\* A page that mounts shows no setting yet.
LEMMA FreshQuiet == QuietFresh \in QuietState
  BY ApiAssumption DEF QuietFresh, QuietState, Forms

\* Page and account stay as they are, and no request is new.
LEMMA QuietStays ==
    ASSUME QuietInv, UNCHANGED <<quietPage, window>>, NoneNew("quiet-hours"),
           Page' = Page \/ quietPage' = QuietFresh
    PROVE  QuietInv'
  <1>1. QuietRequests'
    BY DEF QuietInv, QuietRequests, NoneNew, FromPage
  <1>2. FlashIsTrue'
    BY DEF QuietInv, FlashIsTrue
  <1> QED
    BY <1>1, <1>2 DEF QuietInv

\* The router moves.
LEMMA QuietMoves ==
    ASSUME QuietInv, Moves, UNCHANGED window
    PROVE  QuietInv'
  <1>1. quietPage' = QuietFresh
    BY DEF Moves, Mounted
  <1>2. PICK calls : /\ Left(calls)
                     /\ \A c \in calls : c = QuietMeCall \/ c.page # "quiet-hours"
    <2>1. MeCall("layout").page # "quiet-hours"
      BY DEF MeCall
    <2>2. \A c \in MountCalls(Page') : c = QuietMeCall \/ c.page # "quiet-hours"
      <3>1. CASE Page' = "quiet-hours"
        BY <3>1 DEF MountCalls
      <3>2. CASE Page' # "quiet-hours"
        BY <3>2, MountCallsOf
      <3> QED
        BY <3>1, <3>2
    <2> QED
      BY <2>1, <2>2 DEF Moves
  <1>3. PICK k : \A s \in Slots :
           \/ net'[s] = Vacant \/ net'[s].call.page \in {"left", "gone"}
           \/ net'[s] = net[s] /\ FromPage(s, "layout")
           \/ s = k /\ \E c \in calls : net'[s] = Request(c)
    BY <1>2 DEF Left
  <1>4. \A s \in Slots : FromPage(s, "quiet-hours")' =>
           s = k /\ net'[s] = Request(QuietMeCall)
    BY <1>2, <1>3, RequestOf DEF FromPage, Vacant
  <1>5. Request(QuietMeCall).call.op = "me" /\ Request(QuietMeCall).answer.status = 0
    BY RequestOf DEF QuietMeCall
  <1>6. QuietFresh.flash = "none" /\ QuietFresh.loadState = "loading"
    BY DEF QuietFresh
  <1>7. QuietRequests'
    BY <1>1, <1>4, <1>5, <1>6 DEF QuietRequests
  <1> QED
    BY <1>1, <1>6, <1>7, FreshQuiet DEF QuietInv, FlashIsTrue

\* The user edits the form, or saves or clears it.
LEMMA QuietUserQuiet ==
    ASSUME Owned, QuietInv, QuietUser, Page = "quiet-hours", UNCHANGED <<route, layout, window>>
    PROVE  QuietInv'
  <1>1. Page' = Page
    BY DEF Page
  <1>2. ASSUME NEW w \in Forms, EditForm(w) PROVE QuietInv'
    <2> DEFINE p == quietPage
               q == quietPage'
    <2>1. p \in QuietState /\ q = [p EXCEPT !.form = w, !.edited = TRUE] /\ net' = net
      BY <1>2 DEF EditForm, QuietInv
    <2>2. /\ q \in QuietState /\ q.edited /\ q.flash = p.flash /\ q.loadState = p.loadState
          /\ q.busy = p.busy /\ q.seen = p.seen /\ q.foreign = p.foreign
      BY <1>2, <2>1 DEF QuietState
    <2>3. QuietRequests'
      BY <2>1, <2>2 DEF QuietInv, QuietRequests, FromPage
    <2> QED
      BY <1>1, <2>2, <2>3 DEF QuietInv, FlashIsTrue
  <1>3. ASSUME NEW clear \in BOOLEAN, Save(clear) PROVE QuietInv'
    <2> DEFINE p == quietPage
               q == quietPage'
    <2>0. PICK w : net' = Send(net, {SaveCall(w, clear)})
      BY <1>3 DEF Save
    <2> DEFINE c == SaveCall(w, clear)
    <2>1. /\ p \in QuietState /\ q = [p EXCEPT !.busy = TRUE, !.flash = "none"]
          /\ p.loadState = "ready" /\ ~p.busy /\ HasRoom /\ net' = Send(net, {c})
      BY <1>3, <2>0 DEF Save, Saving, QuietInv
    <2>2. /\ q \in QuietState /\ q.flash = "none" /\ q.loadState = "ready"
          /\ q.busy /\ q.seen = p.seen
      BY <2>1 DEF QuietState
    <2>3. c.page = "quiet-hours" /\ c.op = "save" /\ c.seen = p.seen
      BY DEF SaveCall
    <2> HIDE DEF c
    <2>4. PICK k \in Slots : /\ net'[k] = Request(c)
                             /\ \A t \in Slots : t # k => net'[t] = net[t]
      BY <2>1, SendKeeps
    <2>5. \A s \in Slots : ~FromPage(s, "quiet-hours")
      BY <2>1 DEF QuietInv, QuietRequests
    <2>6. \A s \in Slots : FromPage(s, "quiet-hours")' => s = k
      BY <2>4, <2>5 DEF FromPage
    <2>7. QuietRequests'
      BY <2>2, <2>3, <2>4, <2>6, RequestOf DEF QuietRequests
    <2> QED
      BY <1>1, <2>2, <2>7 DEF QuietInv, FlashIsTrue
  <1> QED
    BY <1>2, <1>3 DEF QuietUser

\* The page hears an answer.
LEMMA QuietAnsweredQuiet ==
    ASSUME Owned, QuietInv, NEW s \in Slots, QuietAnswered(s),
           UNCHANGED <<route, layout, window>>
    PROVE  QuietInv'
  <1> DEFINE p == quietPage
             q == quietPage'
             a == net[s].answer
  <1>1. /\ FromPage(s, "quiet-hours") /\ p \in QuietState /\ p.flash = "none" /\ net' = Done(s)
        /\ a.status = 200 => a.window \in Windows /\ (~p.foreign => a.window = window)
    BY DEF QuietAnswered, QuietInv, QuietRequests
  <1>2. \A t \in Slots : ~FromPage(t, "quiet-hours")'
    BY <1>1, DoneKeeps DEF QuietInv, QuietRequests, FromPage, Vacant
  <1>3. QuietRequests'
    BY <1>2 DEF QuietRequests
  <1>4. Page' = Page /\ Page = "quiet-hours"
    BY <1>1 DEF Page, Owned, OwnedBy, FromPage, Vacant
  <1>5. /\ q \in QuietState
        /\ q.flash # "none" /\ ~q.foreign => q.form = window
    <2>1. CASE QuietLoaded(s)
      <3> DEFINE ready == [p EXCEPT !.loadState = "ready"]
      <3>1. ready \in QuietState /\ ready.flash = "none"
        BY <1>1 DEF QuietState
      <3>2. q = ready \/ (a.status = 200 /\ q = Filled(ready, a.window))
        BY <2>1 DEF QuietLoaded
      <3> HIDE DEF ready
      <3>3. a.window \in Windows =>
               /\ Filled(ready, a.window) \in QuietState
               /\ Filled(ready, a.window).flash = "none"
        BY <3>1 DEF Filled, QuietState, Forms
      <3> QED
        BY <1>1, <3>1, <3>2, <3>3
    <2>2. CASE Saved(s) /\ a.status = 200
      <3> DEFINE f == IF net[s].call.clear THEN "cleared" ELSE "saved"
      <3>1. q = [p EXCEPT !.busy = FALSE, !.form = a.window, !.edited = FALSE,
                          !.seen = {a.window}, !.flash = f]
        BY <1>1, <2>2 DEF Saved, Filled, QuietState
      <3> HIDE DEF f
      <3>2. f \in {"saved", "cleared"}
        BY DEF f
      <3>3. q \in QuietState /\ q.form = a.window /\ q.foreign = p.foreign
        BY <1>1, <2>2, <3>1, <3>2 DEF QuietState, Forms
      <3> QED
        BY <1>1, <2>2, <3>3
    <2>3. CASE Saved(s) /\ a.status # 200
      <3>1. q = [p EXCEPT !.busy = FALSE]
        BY <2>3 DEF Saved
      <3> QED
        BY <1>1, <3>1 DEF QuietState
    <2> QED
      BY <2>1, <2>2, <2>3 DEF QuietAnswered
  <1> QED
    BY <1>3, <1>4, <1>5 DEF QuietInv, FlashIsTrue


\* What the server answers about quiet hours is what it stores from then on.
LEMMA ServeWindow ==
    ASSUME NEW s \in Slots, Serve(s), window \in Windows
    PROVE  \E a : /\ net' = Reply(s, a)
                  /\ window' = window \/ (a.status = 200 /\ net[s].call.op = "save")
                  /\ window' \in Windows
                  /\ net[s].call.op \in {"me", "save"} /\ a.status = 200
                        => a.window = window'
  <1> DEFINE OK(a) == /\ window' = window \/ (a.status = 200 /\ net[s].call.op = "save")
                      /\ window' \in Windows
                      /\ net[s].call.op \in {"me", "save"} /\ a.status = 200
                            => a.window = window'
  <1>1. \A n : Status(n).status = n
    BY DEF Status
  <1>2. ASSUME NEW a, net' = Reply(s, a), OK(a)
        PROVE  \E b : net' = Reply(s, b) /\ OK(b)
    BY <1>2
  <1>3. ASSUME NEW a, net' = Reply(s, a), UNCHANGED window,
               net[s].call.op \notin {"me", "save"} \/ a.status # 200
        PROVE  \E b : net' = Reply(s, b) /\ OK(b)
    BY <1>3
  <1>4. CASE Unauthorized(s) \/ ServerError(s)
    BY <1>1, <1>3, <1>4 DEF Unauthorized, ServerError, apiVars
  <1>5. CASE Login(s) \/ LoginFails(s)
    BY <1>3, <1>5 DEF Login, LoginFails, Is, apiVars
  <1>6. CASE Me(s)
    BY <1>6, <1>2 DEF Me, apiVars
  <1>7. CASE ListApps(s) \/ CreateApp(s) \/ DeleteApp(s)
    BY <1>3, <1>7 DEF ListApps, CreateApp, DeleteApp, Is, apiVars
  <1>8. CASE ServeLimits(s) \/ DeviceLogin(s)
    <2>1. net[s].call.op \in {"limits", "register"} /\ UNCHANGED window
      BY <1>8, LimitsServed DEF DeviceLogin, Is, apiVars
    <2>2. \E a : net' = Reply(s, a)
      BY ServeReplies
    <2> QED
      BY <1>3, <2>1, <2>2
  <1>9. CASE QuietHours(s) /\ net[s].call.window \in Windows
    <2> DEFINE w == net[s].call.window
               a == [status |-> 200, window |-> w]
    <2>1. /\ window' = w /\ net' = Reply(s, a) /\ net[s].call.op = "save"
          /\ a.status = 200 /\ a.window = w
      BY <1>9 DEF QuietHours, Is
    <2> HIDE DEF a
    <2> QED
      BY <1>2, <1>9, <2>1
  <1>10. CASE QuietHours(s) /\ net[s].call.window \notin Windows
    BY <1>1, <1>3, <1>10 DEF QuietHours
  <1> QED
    BY <1>4, <1>5, <1>6, <1>7, <1>8, <1>9, <1>10 DEF Serve

\* The server handles a request, of this page or of another.
LEMMA ServedQuiet ==
    ASSUME Owned, QuietInv, NEW s \in Slots, Served(s)
    PROVE  QuietInv'
  <1> DEFINE p == quietPage
             q == quietPage'
  <1>1. PICK a : /\ net' = Reply(s, a)
                 /\ window' = window \/ (a.status = 200 /\ net[s].call.op = "save")
                 /\ window' \in Windows
                 /\ net[s].call.op \in {"me", "save"} /\ a.status = 200
                       => a.window = window'
    BY ServeWindow DEF Served, QuietInv
  <1>2. /\ net'[s].call = net[s].call /\ net'[s].answer = a
        /\ \A t \in Slots : t # s => net'[t] = net[t]
    BY <1>1, ServeReplies, ReplyKeeps DEF Served
  <1>3. Page' = Page
    BY DEF Served, routeVars, Page
  <1>4. CASE Page # "quiet-hours"
    <2>1. q = p /\ p = QuietFresh
      BY <1>4 DEF Served, Watching, QuietInv
    <2>2. \A t \in Slots : ~FromPage(t, "quiet-hours")
      BY <1>4 DEF Owned, OwnedBy, FromPage, Vacant
    <2>3. \A t \in Slots : ~FromPage(t, "quiet-hours")'
      BY <1>2, <2>2 DEF FromPage
    <2>4. QuietRequests' /\ FlashIsTrue'
      BY <2>1, <2>3 DEF QuietRequests, FlashIsTrue, QuietFresh
    <2> QED
      BY <1>1, <2>1, <2>4, FreshQuiet DEF QuietInv
  <1>5. CASE Page = "quiet-hours"
    <2> DEFINE f == IF FromPage(s, "quiet-hours") /\ a.status = 200 THEN FALSE
                    ELSE p.foreign \/ window' # window
    <2>1. q = [p EXCEPT !.foreign = f] /\ p \in QuietState
      BY <1>2, <1>5 DEF Served, Watching, QuietServed, QuietInv
    <2>2. f \in BOOLEAN
      BY <2>1 DEF QuietState
    <2> HIDE DEF f
    <2>3. /\ q \in QuietState /\ q.flash = p.flash /\ q.loadState = p.loadState
          /\ q.busy = p.busy /\ q.seen = p.seen /\ q.form = p.form
          /\ q.edited = p.edited /\ q.foreign = f
      BY <2>1, <2>2 DEF QuietState
    <2>4. ASSUME NEW t \in Slots, FromPage(t, "quiet-hours")'
          PROVE  /\ FromPage(t, "quiet-hours") /\ net'[t].call = net[t].call
                 /\ net'[t].answer.status = 200 =>
                       /\ net'[t].answer.window \in Windows
                       /\ ~f => net'[t].answer.window = window'
      <3>1. FromPage(t, "quiet-hours") /\ net'[t].call = net[t].call
        BY <1>2, <2>4 DEF FromPage
      <3>2. CASE t = s
        <4>1. net[s].call.op \in {"me", "save"}
          BY <3>1, <3>2 DEF QuietInv, QuietRequests
        <4> QED
          BY <1>1, <1>2, <3>1, <3>2, <4>1
      <3>3. CASE t # s
        <4>1. ~FromPage(s, "quiet-hours") /\ net'[t] = net[t]
          BY <1>2, <3>1, <3>3 DEF QuietInv, QuietRequests
        <4>2. ~f => ~p.foreign /\ window' = window
          BY <2>1, <4>1 DEF f, QuietState
        <4> QED
          BY <3>1, <4>1, <4>2 DEF QuietInv, QuietRequests
      <3> QED
        BY <3>2, <3>3
    <2>5. QuietRequests'
      <3>1. ASSUME NEW t \in Slots, FromPage(t, "quiet-hours")'
            PROVE  /\ q.flash = "none"
                   /\ \/ net'[t].call.op = "me" /\ q.loadState = "loading"
                      \/ /\ net'[t].call.op = "save" /\ q.loadState = "ready"
                         /\ q.busy /\ net'[t].call.seen = q.seen
        BY <2>3, <2>4, <3>1 DEF QuietInv, QuietRequests
      <3>2. \A t, u \in Slots :
               FromPage(t, "quiet-hours")' /\ FromPage(u, "quiet-hours")' => t = u
        BY <2>4 DEF QuietInv, QuietRequests
      <3> QED
        BY <2>3, <2>4, <3>1, <3>2 DEF QuietRequests
    <2>6. FlashIsTrue'
      <3>1. CASE FromPage(s, "quiet-hours")
        BY <2>3, <3>1 DEF QuietInv, QuietRequests, FlashIsTrue
      <3>2. CASE ~FromPage(s, "quiet-hours")
        <4>1. ~f => ~p.foreign /\ window' = window
          BY <2>1, <3>2 DEF f, QuietState
        <4> QED
          BY <2>3, <4>1 DEF QuietInv, FlashIsTrue
      <3> QED
        BY <3>1, <3>2
    <2> QED
      BY <1>1, <1>3, <1>5, <2>3, <2>5, <2>6 DEF QuietInv
  <1> QED
    BY <1>4, <1>5

\* Another client saves.
LEMMA OtherSavesQuiet ==
    ASSUME Owned, QuietInv, NEW w \in Windows, OtherSaves(w)
    PROVE  QuietInv'
  <1> DEFINE p == quietPage
             q == quietPage'
  <1>1. net' = net /\ Page' = Page /\ window' \in Windows
    BY DEF OtherSaves, OtherClientSaves, routeVars, Page
  <1>2. CASE Page # "quiet-hours"
    <2>1. q = p /\ p = QuietFresh
      BY <1>2 DEF OtherSaves, Watching, QuietInv
    <2>2. \A t \in Slots : ~FromPage(t, "quiet-hours")'
      BY <1>1, <1>2 DEF Owned, OwnedBy, FromPage, Vacant
    <2>3. QuietRequests' /\ FlashIsTrue'
      BY <2>1, <2>2 DEF QuietRequests, FlashIsTrue, QuietFresh
    <2> QED
      BY <1>1, <2>1, <2>3, FreshQuiet DEF QuietInv
  <1>3. CASE Page = "quiet-hours"
    <2>1. q = [p EXCEPT !.foreign = TRUE] /\ p \in QuietState
      BY <1>3 DEF OtherSaves, Watching, QuietOvertaken, QuietInv
    <2>2. /\ q \in QuietState /\ q.flash = p.flash /\ q.loadState = p.loadState
          /\ q.busy = p.busy /\ q.seen = p.seen /\ q.foreign
      BY <2>1 DEF QuietState
    <2>3. QuietRequests' /\ FlashIsTrue'
      BY <1>1, <2>2 DEF QuietInv, QuietRequests, FlashIsTrue, FromPage
    <2> QED
      BY <1>1, <1>3, <2>2, <2>3 DEF QuietInv
  <1> QED
    BY <1>2, <1>3

\* A page without requests of this one.
LEMMA ElsewhereQuiet ==
    ASSUME Owned, NEW s \in Slots, PageAnswered(s), ~QuietAnswered(s)
    PROVE  SameRequests("quiet-hours") /\ UNCHANGED quietPage
  <1>1. UNCHANGED quietPage
    BY DEF PageAnswered
  <1>2. ~FromPage(s, "quiet-hours")
    <2>1. AppsAnswered(s) => FromPage(s, "apps")
      BY DEF AppsAnswered, AppsLoaded, LimitsRead, Created, CreatedListed, CreatedFound,
         CreatedShown, Deleted, DeletedListed, Awaits
    <2> QED
      BY <2>1 DEF PageAnswered, QuotaAnswered, Registered, FromPage
  <1>3. \/ net' = Done(s)
        \/ \E c : net' = Follow(s, c) /\ c.page = net[s].call.page
    BY PageAnsweredNet DEF FromPage
  <1> QED
    BY <1>1, <1>2, <1>3, SettledElsewhere

\* No step puts the form and the account at odds.
LEMMA QuietStep == Owned /\ QuietInv /\ [Next]_vars => QuietInv'
  <1> SUFFICES ASSUME Owned, QuietInv, [Next]_vars PROVE QuietInv'
    OBVIOUS
  <1>1. ASSUME UNCHANGED <<net, quietPage, window, route, layout>> PROVE QuietInv'
    BY <1>1, NetSame, QuietStays DEF SameRequests, Page
  <1>2. ASSUME NEW valid \in BOOLEAN, OnSubmit(valid) PROVE QuietInv'
    <2>1. LoginCall(valid).page = "login"
      BY DEF LoginCall
    <2> QED
      BY <1>2, <2>1, SendElsewhere, QuietStays
         DEF OnSubmit, pageVars, Deaf, serverVars, apiVars, SameRequests, Page
  <1>3. ASSUME NEW r \in Pages, GoTo(r) PROVE QuietInv'
    BY <1>3, NavigateMoves, QuietMoves DEF GoTo, Owned, Deaf, serverVars, apiVars
  <1>4. ASSUME UserActs PROVE QuietInv'
    <2>1. UNCHANGED <<route, layout, window>>
      BY <1>4 DEF UserActs, routeVars, Deaf, serverVars, apiVars
    <2>2. CASE Page = "quiet-hours" /\ QuietUser
      BY <2>1, <2>2, QuietUserQuiet
    <2>3. CASE Page # "quiet-hours"
      <3>1. UNCHANGED quietPage
        BY <1>4, <2>3 DEF UserActs
      <3>2. NoneNew("quiet-hours")
        <4>1. CASE net' = net
          BY <4>1, NetSame DEF SameRequests
        <4>2. CASE net' # net
          BY <1>4, <2>3, <4>2, UserActsSend, SendElsewhere DEF SameRequests
        <4> QED
          BY <4>1, <4>2
      <3> QED
        BY <2>1, <3>1, <3>2, QuietStays DEF Page
    <2> QED
      BY <1>4, <2>2, <2>3 DEF UserActs
  <1>5. ASSUME HomeReplaced PROVE QuietInv'
    BY <1>5, NavigateMoves, QuietMoves DEF HomeReplaced, Owned, Deaf, serverVars, apiVars
  <1>6. ASSUME NEW s \in Slots, Served(s) PROVE QuietInv'
    BY <1>6, ServedQuiet
  <1>7. ASSUME NEW s \in Slots, LoginAnswered(s) PROVE QuietInv'
    <2>1. UNCHANGED window /\ (FromPage(s, "login") \/ FromPage(s, "left"))
      BY <1>7 DEF LoginAnswered, serverVars, apiVars
    <2> QED
      BY <1>7, <2>1, LoginAnsweredMoves, QuietMoves, SettledElsewhere, NetSame, QuietStays
         DEF pageVars, SameRequests, Page, FromPage
  <1>8. ASSUME NEW s \in Slots, LayoutProbed(s) PROVE QuietInv'
    BY <1>8, ProbedMoves, QuietMoves DEF LayoutProbed, Deaf, serverVars, apiVars
  <1>9. ASSUME NEW s \in Slots, PageAnswered(s) PROVE QuietInv'
    <2>1. UNCHANGED <<route, layout, window>>
      BY <1>9 DEF PageAnswered, routeVars, Deaf, serverVars, apiVars
    <2> QED
      BY <1>9, <2>1, QuietAnsweredQuiet, ElsewhereQuiet, QuietStays DEF SameRequests, Page
  <1>10. ASSUME NEW s \in Slots, Unheard(s) PROVE QuietInv'
    BY <1>10, SettledElsewhere, QuietStays
       DEF Unheard, Stay, pageVars, routeVars, Deaf, serverVars, apiVars, SameRequests, Page,
       FromPage
  <1>11. ASSUME NEW s \in Slots, Reject(s) PROVE QuietInv'
    <2>1. UNCHANGED <<quietPage, window>> /\ NoneNew("quiet-hours")
      BY <1>11, RejectNoneNew DEF Reject, pageVars, serverVars, apiVars
    <2>2. Page' = Page
      BY <1>11 DEF Reject, Page, PageAt, Owned, OwnedBy, FromPage, Vacant
    <2> QED
      BY <2>1, <2>2, QuietStays
  <1>12. ASSUME NEW p \in Senders, Sends(p) PROVE QuietInv'
    BY <1>1, <1>12 DEF Sends, tabVars, pageVars, routeVars, SendGated, SendStored, SendRefused,
       SendCharged, SendUncharged, apiVars
  <1>13. ASSUME NEW p \in Senders, Published(p) PROVE QuietInv'
    BY <1>1, <1>13 DEF Published, routeVars, apiVars
  <1>14. ASSUME NEW i \in 1..Sources, Streams(i) PROVE QuietInv'
    BY <1>1, <1>14 DEF Streams, routeVars, serverVars, apiVars
  <1>15. ASSUME Others PROVE QuietInv'
    <2>1. CASE SessionExpires /\ UNCHANGED tabVars
      BY <2>1, ExpirySame, QuietStays
         DEF SessionExpires, tabVars, pageVars, routeVars, apiVars, SameRequests, Page
    <2>2. ASSUME NEW w \in Windows, OtherSaves(w) PROVE QuietInv'
      BY <2>2, OtherSavesQuiet
    <2>3. CASE MonthEnds /\ UNCHANGED <<net, apiVars, tabVars>>
      BY <1>1, <2>3 DEF tabVars, pageVars, routeVars, apiVars
    <2> QED
      BY <1>15, <2>1, <2>2, <2>3 DEF Others
  <1>16. ASSUME UNCHANGED vars PROVE QuietInv'
    BY <1>1, <1>16 DEF vars, state, tabVars, pageVars, routeVars, serverVars, apiVars
  <1> QED
    BY <1>2, <1>3, <1>4, <1>5, <1>6, <1>7, <1>8, <1>9, <1>10, <1>11, <1>12, <1>13, <1>14,
       <1>15, <1>16 DEF Next, UserStep, Settle

\* The tab opens with the form empty.
LEMMA InitQuiet == Init => QuietInv
  <1> SUFFICES ASSUME Init PROVE QuietInv
    OBVIOUS
  <1>1. \A s \in Slots : ~FromPage(s, "quiet-hours")
    BY InitRequests, RequestOf DEF FromPage, Vacant, MeCall
  <1>2. quietPage = QuietFresh /\ window \in Windows
    BY ApiAssumption DEF Init, ApiInit
  <1>3. QuietRequests /\ FlashIsTrue
    BY <1>1, <1>2 DEF QuietRequests, FlashIsTrue, QuietFresh
  <1> QED
    BY <1>2, <1>3, FreshQuiet DEF QuietInv

\* "Saved" and "Cleared" stand over a form that shows what the server stores, until
\* the form is edited or another client saves (quiet-hours/page.tsx:55-80).
THEOREM FlashIsAlwaysTrue == Spec => []FlashIsTrue
  <1>1. Init => Owned /\ QuietInv
    BY InitOwned, InitQuiet
  <1>2. Owned /\ QuietInv /\ [Next]_vars => (Owned /\ QuietInv)'
    BY OwnedStep, QuietStep
  <1>3. QuietInv => FlashIsTrue
    BY DEF QuietInv
  <1> QED
    BY <1>1, <1>2, <1>3, PTL DEF Spec

-----------------------------------------------------------------------------
(* Without a fault, the pages' requests travel with the session.           *)

\* e, while the browser's cookie is c and there have been f faults.  The layout asks
\* for the account only; without a fault, what the pages under it ask carries the
\* cookie.
Carries(e, c, f) ==
    /\ e.call.page = "layout" => e.call.op = "me" /\ (e.answer.status = 200 => e.cookie)
    /\ f = 0 => /\ e.call.page = "layout" /\ e.cookie => c
                /\ e.call.page \in Pages => e.cookie

SessionKnown ==
    /\ faults \in Nat
    /\ faults = 0 /\ layout = "authed" => cookie
    /\ \A s \in Slots : Carries(net[s], cookie, faults)

\* Requests keep what they carry, and the browser what it holds.
LEMMA SessionStays ==
    ASSUME SessionKnown, faults' = faults \/ faults' = faults + 1,
           faults' = 0 /\ cookie => cookie',
           faults' = 0 /\ layout' = "authed" => cookie',
           \A s \in Slots : net'[s] = net[s] \/ Carries(net'[s], cookie', faults')
    PROVE  SessionKnown'
  <1>1. faults' \in Nat /\ (faults' = 0 => faults = 0)
    BY DEF SessionKnown
  <1>2. \A s \in Slots : Carries(net'[s], cookie', faults')
    BY <1>1 DEF SessionKnown, Carries
  <1> QED
    BY <1>1, <1>2 DEF SessionKnown

\* Requests of the login page and requests nobody waits for carry what they like.
LEMMA CarriesAnything ==
    ASSUME NEW e, e = Vacant \/ e.call.page \in {"login", "left", "gone"}, NEW c, NEW f
    PROVE  Carries(e, c, f)
  BY DEF Carries, Vacant, Pages

\* A new request of a page under the layout carries the cookie.
LEMMA CarriesCookie ==
    ASSUME SessionKnown, layout = "authed", NEW c, c.page \in Pages
    PROVE  Carries(Request(c), cookie, faults)
  BY RequestOf DEF Carries, SessionKnown, Pages

\* The page on screen is rendered by the layout.
LEMMA PageAuthed ==
    ASSUME Page \in Pages PROVE layout = "authed" /\ route = Page
  BY DEF Page, PageAt, Pages

\* The router moves.
LEMMA SessionMoves ==
    ASSUME SessionKnown, Moves, layout' = "authed" /\ faults = 0 => cookie
    PROVE  SessionKnown'
  <1>1. UNCHANGED <<cookie, faults>>
    BY DEF Moves
  <1>2. PICK calls : /\ Left(calls)
                     /\ \A c \in calls : Carries(Request(c), cookie, faults)
    <2>1. CASE Left(MountCalls(Page'))
      <3>1. ASSUME NEW c \in MountCalls(Page')
            PROVE  Carries(Request(c), cookie, faults)
        <4>1. c.page = Page' /\ Page' \in {"apps", "quota", "quiet-hours", "login"}
          BY MountCallsOf
        <4>2. CASE Page' = "login"
          BY <4>1, <4>2, RequestOf, CarriesAnything
        <4>3. CASE Page' # "login"
          <5>1. layout' = "authed"
            BY <4>1, <4>3 DEF Page, PageAt
          <5> QED
            BY <4>1, <5>1, RequestOf DEF Carries
        <4> QED
          BY <4>2, <4>3
      <3> QED
        BY <2>1, <3>1
    <2>2. CASE Left({MeCall("layout")})
      <3>1. Carries(Request(MeCall("layout")), cookie, faults)
        BY RequestOf DEF Carries, MeCall, Pages
      <3> QED
        BY <2>2, <3>1
    <2> QED
      BY <2>1, <2>2 DEF Moves
  <1>3. \A s \in Slots : net'[s] = net[s] \/ Carries(net'[s], cookie, faults)
    BY <1>2, CarriesAnything DEF Left
  <1> QED
    BY <1>1, <1>3, SessionStays

\* What the server answers who asks for the account.
LEMMA ServeMe ==
    ASSUME NEW s \in Slots, Serve(s), net[s].call.op = "me", faults \in Nat
    PROVE  \E a : /\ net' = Reply(s, a)
                  /\ a.status = 200 => net[s].cookie
                  /\ faults' = faults /\ net[s].cookie => a.status = 200
                  /\ faults' \in {faults, faults + 1}
  <1>1. CASE Unauthorized(s)
    BY <1>1 DEF Unauthorized, Status
  <1>2. CASE ServerError(s)
    <2> DEFINE a == Status(500)
    <2>1. net' = Reply(s, a) /\ faults' = faults + 1 /\ net[s].cookie
      BY <1>2 DEF ServerError
    <2>2. a.status # 200
      BY DEF Status
    <2>3. faults' # faults /\ faults' \in {faults, faults + 1}
      BY <2>1
    <2> HIDE DEF a
    <2> QED
      BY <2>1, <2>2, <2>3
  <1>3. CASE Me(s)
    <2> DEFINE a == [status |-> 200, window |-> window]
    <2>1. net' = Reply(s, a) /\ net[s].cookie /\ faults' = faults
      BY <1>3 DEF Me
    <2>2. a.status = 200
      OBVIOUS
    <2> QED
      BY <2>1, <2>2
  <1> QED
    <2>1. ~ServeLimits(s)
      BY LimitsServed DEF Is
    <2> QED
      BY <1>1, <1>2, <1>3, <2>1 DEF Serve, Login, LoginFails, ListApps, CreateApp, DeleteApp,
         QuietHours, DeviceLogin, Is

\* The server counts faults.
LEMMA ServeFaults ==
    ASSUME NEW s \in Slots, Serve(s)
    PROVE  faults' \in {faults, faults + 1} /\ UNCHANGED cookie
  BY LimitsServed DEF Serve, Unauthorized, ServerError, Login, LoginFails, Me, ListApps,
     CreateApp, DeleteApp, QuietHours, DeviceLogin

\* The server answers, and what a request carried stays known.
LEMMA ServedSession ==
    ASSUME Owned, SessionKnown, NEW s \in Slots, Served(s)
    PROVE  SessionKnown'
  <1>1. /\ InFlight(s) /\ faults' \in {faults, faults + 1} /\ UNCHANGED <<cookie, layout>>
        /\ faults \in Nat
    BY ServeReplies, ServeFaults DEF Served, routeVars, SessionKnown
  <1>2. PICK a : /\ net' = Reply(s, a)
                 /\ net[s].call.op = "me" /\ a.status = 200 => net[s].cookie
    BY <1>1, ServeReplies, ServeMe DEF Served
  <1>3. /\ net'[s].call = net[s].call /\ net'[s].cookie = net[s].cookie
        /\ net'[s].answer = a
        /\ \A t \in Slots : t # s => net'[t] = net[t]
    BY <1>1, <1>2, ReplyKeeps
  <1>4. Carries(net'[s], cookie', faults')
    BY <1>1, <1>2, <1>3 DEF SessionKnown, Carries
  <1> QED
    BY <1>1, <1>3, <1>4, SessionStays DEF SessionKnown

\* A click.
LEMMA UserActsSession ==
    ASSUME Owned, SessionKnown, UserActs
    PROVE  SessionKnown'
  <1>1. UNCHANGED <<cookie, faults, layout>> /\ Page \in Pages
    BY DEF UserActs, routeVars, Deaf, Pages
  <1>2. CASE net' = net
    BY <1>1, <1>2, SessionStays DEF SessionKnown
  <1>3. CASE net' # net
    <2>1. PICK c : HasRoom /\ net' = Send(net, {c}) /\ c.page = Page
      BY <1>3, UserActsSend
    <2>2. PICK k \in Slots : /\ net'[k] = Request(c)
                             /\ \A t \in Slots : t # k => net'[t] = net[t]
      BY <2>1, SendKeeps
    <2>3. Carries(net'[k], cookie', faults')
      BY <1>1, <2>1, <2>2, PageAuthed, CarriesCookie
    <2> QED
      BY <1>1, <2>2, <2>3, SessionStays DEF SessionKnown
  <1> QED
    BY <1>2, <1>3

\* A page hears an answer, and may go on with another call.
LEMMA PageAnsweredSession ==
    ASSUME Owned, SessionKnown, NEW s \in Slots, PageAnswered(s)
    PROVE  SessionKnown'
  <1>1. UNCHANGED <<cookie, faults, layout>>
    BY DEF PageAnswered, routeVars, Deaf
  <1>2. CASE net' = Done(s)
    BY <1>1, <1>2, DoneKeeps, CarriesAnything, SessionStays DEF SessionKnown
  <1>3. ASSUME NEW c, net' = Follow(s, c), c.page = "apps", FromPage(s, "apps")
        PROVE  SessionKnown'
    <2>1. Page = "apps" /\ "apps" \in Pages
      BY <1>3 DEF Owned, OwnedBy, FromPage, Vacant, Pages
    <2>2. Carries(Request(c), cookie', faults')
      BY <1>1, <1>3, <2>1, PageAuthed, CarriesCookie
    <2> QED
      BY <1>1, <1>3, <2>2, FollowKeeps, SessionStays DEF SessionKnown
  <1> QED
    BY <1>2, <1>3, PageAnsweredNet

\* No step without a fault loses the session.
LEMMA SessionStep == Owned /\ SessionKnown /\ [Next]_vars => SessionKnown'
  <1> SUFFICES ASSUME Owned, SessionKnown, [Next]_vars PROVE SessionKnown'
    OBVIOUS
  <1>1. ASSUME UNCHANGED <<net, cookie, layout>>, faults' \in {faults, faults + 1}
        PROVE  SessionKnown'
    BY <1>1, SessionStays DEF SessionKnown
  <1>2. ASSUME NEW valid \in BOOLEAN, OnSubmit(valid) PROVE SessionKnown'
    <2>1. UNCHANGED <<cookie, faults, layout>> /\ HasRoom /\ net' = Send(net, {LoginCall(valid)})
      BY <1>2 DEF OnSubmit, Deaf
    <2>2. PICK k \in Slots : /\ net'[k] = Request(LoginCall(valid))
                             /\ \A t \in Slots : t # k => net'[t] = net[t]
      BY <2>1, SendKeeps
    <2>3. net'[k].call.page = "login"
      BY <2>2, RequestOf DEF LoginCall
    <2> QED
      BY <2>1, <2>2, <2>3, CarriesAnything, SessionStays DEF SessionKnown
  <1>3. ASSUME NEW r \in Pages, GoTo(r) PROVE SessionKnown'
    <2>1. UNCHANGED <<cookie, faults>> /\ layout = "authed"
      BY <1>3 DEF GoTo, Deaf
    <2> QED
      BY <1>3, <2>1, NavigateMoves, SessionMoves DEF GoTo, Owned, SessionKnown
  <1>4. ASSUME UserActs PROVE SessionKnown'
    BY <1>4, UserActsSession
  <1>5. ASSUME HomeReplaced PROVE SessionKnown'
    <2>1. UNCHANGED <<cookie, faults>> /\ layout' # "authed"
      BY <1>5 DEF HomeReplaced, Deaf, Navigate, Owned, Routed, Pages
    <2> QED
      BY <1>5, <2>1, NavigateMoves, SessionMoves DEF HomeReplaced, Owned
  <1>6. ASSUME NEW s \in Slots, Served(s) PROVE SessionKnown'
    BY <1>6, ServedSession
  <1>7. ASSUME NEW s \in Slots, LoginAnswered(s) PROVE SessionKnown'
    <2>1. layout' = layout \/ layout' # "authed"
      BY <1>7 DEF LoginAnswered, LoginProbed, CookieStored, LoggedIn, ToDashboard, Stay, routeVars,
         Navigate
    <2>2. CASE Moves
      BY <2>1, <2>2, SessionMoves DEF SessionKnown
    <2>3. CASE net' = Done(s) /\ UNCHANGED <<layout, faults, cookie>>
      BY <2>3, DoneKeeps, CarriesAnything, SessionStays DEF SessionKnown
    <2>4. CASE cookie' = TRUE /\ UNCHANGED <<net, layout, faults>>
      BY <2>4, SessionStays DEF SessionKnown
    <2> QED
      BY <1>7, <2>2, <2>3, <2>4, LoginAnsweredMoves
  <1>8. ASSUME NEW s \in Slots, LayoutProbed(s) PROVE SessionKnown'
    <2>1. layout' = "authed" => net[s].answer.status = 200 \/ layout = "authed"
      BY <1>8 DEF LayoutProbed, Navigate
    <2>2. net[s].answer.status = 200 /\ faults = 0 => cookie
      BY <1>8 DEF LayoutProbed, FromPage, SessionKnown, Carries
    <2> QED
      BY <1>8, <2>1, <2>2, ProbedMoves, SessionMoves DEF SessionKnown
  <1>9. ASSUME NEW s \in Slots, PageAnswered(s) PROVE SessionKnown'
    BY <1>9, PageAnsweredSession
  <1>10. ASSUME NEW s \in Slots, Unheard(s) PROVE SessionKnown'
    <2>1. net' = Done(s) /\ UNCHANGED <<layout, faults, cookie>>
      BY <1>10 DEF Unheard, Stay, routeVars, Deaf
    <2> QED
      BY <2>1, DoneKeeps, CarriesAnything, SessionStays DEF SessionKnown
  <1>11. ASSUME NEW s \in Slots, Reject(s) PROVE SessionKnown'
    <2>1. /\ faults' = faults + 1 /\ cookie' = cookie
          /\ layout' = layout \/ layout' = "error"
      BY <1>11 DEF Reject
    <2> QED
      BY <1>11, <2>1, RejectKeeps, CarriesAnything, SessionStays DEF SessionKnown
  <1>12. ASSUME NEW p \in Senders, Sends(p) PROVE SessionKnown'
    BY <1>1, <1>12 DEF Sends, tabVars, routeVars, SendGated, SendStored, SendRefused,
       SendCharged, SendUncharged
  <1>13. ASSUME NEW p \in Senders, Published(p) PROVE SessionKnown'
    BY <1>1, <1>13 DEF Published, routeVars
  <1>14. ASSUME NEW i \in 1..Sources, Streams(i) PROVE SessionKnown'
    BY <1>1, <1>14 DEF Streams, routeVars
  <1>15. ASSUME Others PROVE SessionKnown'
    <2>1. CASE SessionExpires /\ UNCHANGED tabVars
      <3>1. faults' = faults + 1 /\ faults \in Nat /\ layout' = layout
        BY <2>1 DEF SessionExpires, SessionKnown, tabVars, routeVars
      <3>2. \A t \in Slots : /\ net'[t].call = net[t].call
                             /\ InFlight(t) => net'[t].answer = net[t].answer
        BY <2>1, ExpiryKeeps
      <3>3. \A t \in Slots : net'[t] = net[t] \/ (InFlight(t) /\ net[t].answer.status = 0)
        BY <2>1 DEF SessionExpires, Waits
      <3>4. \A t \in Slots : net'[t] = net[t] \/ Carries(net'[t], cookie', faults')
        BY <3>1, <3>2, <3>3 DEF SessionKnown, Carries
      <3> QED
        BY <3>1, <3>4, SessionStays
    <2>2. ASSUME NEW w \in Windows, OtherSaves(w) PROVE SessionKnown'
      BY <1>1, <2>2 DEF OtherSaves, OtherClientSaves, routeVars
    <2>3. CASE MonthEnds /\ UNCHANGED <<net, cookie, faults, tabVars>>
      BY <1>1, <2>3 DEF tabVars, routeVars
    <2> QED
      BY <1>15, <2>1, <2>2, <2>3 DEF Others
  <1>16. ASSUME UNCHANGED vars PROVE SessionKnown'
    BY <1>1, <1>16 DEF vars, state, tabVars, routeVars
  <1> QED
    BY <1>2, <1>3, <1>4, <1>5, <1>6, <1>7, <1>8, <1>9, <1>10, <1>11, <1>12, <1>13, <1>14,
       <1>15, <1>16 DEF Next, UserStep, Settle

\* The tab opens without faults and without a dashboard.
LEMMA InitSession == Init => SessionKnown
  <1> SUFFICES ASSUME Init PROVE SessionKnown
    OBVIOUS
  <1>1. faults = 0 /\ layout # "authed"
    BY DEF Init, ApiInit
  <1>2. \A s \in Slots : Carries(net[s], cookie, faults)
    <2>1. \A p \in {"login", "layout"} : Carries(Request(MeCall(p)), cookie, faults)
      BY RequestOf DEF Carries, MeCall, Pages
    <2> QED
      BY <2>1, InitRequests, CarriesAnything
  <1> QED
    BY <1>1, <1>2 DEF SessionKnown

\* Without a fault, what is stored has been shown or is about to be, unless another
\* client has saved since.
SeenInv ==
    faults = 0 =>
        /\ \A s \in Slots : FromPage(s, "quiet-hours") /\ net[s].call.op = "me" =>
              net[s].answer.status \in {0, 200}
        /\ quietPage.loadState = "ready" /\ ~quietPage.foreign =>
              \/ window \in quietPage.seen
              \/ \E s \in Slots : FromPage(s, "quiet-hours") /\ net[s].answer.status = 200

\* Page and account stay as they are, and so do the page's requests.
LEMMA SeenStays ==
    ASSUME SeenInv, UNCHANGED <<quietPage, window>>, faults' = 0 => faults = 0,
           faults' = 0 => SameRequests("quiet-hours")
    PROVE  SeenInv'
  <1>1. CASE faults' = 0
    BY <1>1 DEF SeenInv, SameRequests, NoneNew, FromPage
  <1> QED
    BY <1>1 DEF SeenInv

\* The router moves.
LEMMA SeenMoves ==
    ASSUME Moves PROVE SeenInv'
  <1>1. quietPage'.loadState = "loading"
    BY DEF Moves, Mounted, QuietFresh
  <1>2. PICK calls : Left(calls)
    BY DEF Moves
  <1>3. PICK k : \A s \in Slots :
           \/ net'[s] = Vacant \/ net'[s].call.page \in {"left", "gone"}
           \/ net'[s] = net[s] /\ FromPage(s, "layout")
           \/ s = k /\ \E c \in calls : net'[s] = Request(c)
    BY <1>2 DEF Left
  <1>4. \A s \in Slots : FromPage(s, "quiet-hours")' => net'[s].answer.status = 0
    BY <1>3, RequestOf DEF FromPage, Vacant
  <1> QED
    BY <1>1, <1>4 DEF SeenInv

\* The user edits, saves or clears.
LEMMA QuietUserSeen ==
    ASSUME Owned, QuietInv, SeenInv, QuietUser, UNCHANGED <<window, faults>>
    PROVE  SeenInv'
  <1>1. ASSUME NEW w \in Forms, EditForm(w) PROVE SeenInv'
    <2>1. /\ net' = net /\ quietPage'.loadState = quietPage.loadState
          /\ quietPage'.foreign = quietPage.foreign /\ quietPage'.seen = quietPage.seen
      BY <1>1 DEF EditForm, QuietInv, QuietState
    <2> QED
      BY <2>1 DEF SeenInv, FromPage
  <1>2. ASSUME NEW clear \in BOOLEAN, Save(clear) PROVE SeenInv'
    <2>0. PICK w : net' = Send(net, {SaveCall(w, clear)})
      BY <1>2 DEF Save
    <2> DEFINE c == SaveCall(w, clear)
    <2>1. /\ quietPage'.loadState = quietPage.loadState
          /\ quietPage'.foreign = quietPage.foreign /\ quietPage'.seen = quietPage.seen
          /\ ~quietPage.busy /\ quietPage.loadState = "ready"
          /\ HasRoom /\ net' = Send(net, {c})
      BY <1>2, <2>0 DEF Save, Saving, QuietInv, QuietState
    <2>2. c.op = "save"
      BY DEF SaveCall
    <2> HIDE DEF c
    <2>3. PICK k \in Slots : /\ net'[k] = Request(c)
                             /\ \A t \in Slots : t # k => net'[t] = net[t]
      BY <2>1, SendKeeps
    <2>4. \A s \in Slots : ~FromPage(s, "quiet-hours")
      BY <2>1 DEF QuietInv, QuietRequests
    <2>5. \A s \in Slots : FromPage(s, "quiet-hours")' => net'[s].call.op = "save"
      BY <2>2, <2>3, <2>4, RequestOf DEF FromPage
    <2> QED
      BY <2>1, <2>4, <2>5 DEF SeenInv
  <1> QED
    BY <1>1, <1>2 DEF QuietUser

\* The page hears an answer: it shows what it says.
LEMMA QuietAnsweredSeen ==
    ASSUME Owned, QuietInv, SeenInv, NEW s \in Slots, QuietAnswered(s),
           UNCHANGED <<window, faults>>
    PROVE  SeenInv'
  <1> DEFINE p == quietPage
             q == quietPage'
             a == net[s].answer
  <1>1. /\ FromPage(s, "quiet-hours") /\ p \in QuietState /\ net' = Done(s)
        /\ a.status = 200 /\ ~p.foreign => a.window = window
        /\ a.status # 0
    BY DEF QuietAnswered, QuietInv, QuietRequests, Answered
  <1>2. \A t \in Slots : ~FromPage(t, "quiet-hours")'
    BY <1>1, DoneKeeps DEF QuietInv, QuietRequests, FromPage, Vacant
  <1>3. CASE a.status = 200
    <2>1. q.seen = {a.window} /\ q.foreign = p.foreign
      BY <1>1, <1>3 DEF QuietAnswered, QuietLoaded, Saved, Filled, QuietState
    <2> QED
      BY <1>1, <1>2, <1>3, <2>1 DEF SeenInv
  <1>4. CASE a.status # 200
    <2>1. CASE QuietLoaded(s)
      BY <1>1, <1>2, <1>4, <2>1 DEF SeenInv, QuietLoaded
    <2>2. CASE Saved(s)
      <3>1. /\ q.seen = p.seen /\ q.foreign = p.foreign /\ q.loadState = p.loadState
            /\ p.loadState = "ready"
        BY <1>1, <1>4, <2>2 DEF Saved, QuietState, QuietInv, QuietRequests
      <3>2. \A t \in Slots : FromPage(t, "quiet-hours") => net[t].answer.status # 200
        BY <1>1, <1>4 DEF QuietInv, QuietRequests
      <3> QED
        BY <1>2, <3>1, <3>2 DEF SeenInv
    <2> QED
      BY <2>1, <2>2 DEF QuietAnswered
  <1> QED
    BY <1>3, <1>4

\* The server handles a request.
LEMMA ServedSeen ==
    ASSUME Owned, QuietInv, SessionKnown, SeenInv, NEW s \in Slots, Served(s)
    PROVE  SeenInv'
  <1> DEFINE p == quietPage
             q == quietPage'
  <1>1. PICK a : /\ net' = Reply(s, a)
                 /\ window' = window \/ (a.status = 200 /\ net[s].call.op = "save")
    BY ServeWindow DEF Served, QuietInv
  <1>2. /\ net'[s].call = net[s].call /\ net'[s].answer = a
        /\ \A t \in Slots : t # s => net'[t] = net[t]
        /\ Waits(s)
    BY <1>1, ServeReplies, ReplyKeeps DEF Served
  <1>3. faults' \in {faults, faults + 1} /\ faults \in Nat
    BY ServeFaults DEF Served, SessionKnown
  <1>4. CASE faults' = 0 /\ Page = "quiet-hours"
    <2>1. faults = 0 /\ faults' = faults
      BY <1>3, <1>4
    <2>2. ASSUME NEW t \in Slots, FromPage(t, "quiet-hours")', net'[t].call.op = "me"
          PROVE  net'[t].answer.status \in {0, 200}
      <3>1. FromPage(t, "quiet-hours") /\ net[t].call.op = "me"
        BY <1>2, <2>2 DEF FromPage
      <3>2. CASE t = s
        <4>1. net[s].cookie
          BY <2>1, <3>1, <3>2 DEF SessionKnown, Carries, FromPage, Pages
        <4> QED
          BY <1>2, <1>3, <2>1, <3>1, <3>2, <4>1, ServeMe, ReplyKeeps, ServeReplies DEF Served
      <3>3. CASE t # s
        BY <1>2, <2>1, <3>1, <3>3 DEF SeenInv
      <3> QED
        BY <3>2, <3>3
    <2>3. ASSUME q.loadState = "ready", ~q.foreign
          PROVE  \/ window' \in q.seen
                 \/ \E t \in Slots : FromPage(t, "quiet-hours")' /\ net'[t].answer.status = 200
      <3> DEFINE f == IF FromPage(s, "quiet-hours") /\ a.status = 200 THEN FALSE
                      ELSE p.foreign \/ window' # window
      <3>1. q = [p EXCEPT !.foreign = f] /\ p \in QuietState
        BY <1>2, <1>4 DEF Served, Watching, QuietServed, QuietInv
      <3> HIDE DEF f
      <3>2. p.loadState = "ready" /\ q.seen = p.seen /\ ~f
        BY <2>3, <3>1 DEF QuietState
      <3>3. CASE FromPage(s, "quiet-hours") /\ a.status = 200
        BY <1>2, <3>3 DEF FromPage
      <3>4. CASE ~(FromPage(s, "quiet-hours") /\ a.status = 200)
        <4>1. ~p.foreign /\ window' = window
          BY <3>1, <3>2, <3>4 DEF f, QuietState
        <4>2. \/ window \in p.seen
              \/ \E t \in Slots : FromPage(t, "quiet-hours") /\ net[t].answer.status = 200
          BY <2>1, <3>2, <4>1 DEF SeenInv
        <4>3. \A t \in Slots : FromPage(t, "quiet-hours") /\ net[t].answer.status = 200 =>
                 FromPage(t, "quiet-hours")' /\ net'[t].answer.status = 200
          BY <1>2 DEF FromPage, Waits
        <4> QED
          BY <3>2, <4>1, <4>2, <4>3
      <3> QED
        BY <3>3, <3>4
    <2> QED
      BY <2>2, <2>3 DEF SeenInv
  <1>5. CASE faults' = 0 /\ Page # "quiet-hours"
    <2>1. q = QuietFresh /\ q.loadState = "loading"
      BY <1>5 DEF Served, Watching, QuietInv, QuietFresh
    <2>2. \A t \in Slots : ~FromPage(t, "quiet-hours")
      BY <1>5 DEF Owned, OwnedBy, FromPage, Vacant
    <2>3. \A t \in Slots : ~FromPage(t, "quiet-hours")'
      BY <1>2, <2>2 DEF FromPage
    <2> QED
      BY <2>1, <2>3 DEF SeenInv
  <1> QED
    BY <1>4, <1>5 DEF SeenInv

\* No step without a fault stores what the page will not show.
LEMMA SeenStep ==
    Owned /\ QuietInv /\ SessionKnown /\ SeenInv /\ [Next]_vars => SeenInv'
  <1> SUFFICES ASSUME Owned, QuietInv, SessionKnown, SeenInv, [Next]_vars PROVE SeenInv'
    OBVIOUS
  <1>1. ASSUME UNCHANGED <<net, quietPage, window>>, faults' \in {faults, faults + 1}
        PROVE  SeenInv'
    BY <1>1, NetSame, SeenStays DEF SessionKnown
  <1>2. ASSUME NEW valid \in BOOLEAN, OnSubmit(valid) PROVE SeenInv'
    <2>1. LoginCall(valid).page = "login"
      BY DEF LoginCall
    <2> QED
      BY <1>2, <2>1, SendElsewhere, SeenStays DEF OnSubmit, pageVars, Deaf, serverVars, apiVars
  <1>3. ASSUME NEW r \in Pages, GoTo(r) PROVE SeenInv'
    BY <1>3, NavigateMoves, SeenMoves DEF GoTo, Owned, Deaf
  <1>4. ASSUME UserActs PROVE SeenInv'
    <2>1. UNCHANGED <<faults, window>>
      BY <1>4 DEF UserActs, Deaf, serverVars, apiVars
    <2>2. CASE Page = "quiet-hours" /\ QuietUser
      BY <2>1, <2>2, QuietUserSeen
    <2>3. CASE Page # "quiet-hours"
      <3>1. UNCHANGED quietPage
        BY <1>4, <2>3 DEF UserActs
      <3>2. SameRequests("quiet-hours")
        <4>1. CASE net' = net
          BY <4>1, NetSame
        <4>2. CASE net' # net
          BY <1>4, <2>3, <4>2, UserActsSend, SendElsewhere
        <4> QED
          BY <4>1, <4>2
      <3> QED
        BY <2>1, <3>1, <3>2, SeenStays
    <2> QED
      BY <1>4, <2>2, <2>3 DEF UserActs
  <1>5. ASSUME HomeReplaced PROVE SeenInv'
    BY <1>5, NavigateMoves, SeenMoves DEF HomeReplaced, Owned, Deaf
  <1>6. ASSUME NEW s \in Slots, Served(s) PROVE SeenInv'
    BY <1>6, ServedSeen
  <1>7. ASSUME NEW s \in Slots, LoginAnswered(s) PROVE SeenInv'
    <2>1. UNCHANGED window /\ ~FromPage(s, "quiet-hours")
      BY <1>7 DEF LoginAnswered, serverVars, apiVars, FromPage
    <2> QED
      BY <1>7, <2>1, LoginAnsweredMoves, SeenMoves, SettledElsewhere, NetSame, SeenStays
         DEF pageVars
  <1>8. ASSUME NEW s \in Slots, LayoutProbed(s) PROVE SeenInv'
    BY <1>8, ProbedMoves, SeenMoves
  <1>9. ASSUME NEW s \in Slots, PageAnswered(s) PROVE SeenInv'
    <2>1. UNCHANGED <<faults, window>>
      BY <1>9 DEF PageAnswered, Deaf, serverVars, apiVars
    <2> QED
      BY <1>9, <2>1, QuietAnsweredSeen, ElsewhereQuiet, SeenStays
  <1>10. ASSUME NEW s \in Slots, Unheard(s) PROVE SeenInv'
    BY <1>10, SettledElsewhere, SeenStays
       DEF Unheard, Stay, pageVars, Deaf, serverVars, apiVars, FromPage
  <1>11. ASSUME NEW s \in Slots, Reject(s) PROVE SeenInv'
    BY <1>11 DEF Reject, SessionKnown, SeenInv
  <1>12. ASSUME NEW p \in Senders, Sends(p) PROVE SeenInv'
    BY <1>1, <1>12 DEF Sends, tabVars, pageVars, SendGated, SendStored, SendRefused,
       SendCharged, SendUncharged, apiVars
  <1>13. ASSUME NEW p \in Senders, Published(p) PROVE SeenInv'
    BY <1>1, <1>13 DEF Published, apiVars
  <1>14. ASSUME NEW i \in 1..Sources, Streams(i) PROVE SeenInv'
    BY <1>1, <1>14 DEF Streams, serverVars, apiVars
  <1>15. ASSUME Others PROVE SeenInv'
    <2>1. CASE SessionExpires
      BY <2>1 DEF SessionExpires, SessionKnown, SeenInv
    <2>2. ASSUME NEW w \in Windows, OtherSaves(w) PROVE SeenInv'
      <3>1. net' = net /\ faults' = faults
        BY <2>2 DEF OtherSaves, OtherClientSaves
      <3>2. quietPage'.loadState = "ready" => quietPage'.foreign
        BY <2>2 DEF OtherSaves, Watching, QuietOvertaken, QuietInv, QuietState, QuietFresh
      <3> QED
        BY <3>1, <3>2 DEF SeenInv, FromPage
    <2>3. CASE MonthEnds /\ UNCHANGED <<net, faults, apiVars, tabVars>>
      BY <1>1, <2>3 DEF tabVars, pageVars, apiVars
    <2> QED
      BY <1>15, <2>1, <2>2, <2>3 DEF Others
  <1>16. ASSUME UNCHANGED vars PROVE SeenInv'
    BY <1>1, <1>16 DEF vars, state, tabVars, pageVars, serverVars, apiVars
  <1> QED
    BY <1>2, <1>3, <1>4, <1>5, <1>6, <1>7, <1>8, <1>9, <1>10, <1>11, <1>12, <1>13, <1>14,
       <1>15, <1>16 DEF Next, UserStep, Settle

\* The tab opens with the page unloaded.
LEMMA InitSeen == Init => SeenInv
  <1> SUFFICES ASSUME Init PROVE SeenInv
    OBVIOUS
  <1>1. \A s \in Slots : ~FromPage(s, "quiet-hours")
    BY InitRequests, RequestOf DEF FromPage, Vacant, MeCall
  <1> QED
    BY <1>1 DEF Init, SeenInv, QuietFresh

\* A save never replaces a setting its user was not shown, unless another client saved
\* it meanwhile or something failed: the form is not rendered before the account is
\* loaded, and its buttons are disabled while a save is underway
\* (quiet-hours/page.tsx:91, :130, :136).
THEOREM NothingUnseenIsOverwritten == Spec => OverwritesOnlyWhatWasShown
  <1> DEFINE Inv == Owned /\ QuietInv /\ SessionKnown /\ SeenInv
  <1>1. Init => Inv
    BY InitOwned, InitQuiet, InitSession, InitSeen
  <1>2. Inv /\ [Next]_vars => Inv'
    BY OwnedStep, QuietStep, SessionStep, SeenStep
  <1>3. Inv => [\A s \in Slots :
                   QuietHours(s) /\ FromPage(s, "quiet-hours") /\ window' # window
                   /\ ~quietPage.foreign /\ faults = 0
                     => window \in net[s].call.seen]_<<net, window>>
    <2> SUFFICES ASSUME Inv, NEW s \in Slots, QuietHours(s), FromPage(s, "quiet-hours"),
                        ~quietPage.foreign, faults = 0
                 PROVE  window \in net[s].call.seen
      OBVIOUS
    <2>1. net[s].call.op = "save" /\ net[s].answer.status = 0
      BY DEF QuietHours, Is, Waits
    <2>2. quietPage.loadState = "ready" /\ net[s].call.seen = quietPage.seen
      BY <2>1 DEF QuietInv, QuietRequests
    <2>3. \A t \in Slots : FromPage(t, "quiet-hours") => t = s
      BY DEF QuietInv, QuietRequests
    <2> QED
      BY <2>1, <2>2, <2>3 DEF SeenInv
  <1> QED
    BY <1>1, <1>2, <1>3, PTL DEF Spec, OverwritesOnlyWhatWasShown

-----------------------------------------------------------------------------
(* Buttons that say "busy".                                                *)

LoginRequest(s) == FromPage(s, "login") /\ net[s].call.op = "login"

\* The login page is busy with one request, the others with the request that will
\* end it.
LoginBusy ==
    /\ loginPage.busy <=> \E s \in Slots : LoginRequest(s)
    /\ \A s, t \in Slots : LoginRequest(s) /\ LoginRequest(t) => s = t

HaveBusy ==
    /\ "busy" \in DOMAIN appsPage /\ "busy" \in DOMAIN quotaPage
    /\ "busy" \in DOMAIN quietPage /\ "busy" \in DOMAIN messagesPage

PagesBusy ==
    /\ appsPage.busy => Underway("apps", {"create"})
    /\ quotaPage.busy => Underway("quota", {"limits"})
    /\ quietPage.busy => Underway("quiet-hours", {"save"})
    /\ messagesPage.busy => Underway("messages", {"register"})

BusyInv == LoginBusy /\ HaveBusy /\ (faults = 0 => PagesBusy)

\* Calls stay as they are.
LEMMA LoginStays ==
    ASSUME LoginBusy, UNCHANGED loginPage,
           \A s \in Slots : LoginRequest(s) <=> LoginRequest(s)'
    PROVE  LoginBusy'
  BY DEF LoginBusy

\* The login page's requests are as they were.
LEMMA SameLogin ==
    ASSUME SameRequests("login")
    PROVE  \A s \in Slots : LoginRequest(s) <=> LoginRequest(s)'
  BY DEF LoginRequest, SameRequests, NoneNew, FromPage

\* A fetch of the login page rejects: the button is usable again.
LEMMA RejectLogin ==
    ASSUME Owned, LoginBusy, NEW s \in Slots, Reject(s)
    PROVE  LoginBusy'
  <1>1. /\ ~LoginRequest(s)'
        /\ \A t \in Slots : t # s => net'[t] = net[t]
    BY RejectKeeps DEF LoginRequest, FromPage, Vacant
  <1>2. \A t \in Slots : t # s => (LoginRequest(t) <=> LoginRequest(t)')
    BY <1>1 DEF LoginRequest, FromPage
  <1>3. CASE LoginRequest(s)
    <2>1. loginPage' = [busy |-> FALSE]
      BY <1>3 DEF Reject, LoginRequest
    <2>2. \A t \in Slots : ~LoginRequest(t)'
      BY <1>1, <1>2, <1>3 DEF LoginBusy
    <2> QED
      BY <2>1, <2>2 DEF LoginBusy
  <1>4. CASE ~LoginRequest(s)
    <2>1. UNCHANGED loginPage
      BY <1>4 DEF Reject, LoginRequest
    <2> QED
      BY <1>1, <1>2, <1>4, <2>1, LoginStays
  <1> QED
    BY <1>3, <1>4

\* The login page hears its answers, the browser those it left.
LEMMA LoginAnsweredLogin ==
    ASSUME Owned, LoginBusy, NEW s \in Slots, LoginAnswered(s), ~Moves
    PROVE  LoginBusy'
  <1>1. CASE UNCHANGED <<net, loginPage>>
    BY <1>1, LoginStays DEF LoginRequest, FromPage
  <1>2. CASE /\ net' = Done(s)
             /\ \/ UNCHANGED loginPage
                   /\ (FromPage(s, "login") => net[s].call.op # "login")
                \/ loginPage' = [busy |-> FALSE] /\ FromPage(s, "login")
                   /\ net[s].call.op = "login"
    <2>1. ~LoginRequest(s)' /\ \A t \in Slots : t # s => net'[t] = net[t]
      BY <1>2, DoneKeeps DEF LoginRequest, FromPage, Vacant
    <2>2. \A t \in Slots : t # s => (LoginRequest(t) <=> LoginRequest(t)')
      BY <2>1 DEF LoginRequest, FromPage
    <2>3. CASE loginPage' = [busy |-> FALSE] /\ LoginRequest(s)
      BY <2>1, <2>2, <2>3 DEF LoginBusy
    <2>4. CASE UNCHANGED loginPage /\ ~LoginRequest(s)
      BY <2>1, <2>2, <2>4, LoginStays
    <2> QED
      BY <1>2, <2>3, <2>4 DEF LoginRequest
  <1> QED
    BY <1>1, <1>2, LoginAnsweredMoves

\* A page that mounts is not busy.
LEMMA BusyMoves ==
    ASSUME Moves PROVE BusyInv'
  <1>1. /\ loginPage'.busy = FALSE /\ HaveBusy' /\ PagesBusy'
    BY DEF Moves, Mounted, LoginFresh, QuotaFresh, QuietFresh, MessagesFresh, HaveBusy, PagesBusy
  <1>2. \A c \in MountCalls(Page') \cup {MeCall("layout")} : c.page = "login" => c.op = "me"
    <2>1. CASE Page' = "login"
      <3>1. MountCalls(Page') = {MeCall("login")}
        BY <2>1 DEF MountCalls
      <3> QED
        BY <3>1 DEF MeCall
    <2>2. CASE Page' # "login"
      BY <2>2, MountCallsOf DEF MeCall
    <2> QED
      BY <2>1, <2>2
  <1>3. PICK calls : /\ Left(calls)
                     /\ \A c \in calls : c.page = "login" => c.op = "me"
    BY <1>2 DEF Moves
  <1>4. \A s \in Slots : ~LoginRequest(s)'
    BY <1>3, RequestOf DEF Left, LoginRequest, FromPage, Vacant
  <1> QED
    BY <1>1, <1>4 DEF BusyInv, LoginBusy

\* The user signs in.
LEMMA OnSubmitLogin ==
    ASSUME Owned, LoginBusy, NEW valid, OnSubmit(valid)
    PROVE  LoginBusy'
  <1>1. /\ ~loginPage.busy /\ loginPage' = [busy |-> TRUE] /\ HasRoom
        /\ net' = Send(net, {LoginCall(valid)})
    BY DEF OnSubmit
  <1>2. PICK k \in Slots : /\ net'[k] = Request(LoginCall(valid))
                           /\ \A t \in Slots : t # k => net'[t] = net[t]
    BY <1>1, SendKeeps
  <1>3. \A s \in Slots : ~LoginRequest(s)
    BY <1>1 DEF LoginBusy
  <1>4. \A s \in Slots : LoginRequest(s)' <=> s = k
    BY <1>2, <1>3, RequestOf DEF LoginRequest, FromPage, LoginCall
  <1> QED
    BY <1>1, <1>4 DEF LoginBusy

\* A click leaves what is underway alone.
LEMMA SendKeepsUnderway ==
    ASSUME Owned, HasRoom, NEW c, net' = Send(net, {c})
    PROVE  /\ \A p, ops : p # "none" /\ Underway(p, ops) => Underway(p, ops)'
           /\ Underway(c.page, {c.op})'
  <1>1. PICK k \in Slots : /\ net[k] = Vacant /\ net'[k] = Request(c)
                           /\ \A t \in Slots : t # k => net'[t] = net[t]
    BY SendKeeps
  <1>2. \A p : FromPage(k, p) => p = "none"
    BY <1>1 DEF FromPage, Vacant
  <1>3. Underway(c.page, {c.op})'
    BY <1>1, RequestOf DEF Underway, FromPage
  <1> QED
    BY <1>1, <1>2, <1>3 DEF Underway, FromPage

\* An answer that is heard leaves the others underway.
LEMMA SettleKeepsUnderway ==
    ASSUME Owned, NEW s \in Slots, net' = Done(s) \/ \E c : net' = Follow(s, c)
    PROVE  \A p, op : ~(FromPage(s, p) /\ net[s].call.op = op) /\ Underway(p, {op})
              => Underway(p, {op})'
  <1>1. \A t \in Slots : t # s => net'[t] = net[t]
    BY DoneKeeps, FollowKeeps
  <1> QED
    BY <1>1 DEF Underway, FromPage

\* Pages that keep their buttons and their requests stay backed.
LEMMA PagesStay ==
    ASSUME HaveBusy, PagesBusy, UNCHANGED <<appsPage, quotaPage, messagesPage>>,
           "busy" \in DOMAIN quietPage', quietPage'.busy = quietPage.busy,
           \A p \in Pages : \A op : Underway(p, {op}) => Underway(p, {op})'
    PROVE  PagesBusy'
  <1>1. {"apps", "quota", "quiet-hours", "messages"} \subseteq Pages
    BY DEF Pages
  <1> QED
    BY <1>1 DEF PagesBusy

\* Requests that are the same are underway.
LEMMA SameUnderway ==
    ASSUME NEW p, SameRequests(p)
    PROVE  \A op : Underway(p, {op}) => Underway(p, {op})'
  BY DEF SameRequests, NoneNew, Underway, FromPage

\* A click that makes a page busy starts what it waits for.
LEMMA UserActsBusy ==
    ASSUME Owned, HaveBusy, UserActs
    PROVE  HaveBusy' /\ (PagesBusy => PagesBusy')
  <1> DEFINE kept == \A p, op : p # "none" /\ Underway(p, {op}) => Underway(p, {op})'
  <1>1. kept
    <2>1. CASE net' = net
      BY <2>1 DEF Underway, FromPage
    <2>2. CASE net' # net
      <3>1. PICK c : HasRoom /\ net' = Send(net, {c})
        BY <2>2, UserActsSend
      <3> QED
        BY <3>1, SendKeepsUnderway
    <2> QED
      BY <2>1, <2>2
  <1>2. CASE Page = "apps" /\ AppsUser /\ UNCHANGED <<quotaPage, quietPage, messagesPage>>
    <2>1. "busy" \in DOMAIN appsPage'
      BY <1>2 DEF AppsUser, OnCreate, ShowLimits, OnDelete, AppsClick, Selected, HaveBusy
    <2>2. appsPage'.busy => appsPage.busy \/ Underway("apps", {"create"})'
      <3>1. CASE OnCreate
        <4> DEFINE c == AppsCall("create", "onCreate", NoApp, NoApp)
        <4>1. HasRoom /\ net' = Send(net, {c}) /\ c.page = "apps" /\ c.op = "create"
          BY <3>1 DEF OnCreate, AppsClick, AppsCall
        <4> HIDE DEF c
        <4> QED
          BY <4>1, SendKeepsUnderway
      <3>2. CASE ~OnCreate
        BY <1>2, <3>2 DEF AppsUser, ShowLimits, OnDelete, AppsClick, Selected, HaveBusy
      <3> QED
        BY <3>1, <3>2
    <2> QED
      BY <1>1, <1>2, <2>1, <2>2 DEF HaveBusy, PagesBusy
  <1>3. CASE Page = "quota" /\ QuotaUser /\ UNCHANGED <<appsPage, quietPage, messagesPage>>
    <2>1. "busy" \in DOMAIN quotaPage'
      BY <1>3 DEF QuotaUser, LoadLimits, Reading, TypeToken, HaveBusy
    <2>2. quotaPage'.busy => quotaPage.busy \/ Underway("quota", {"limits"})'
      <3>1. CASE LoadLimits
        <4> DEFINE c == QuotaLimitsCall(quotaPage.token)
        <4>1. HasRoom /\ net' = Send(net, {c}) /\ c.page = "quota" /\ c.op = "limits"
          BY <3>1 DEF LoadLimits, QuotaLimitsCall
        <4> HIDE DEF c
        <4> QED
          BY <4>1, SendKeepsUnderway
      <3>2. CASE ~LoadLimits
        BY <1>3, <3>2 DEF QuotaUser, TypeToken, HaveBusy
      <3> QED
        BY <3>1, <3>2
    <2> QED
      BY <1>1, <1>3, <2>1, <2>2 DEF HaveBusy, PagesBusy
  <1>4. CASE Page = "quiet-hours" /\ QuietUser /\ UNCHANGED <<appsPage, quotaPage, messagesPage>>
    <2>1. "busy" \in DOMAIN quietPage'
      BY <1>4 DEF QuietUser, Save, Saving, EditForm, HaveBusy
    <2>2. quietPage'.busy => quietPage.busy \/ Underway("quiet-hours", {"save"})'
      <3>1. ASSUME NEW clear \in BOOLEAN, Save(clear) PROVE Underway("quiet-hours", {"save"})'
        <4>0. PICK w : net' = Send(net, {SaveCall(w, clear)})
          BY <3>1 DEF Save
        <4> DEFINE c == SaveCall(w, clear)
        <4>1. HasRoom /\ net' = Send(net, {c}) /\ c.page = "quiet-hours" /\ c.op = "save"
          BY <3>1, <4>0 DEF Save, SaveCall
        <4> HIDE DEF c
        <4> QED
          BY <4>1, SendKeepsUnderway
      <3>2. ASSUME NEW w, EditForm(w) PROVE quietPage'.busy = quietPage.busy
        BY <3>2 DEF EditForm, HaveBusy
      <3> QED
        BY <1>4, <3>1, <3>2 DEF QuietUser
    <2> QED
      BY <1>1, <1>4, <2>1, <2>2 DEF HaveBusy, PagesBusy
  <1>5. CASE Page = "messages" /\ MessagesUser /\ UNCHANGED <<appsPage, quotaPage, quietPage>>
    <2>1. "busy" \in DOMAIN messagesPage'
      BY <1>5 DEF MessagesUser, RegisterViewer, Connect, ConnectOver, Disconnect,
         PasteCredentials, HaveBusy
    <2>2. messagesPage'.busy => messagesPage.busy \/ Underway("messages", {"register"})'
      <3>1. CASE RegisterViewer
        <4>1. /\ HasRoom /\ net' = Send(net, {RegisterCall}) /\ RegisterCall.page = "messages"
              /\ RegisterCall.op = "register"
          BY <3>1 DEF RegisterViewer, RegisterCall
        <4> QED
          BY <4>1, SendKeepsUnderway
      <3>2. CASE ~RegisterViewer
        BY <1>5, <3>2 DEF MessagesUser, Connect, ConnectOver, Disconnect, PasteCredentials,
           HaveBusy
      <3> QED
        BY <3>1, <3>2
    <2> QED
      BY <1>1, <1>5, <2>1, <2>2 DEF HaveBusy, PagesBusy
  <1> QED
    BY <1>2, <1>3, <1>4, <1>5 DEF UserActs

\* An answer that leaves a page busy is not the one it waits for.
LEMMA PageAnsweredBusy ==
    ASSUME Owned, HaveBusy, NEW s \in Slots, PageAnswered(s)
    PROVE  HaveBusy' /\ (PagesBusy => PagesBusy')
  <1>1. \A p, op : ~(FromPage(s, p) /\ net[s].call.op = op) /\ Underway(p, {op})
           => Underway(p, {op})'
    BY PageAnsweredNet, SettleKeepsUnderway
  <1>2. CASE AppsAnswered(s) /\ UNCHANGED <<quotaPage, quietPage, messagesPage>>
    <2>1. FromPage(s, "apps")
      BY <1>2 DEF AppsAnswered, AppsLoaded, LimitsRead, Created, CreatedListed, CreatedFound,
         CreatedShown, Deleted, DeletedListed, Awaits
    <2>2. /\ "busy" \in DOMAIN appsPage'
          /\ appsPage'.busy => appsPage.busy /\ net[s].call.op # "create"
      <3>1. CASE Created(s)
        <4> DEFINE page == [appsPage EXCEPT !.busy = FALSE]
        <4>1. "busy" \in DOMAIN page /\ page.busy = FALSE
          BY DEF HaveBusy
        <4>2. appsPage' = page \/ appsPage' = Loading(page)
          BY <3>1 DEF Created
        <4> HIDE DEF page
        <4>3. "busy" \in DOMAIN Loading(page) /\ Loading(page).busy = FALSE
          BY <4>1 DEF Loading
        <4> QED
          BY <4>1, <4>2, <4>3
      <3>2. CASE AppsLoaded(s) \/ CreatedListed(s) \/ DeletedListed(s)
        BY <3>2 DEF AppsLoaded, CreatedListed, DeletedListed, Loaded, Awaits, HaveBusy
      <3>3. CASE LimitsRead(s) \/ CreatedShown(s)
        BY <3>3 DEF LimitsRead, CreatedShown, LimitsShown, Awaits, HaveBusy
      <3>4. CASE CreatedFound(s)
        BY <3>4 DEF CreatedFound, Selected, Awaits, HaveBusy
      <3>5. CASE Deleted(s)
        BY <3>5 DEF Deleted, Deselected, Loading, Awaits, HaveBusy
      <3> QED
        BY <1>2, <3>1, <3>2, <3>3, <3>4, <3>5 DEF AppsAnswered
    <2> QED
      BY <1>1, <1>2, <2>1, <2>2 DEF HaveBusy, PagesBusy, FromPage
  <1>3. CASE QuotaAnswered(s) /\ UNCHANGED <<appsPage, quietPage, messagesPage>>
    <2>1. /\ FromPage(s, "quota") /\ "busy" \in DOMAIN quotaPage'
          /\ quotaPage'.busy => quotaPage.busy /\ net[s].call.op # "limits"
      <3>1. FromPage(s, "quota") /\ "busy" \in DOMAIN quotaPage
        BY <1>3 DEF QuotaAnswered, HaveBusy
      <3>2. CASE QuotaListed(s)
        BY <3>1, <3>2 DEF QuotaListed
      <3>3. CASE LimitsLoaded(s)
        <4> DEFINE page == [quotaPage EXCEPT !.busy = FALSE]
        <4>1. "busy" \in DOMAIN page /\ page.busy = FALSE
          BY <3>1
        <4>2. quotaPage' \in {page, [page EXCEPT !.limits = net[s].answer.limits,
                                                 !.headers = net[s].answer.headers]}
          BY <3>3 DEF LimitsLoaded
        <4> HIDE DEF page
        <4> QED
          BY <3>1, <4>1, <4>2
      <3> QED
        BY <1>3, <3>2, <3>3 DEF QuotaAnswered
    <2> QED
      BY <1>1, <1>3, <2>1 DEF HaveBusy, PagesBusy, FromPage
  <1>4. CASE QuietAnswered(s) /\ UNCHANGED <<appsPage, quotaPage, messagesPage>>
    <2>1. /\ FromPage(s, "quiet-hours") /\ "busy" \in DOMAIN quietPage'
          /\ quietPage'.busy => quietPage.busy /\ net[s].call.op # "save"
      BY <1>4 DEF QuietAnswered, QuietLoaded, Saved, Filled, HaveBusy
    <2> QED
      BY <1>1, <1>4, <2>1 DEF HaveBusy, PagesBusy, FromPage
  <1>5. CASE Registered(s) /\ UNCHANGED <<appsPage, quotaPage, quietPage>>
    <2>1. /\ FromPage(s, "messages") /\ "busy" \in DOMAIN messagesPage'
          /\ ~messagesPage'.busy
      BY <1>5 DEF Registered, HaveBusy
    <2> QED
      BY <1>1, <1>5, <2>1 DEF HaveBusy, PagesBusy, FromPage
  <1> QED
    BY <1>2, <1>3, <1>4, <1>5 DEF PageAnswered

\* A page that is not on screen sends no "login" and hears none.
LEMMA NoLoginClick ==
    ASSUME Owned, UserActs
    PROVE  SameRequests("login") /\ UNCHANGED loginPage
  <1>1. UNCHANGED loginPage
    BY DEF UserActs, routeVars
  <1>2. CASE net' = net
    BY <1>1, <1>2, NetSame
  <1>3. CASE net' # net
    <2>1. Page # "login"
      BY DEF UserActs
    <2> QED
      BY <1>1, <1>3, <2>1, UserActsSend, SendElsewhere
  <1> QED
    BY <1>2, <1>3

\* No step makes a button busy without a request, or leaves one so.
LEMMA BusyStep ==
    Owned /\ SessionKnown /\ BusyInv /\ [Next]_vars => BusyInv'
  <1> SUFFICES ASSUME Owned, SessionKnown, BusyInv, [Next]_vars PROVE BusyInv'
    OBVIOUS
  <1> DEFINE kept == UNCHANGED <<appsPage, quotaPage, messagesPage>>
             quietKept == "busy" \in DOMAIN quietPage' /\ quietPage'.busy = quietPage.busy
  <1>1. ASSUME UNCHANGED <<net, loginPage>>, faults' \in {faults, faults + 1}, kept, quietKept
        PROVE  BusyInv'
    <2>1. LoginBusy' /\ HaveBusy'
      BY <1>1, NetSame, SameLogin, LoginStays DEF BusyInv, HaveBusy
    <2>2. faults = 0 => PagesBusy'
      BY <1>1, PagesStay, NetSame, SameUnderway DEF BusyInv
    <2>3. faults' = 0 => faults = 0
      BY <1>1 DEF SessionKnown
    <2> QED
      BY <2>1, <2>2, <2>3 DEF BusyInv
  <1>2. ASSUME NEW valid \in BOOLEAN, OnSubmit(valid) PROVE BusyInv'
    <2>1. /\ UNCHANGED <<quietPage, faults>> /\ kept /\ HasRoom
          /\ net' = Send(net, {LoginCall(valid)})
      BY <1>2 DEF OnSubmit, pageVars, Deaf
    <2>2. \A p \in Pages : \A op : Underway(p, {op}) => Underway(p, {op})'
      BY <2>1, SendKeepsUnderway DEF Pages
    <2>3. HaveBusy' /\ (faults = 0 => PagesBusy')
      BY <2>1, <2>2, PagesStay DEF BusyInv, HaveBusy
    <2> QED
      BY <1>2, <2>1, <2>3, OnSubmitLogin DEF BusyInv
  <1>3. ASSUME NEW r \in Pages, GoTo(r) PROVE BusyInv'
    <2>1. Moves
      BY <1>3, NavigateMoves DEF GoTo, Owned, Deaf
    <2> QED
      BY <2>1, BusyMoves
  <1>4. ASSUME UserActs PROVE BusyInv'
    <2>1. faults' = faults
      BY <1>4 DEF UserActs, Deaf
    <2> QED
      BY <1>4, <2>1, UserActsBusy, NoLoginClick, SameLogin, LoginStays DEF BusyInv
  <1>5. ASSUME HomeReplaced PROVE BusyInv'
    <2>1. Moves
      BY <1>5, NavigateMoves DEF HomeReplaced, Owned, Deaf
    <2> QED
      BY <2>1, BusyMoves
  <1>6. ASSUME NEW s \in Slots, Served(s) PROVE BusyInv'
    <2>1. /\ InFlight(s) /\ \E a : net' = Reply(s, a)
          /\ faults' = faults \/ faults' = faults + 1
      BY <1>6, ServeReplies, ServeFaults DEF Served
    <2>2. \A t \in Slots : net'[t].call = net[t].call
      BY <2>1, ReplyKeeps
    <2>3. UNCHANGED loginPage /\ kept
      BY <1>6 DEF Served, routeVars
    <2>4. quietKept
      BY <1>6 DEF Served, QuietServed, BusyInv, HaveBusy
    <2>5. LoginBusy'
      BY <2>2, <2>3, LoginStays DEF LoginRequest, FromPage, BusyInv
    <2>6. \A p \in Pages : \A op : Underway(p, {op}) => Underway(p, {op})'
      BY <2>2 DEF Underway, FromPage
    <2>7. faults' = 0 => faults = 0
      BY <2>1 DEF SessionKnown
    <2>8. HaveBusy' /\ (faults = 0 => PagesBusy')
      BY <2>3, <2>4, <2>6, PagesStay DEF BusyInv, HaveBusy
    <2> QED
      BY <2>5, <2>7, <2>8 DEF BusyInv
  <1>7. ASSUME NEW s \in Slots, LoginAnswered(s) PROVE BusyInv'
    <2>1. CASE Moves
      BY <2>1, BusyMoves
    <2>2. CASE ~Moves
      <3>1. LoginBusy'
        BY <1>7, <2>2, LoginAnsweredLogin DEF BusyInv
      <3>2. UNCHANGED <<pageVars, faults>> /\ (net' = net \/ net' = Done(s))
        BY <1>7, <2>2, LoginAnsweredMoves
      <3>3. \A p \in Pages : ~FromPage(s, p)
        BY <1>7 DEF LoginAnswered, FromPage, Pages
      <3>4. \A p \in Pages : \A op : Underway(p, {op}) => Underway(p, {op})'
        <4>1. CASE net' = net
          BY <4>1, NetSame, SameUnderway
        <4>2. CASE net' = Done(s)
          BY <3>3, <4>2, SettleKeepsUnderway
        <4> QED
          BY <3>2, <4>1, <4>2
      <3>5. HaveBusy' /\ (faults = 0 => PagesBusy')
        BY <3>2, <3>4, PagesStay DEF BusyInv, HaveBusy, pageVars
      <3> QED
        BY <3>1, <3>2, <3>5 DEF BusyInv
    <2> QED
      BY <2>1, <2>2
  <1>8. ASSUME NEW s \in Slots, LayoutProbed(s) PROVE BusyInv'
    BY <1>8, ProbedMoves, BusyMoves
  <1>9. ASSUME NEW s \in Slots, PageAnswered(s) PROVE BusyInv'
    <2>1. UNCHANGED <<faults, loginPage>>
      BY <1>9 DEF PageAnswered, Deaf, routeVars
    <2>2. ~FromPage(s, "login")
      BY <1>9 DEF PageAnswered, AppsAnswered, AppsLoaded, LimitsRead, Created, CreatedListed,
         CreatedFound, CreatedShown, Deleted, DeletedListed, Awaits, QuotaAnswered,
         QuietAnswered, Registered, FromPage
    <2>3. LoginBusy'
      BY <1>9, <2>1, <2>2, PageAnsweredNet, SettledElsewhere, SameLogin, LoginStays
         DEF BusyInv, FromPage
    <2> QED
      BY <1>9, <2>1, <2>3, PageAnsweredBusy DEF BusyInv
  <1>10. ASSUME NEW s \in Slots, Unheard(s) PROVE BusyInv'
    <2>1. /\ net' = Done(s) /\ FromPage(s, "gone")
          /\ UNCHANGED <<pageVars, loginPage, faults>>
      BY <1>10 DEF Unheard, Stay, routeVars, Deaf
    <2>2. LoginBusy'
      BY <2>1, SettledElsewhere, SameLogin, LoginStays DEF BusyInv, FromPage
    <2>3. \A p \in Pages : \A op : Underway(p, {op}) => Underway(p, {op})'
      BY <2>1, SettleKeepsUnderway DEF FromPage, Pages
    <2>4. HaveBusy' /\ (faults = 0 => PagesBusy')
      BY <2>1, <2>3, PagesStay DEF BusyInv, HaveBusy, pageVars
    <2> QED
      BY <2>1, <2>2, <2>4 DEF BusyInv
  <1>11. ASSUME NEW s \in Slots, Reject(s) PROVE BusyInv'
    <2>1. faults' # 0 /\ UNCHANGED pageVars
      BY <1>11 DEF Reject, SessionKnown
    <2> QED
      BY <1>11, <2>1, RejectLogin DEF BusyInv, HaveBusy, pageVars
  <1>12. ASSUME NEW p \in Senders, Sends(p) PROVE BusyInv'
    <2>1. net' = net /\ faults' \in {faults, faults + 1}
      BY <1>12 DEF Sends, SendGated, SendStored, SendRefused, SendCharged, SendUncharged
    <2>2. UNCHANGED <<pageVars, loginPage>>
      BY <1>12 DEF Sends, tabVars, routeVars
    <2> QED
      BY <1>1, <2>1, <2>2 DEF pageVars, BusyInv, HaveBusy
  <1>13. ASSUME NEW p \in Senders, Published(p) PROVE BusyInv'
    BY <1>1, <1>13 DEF Published, routeVars, BusyInv, HaveBusy
  <1>14. ASSUME NEW i \in 1..Sources, Streams(i) PROVE BusyInv'
    <2>1. /\ UNCHANGED <<net, loginPage, appsPage, quotaPage, quietPage>>
          /\ faults' = faults \/ faults' = faults + 1
      BY <1>14 DEF Streams, routeVars
    <2>2. "busy" \in DOMAIN messagesPage' /\ messagesPage'.busy = messagesPage.busy
      <3>1. "busy" \in DOMAIN messagesPage
        BY DEF BusyInv, HaveBusy
      <3>2. CASE UNCHANGED messagesPage
        BY <3>1, <3>2
      <3>3. CASE Accept(i)
        BY <3>1, <3>3 DEF Accept
      <3>4. CASE Refused(i)
        BY <3>1, <3>4 DEF Refused
      <3>5. CASE ReceiveEvent(i)
        BY <3>1, <3>5 DEF ReceiveEvent
      <3>6. CASE LoseConnection(i)
        BY <3>1, <3>6 DEF LoseConnection
      <3> QED
        BY <1>14, <3>2, <3>3, <3>4, <3>5, <3>6 DEF Streams, StreamStep, StreamFault, Refuse,
           Subscribe, Replay, Forward, ReplayFails
    <2>3. LoginBusy' /\ HaveBusy'
      BY <2>1, <2>2, NetSame, SameLogin, LoginStays DEF BusyInv, HaveBusy
    <2>4. PagesBusy => PagesBusy'
      BY <2>1, <2>2, NetSame, SameUnderway DEF PagesBusy
    <2> QED
      BY <2>1, <2>3, <2>4 DEF BusyInv, SessionKnown
  <1>15. ASSUME Others PROVE BusyInv'
    <2>1. CASE SessionExpires /\ UNCHANGED tabVars
      <3>1. faults' # 0 /\ UNCHANGED <<pageVars, loginPage>>
        BY <2>1 DEF SessionExpires, SessionKnown, tabVars, routeVars
      <3> QED
        BY <2>1, <3>1, ExpirySame, SameLogin, LoginStays DEF BusyInv, HaveBusy, pageVars
    <2>2. ASSUME NEW w \in Windows, OtherSaves(w) PROVE BusyInv'
      <3>1. UNCHANGED <<net, loginPage, faults>> /\ kept
        BY <2>2 DEF OtherSaves, OtherClientSaves, routeVars
      <3>2. quietKept
        BY <2>2 DEF OtherSaves, QuietOvertaken, BusyInv, HaveBusy
      <3> QED
        BY <1>1, <3>1, <3>2
    <2>3. CASE MonthEnds /\ UNCHANGED <<net, cookie, faults, tabVars>>
      BY <1>1, <2>3 DEF tabVars, pageVars, routeVars, BusyInv, HaveBusy
    <2> QED
      BY <1>15, <2>1, <2>2, <2>3 DEF Others
  <1>16. ASSUME UNCHANGED vars PROVE BusyInv'
    BY <1>1, <1>16 DEF vars, state, tabVars, pageVars, routeVars, BusyInv, HaveBusy
  <1> QED
    BY <1>2, <1>3, <1>4, <1>5, <1>6, <1>7, <1>8, <1>9, <1>10, <1>11, <1>12, <1>13, <1>14,
       <1>15, <1>16 DEF Next, UserStep, Settle

\* No button is busy when the tab opens.
LEMMA InitBusy == Init => BusyInv
  <1> SUFFICES ASSUME Init PROVE BusyInv
    OBVIOUS
  <1>1. /\ loginPage.busy = FALSE /\ HaveBusy /\ ~appsPage.busy /\ ~quotaPage.busy
        /\ ~quietPage.busy /\ ~messagesPage.busy
    BY DEF Init, LoginFresh, AppsFresh, QuotaFresh, QuietFresh, MessagesInit, MessagesFresh,
       HaveBusy
  <1>2. \A s \in Slots : ~LoginRequest(s)
    BY InitRequests, RequestOf DEF LoginRequest, FromPage, MeCall, Vacant
  <1> QED
    BY <1>1, <1>2 DEF BusyInv, LoginBusy, PagesBusy

\* A button that says "busy" always waits for an answer on the login page; on the
\* others it does as long as nothing has failed.
THEOREM BusyIsAlwaysBacked == Spec => []BusyIsBacked
  <1>1. Init => Owned /\ SessionKnown /\ BusyInv
    BY InitOwned, InitSession, InitBusy
  <1>2. Owned /\ SessionKnown /\ BusyInv /\ [Next]_vars
            => (Owned /\ SessionKnown /\ BusyInv)'
    BY OwnedStep, SessionStep, BusyStep
  <1>3. BusyInv => BusyIsBacked
    BY DEF BusyInv, BusyIsBacked, LoginBusy, LoginRequest, PagesBusy, Underway
  <1> QED
    BY <1>1, <1>2, <1>3, PTL DEF Spec

-----------------------------------------------------------------------------
(* What a user who waits sees of the apps.                                 *)

\* The state of the page that its handlers set.
Fields(page) ==
    {"apps", "busy", "selected", "limits", "limitHeaders", "loadState", "waited"}
        \subseteq DOMAIN page

\* The panel is of an app that exists, and shows that app's answer.
Sound ==
    /\ appsPage.selected \in tokens \cup {NoApp}
    /\ PanelShown => appsPage.limits.app = appsPage.selected

AtRest ==
    /\ Sound /\ ~appsPage.busy
    /\ appsPage.loadState # "loading" /\ appsPage.apps = tokens

\* The one operation underway is a load of the list,
Listing(s) ==
    /\ net[s].call.op = "list"
    /\ Sound /\ ~appsPage.busy
    /\ \/ net[s].answer.status = 0
       \/ net[s].answer.status = 200 /\ net[s].answer.apps = tokens
    /\ net[s].call.awaits = "fresh" => AtRest

\* a read of the quota of the app just selected,
ReadingLimits(s) ==
    /\ net[s].call.op = "limits"
    /\ AtRest /\ appsPage.limits = NoLimits /\ appsPage.selected = net[s].call.app
    /\ net[s].answer.status = 200 => net[s].answer.limits.app = net[s].call.app

\* a creation,
Creating(s) ==
    /\ net[s].call.op = "create"
    /\ Sound /\ appsPage.loadState # "loading"
    /\ \/ net[s].answer.status = 0 /\ appsPage.apps = tokens
       \/ net[s].answer.status = 201

\* or a revocation, whose handler keeps the selection there is.
Deleting(s) ==
    /\ net[s].call.op = "delete"
    /\ net[s].call.selected = appsPage.selected
    /\ ~appsPage.busy /\ appsPage.loadState # "loading"
    /\ PanelShown => appsPage.limits.app = appsPage.selected
    /\ IF net[s].answer.status = 200
       THEN appsPage.selected \in tokens \cup {NoApp, net[s].call.app}
       ELSE AtRest

Operation(s) == Listing(s) \/ ReadingLimits(s) \/ Creating(s) \/ Deleting(s)

OneOperation ==
    /\ \A s \in Slots : net[s].call.page # "gone"
    /\ \A s, t \in Slots : FromPage(s, "apps") /\ FromPage(t, "apps") => s = t
    /\ \A s \in Slots : FromPage(s, "apps") => Operation(s)
    /\ AppsIdle => AtRest

AppsInv ==
    /\ Fields(appsPage) /\ Probing
    /\ appsPage.waited => Page = "apps"
    /\ appsPage.waited /\ faults = 0 => OneOperation

\* Nothing happens that the page could notice.
LEMMA AppsStays ==
    ASSUME OneOperation, UNCHANGED <<tokens, appsPage>>, SameRequests("apps"),
           \A s \in Slots : net'[s].call.page = "gone" => net[s].call.page = "gone"
    PROVE  OneOperation'
  <1>1. \A s \in Slots : FromPage(s, "apps")' => FromPage(s, "apps")
    BY DEF SameRequests, NoneNew, FromPage
  <1>2. Sound' = Sound /\ AtRest' = AtRest /\ PanelShown' = PanelShown
    BY DEF Sound, AtRest, PanelShown
  <1>3. ASSUME NEW s \in Slots, FromPage(s, "apps")'
        PROVE  Operation(s)'
    <2>1. /\ net'[s].call = net[s].call /\ net'[s].answer = net[s].answer
          /\ Operation(s)
      BY <1>1, <1>3 DEF OneOperation, SameRequests, NoneNew
    <2>2. Listing(s) => Listing(s)'
      BY <1>2, <2>1 DEF Listing
    <2>3. ReadingLimits(s) => ReadingLimits(s)'
      BY <1>2, <2>1 DEF ReadingLimits
    <2>4. Creating(s) => Creating(s)'
      BY <1>2, <2>1 DEF Creating
    <2>5. Deleting(s) => Deleting(s)'
      BY <1>2, <2>1 DEF Deleting
    <2> QED
      BY <2>1, <2>2, <2>3, <2>4, <2>5 DEF Operation
  <1>4. AppsIdle' => AppsIdle
    BY DEF AppsIdle, SameRequests
  <1> QED
    BY <1>1, <1>2, <1>3, <1>4 DEF OneOperation

\* Slot k holds what the page waits for, or nothing does.
LEMMA OneRequest ==
    ASSUME NEW k \in Slots, \A t \in Slots : t # k => net'[t] = net[t],
           \A t \in Slots : t # k => ~FromPage(t, "apps"),
           \A t \in Slots : net[t].call.page # "gone", net'[k].call.page # "gone",
           FromPage(k, "apps")' => Operation(k)',
           ~FromPage(k, "apps")' => AtRest'
    PROVE  OneOperation'
  <1>1. \A t \in Slots : FromPage(t, "apps")' => t = k
    BY DEF FromPage
  <1>2. \A t \in Slots : net'[t].call.page # "gone"
    OBVIOUS
  <1>3. AppsIdle' => ~FromPage(k, "apps")'
    BY DEF AppsIdle
  <1> QED
    BY <1>1, <1>2, <1>3 DEF OneOperation

\* The list is asked for when the page mounts with a slot to spare.
LEMMA MountAsks ==
    ASSUME NEW n, n = [s \in Slots |-> n[s]], \A s \in Slots : Entry(n[s]),
           \E s \in Slots : n[s] = Vacant,
           NEW old \in {"login", "blank"} \cup Pages,
           Mount(n, old, "apps", MountCalls("apps"))
    PROVE  \E s \in Slots : FromPage(s, "apps")'
  <1> DEFINE gone == {old} \cup (IF "apps" = "login" THEN {"layout"} ELSE {})
             left == Abandon(n, gone)
             k    == CHOOSE s \in Slots : left[s] = Vacant
             c    == ListCall("mount", NoApp)
  <1>0. MountCalls("apps") = {c}
    BY DEF MountCalls
  <1>1. net' = Send(left, {c})
    BY <1>0 DEF Mount
  <1>2. gone \cap {"left", "gone", "none"} = {}
    BY DEF Pages
  <1>3. left = [s \in Slots |-> left[s]]
    <2> HIDE DEF gone
    <2> QED
      BY <1>2, AbandonSlots
  <1>4. \E s \in Slots : left[s] = Vacant
    <2>1. PICK s \in Slots : n[s] = Vacant
      OBVIOUS
    <2> HIDE DEF gone
    <2>2. n[s].call.page \notin gone
      BY <1>2, <2>1 DEF Vacant
    <2>3. left[s] = n[s]
      BY <2>2 DEF Abandon
    <2> QED
      BY <2>1, <2>3
  <1> HIDE DEF left, gone
  <1>5. k \in Slots /\ net' = [left EXCEPT ![k] = Request(c)]
    BY <1>1, <1>4 DEF Send
  <1> HIDE DEF k
  <1>6. net'[k] = Request(c)
    BY <1>3, <1>5
  <1>7. c.page = "apps"
    BY DEF ListCall, AppsCall
  <1> QED
    BY <1>5, <1>6, <1>7, RequestOf DEF FromPage

\* The router moves.
LEMMA AppsMoves ==
    ASSUME Probing, Moves, Page' = "apps" => \E s \in Slots : FromPage(s, "apps")'
    PROVE  AppsInv'
  <1>1. /\ Fields(appsPage') /\ appsPage'.selected = NoApp /\ appsPage'.limits = NoLimits
        /\ appsPage'.busy = FALSE
    <2>1. CASE appsPage' = AppsFresh
      BY <2>1 DEF Fields, AppsFresh
    <2>2. ASSUME NEW w, appsPage' = [AppsFresh EXCEPT !.waited = w]
          PROVE  /\ Fields(appsPage') /\ appsPage'.selected = NoApp /\ appsPage'.limits = NoLimits
                 /\ appsPage'.busy = FALSE
      BY <2>2 DEF Fields, AppsFresh
    <2> QED
      BY <2>1, <2>2 DEF Moves, AppsArrive
  <1>2. /\ Probing'
        /\ appsPage'.waited => Page' = "apps" /\ \A s \in Slots : net'[s].call.page # "gone"
    BY DEF Moves, AppsArrive
  <1>3. ASSUME appsPage'.waited PROVE OneOperation'
    <2>1. Page' = "apps" /\ \A s \in Slots : net'[s].call.page # "gone"
      BY <1>2, <1>3
    <2>2. Left({ListCall("mount", NoApp)})
      BY <2>1 DEF Moves, MountCalls
    <2>3. PICK k : \A s \in Slots :
             \/ net'[s] = Vacant \/ net'[s].call.page \in {"left", "gone"}
             \/ net'[s] = net[s] /\ FromPage(s, "layout")
             \/ s = k /\ net'[s] = Request(ListCall("mount", NoApp))
      BY <2>2 DEF Left
    <2>4. \A s \in Slots : FromPage(s, "apps")' =>
             s = k /\ net'[s] = Request(ListCall("mount", NoApp))
      BY <2>3 DEF FromPage, Vacant
    <2>5. Sound'
      BY <1>1 DEF Sound, PanelShown
    <2>6. /\ Request(ListCall("mount", NoApp)).call.op = "list"
          /\ Request(ListCall("mount", NoApp)).call.awaits = "mount"
          /\ Request(ListCall("mount", NoApp)).answer.status = 0
      BY RequestOf DEF ListCall, AppsCall
    <2>7. \A s \in Slots : FromPage(s, "apps")' => Operation(s)'
      BY <1>1, <2>4, <2>5, <2>6 DEF Operation, Listing
    <2>8. ~AppsIdle'
      BY <2>1 DEF AppsIdle
    <2> QED
      BY <2>1, <2>4, <2>7, <2>8 DEF OneOperation
  <1> QED
    BY <1>1, <1>2, <1>3 DEF AppsInv

\* The probes of a step that answers, or adds one request.
LEMMA ProbingSettles ==
    ASSUME Probing, NEW k \in Slots, \A t \in Slots : t # k => net'[t] = net[t],
           \/ net'[k] = Vacant \/ net'[k].call = net[k].call
           \/ net'[k].call.page \notin {"login", "left"}
           \/ net'[k].call.op \in {"me", "login"}
    PROVE  Probing'
  <1>1. Vacant.call.page = "none"
    BY DEF Vacant
  <1> QED
    BY <1>1 DEF Probing

\* Users of the Apps page.
LEMMA AppsUserApps ==
    ASSUME Owned, AppsInv, AppsUser, Page = "apps",
           UNCHANGED <<route, layout, tokens, faults>>
    PROVE  AppsInv'
  <1>1. PICK c, page :
            /\ HasRoom /\ net' = Send(net, {c}) /\ c.page = "apps"
            /\ appsPage' = [page EXCEPT !.waited = @ /\ AppsIdle]
            /\ \/ \E a \in appsPage.apps :
                     page = Selected(appsPage, a) /\ c = LimitsCall("click", a)
               \/ /\ page = [appsPage EXCEPT !.busy = TRUE]
                  /\ c = AppsCall("create", "onCreate", NoApp, NoApp)
               \/ \E a \in appsPage.apps :
                     page = appsPage /\ c = AppsCall("delete", "onDelete", a, appsPage.selected)
    <2>1. ASSUME NEW a \in Apps, ShowLimits(a) \/ OnDelete(a)
          PROVE  \E c, page :
            /\ HasRoom /\ net' = Send(net, {c}) /\ c.page = "apps"
            /\ appsPage' = [page EXCEPT !.waited = @ /\ AppsIdle]
            /\ \/ \E b \in appsPage.apps :
                     page = Selected(appsPage, b) /\ c = LimitsCall("click", b)
               \/ \E b \in appsPage.apps :
                     page = appsPage /\ c = AppsCall("delete", "onDelete", b, appsPage.selected)
      <3>1. CASE ShowLimits(a)
        BY <3>1 DEF ShowLimits, AppsClick, LimitsCall, AppsCall
      <3>2. CASE OnDelete(a)
        BY <3>2 DEF OnDelete, AppsClick, AppsCall
      <3> QED
        BY <2>1, <3>1, <3>2
    <2>2. CASE OnCreate
      BY <2>2 DEF OnCreate, AppsClick, AppsCall
    <2> QED
      BY <2>1, <2>2 DEF AppsUser
  <1>2. PICK k \in Slots : /\ net[k] = Vacant /\ net'[k] = Request(c)
                           /\ \A t \in Slots : t # k => net'[t] = net[t]
    BY <1>1, SendKeeps
  <1>3. net'[k].call = c /\ net'[k].answer.status = 0
    BY <1>2, RequestOf
  <1>4. Probing'
    BY <1>1, <1>2, <1>3, ProbingSettles DEF AppsInv
  <1>5. Fields(page) /\ page.waited = appsPage.waited
    BY <1>1 DEF AppsInv, Fields, Selected
  <1>6. /\ Fields(appsPage') /\ appsPage'.waited = (appsPage.waited /\ AppsIdle)
        /\ appsPage'.apps = page.apps /\ appsPage'.busy = page.busy
        /\ appsPage'.selected = page.selected /\ appsPage'.limits = page.limits
        /\ appsPage'.loadState = page.loadState
    BY <1>1, <1>5 DEF Fields
  <1>7. Page' = "apps"
    BY DEF Page
  <1>8. ASSUME appsPage'.waited, faults' = 0 PROVE OneOperation'
    <2>1. appsPage.waited /\ AppsIdle /\ OneOperation /\ AtRest
      BY <1>6, <1>8 DEF AppsInv, OneOperation
    <2>2. FromPage(k, "apps")' /\ net'[k].call.page # "gone"
      BY <1>1, <1>3 DEF FromPage
    <2>3. Operation(k)'
      <3>1. ASSUME NEW a \in appsPage.apps,
                   page = Selected(appsPage, a), c = LimitsCall("click", a)
            PROVE  ReadingLimits(k)'
        <4>1. /\ page.selected = a /\ page.limits = NoLimits /\ page.apps = appsPage.apps
              /\ page.busy = appsPage.busy /\ page.loadState = appsPage.loadState
          BY <3>1 DEF Selected, AppsInv, Fields
        <4>2. c.op = "limits" /\ c.app = a
          BY <3>1 DEF LimitsCall, AppsCall
        <4>3. a \in tokens /\ tokens' = tokens
          BY <2>1 DEF AtRest
        <4>4. AtRest'
          BY <1>6, <2>1, <4>1, <4>3 DEF AtRest, Sound, PanelShown
        <4> QED
          BY <1>3, <1>6, <4>1, <4>2, <4>4 DEF ReadingLimits
      <3>2. ASSUME page = [appsPage EXCEPT !.busy = TRUE],
                   c = AppsCall("create", "onCreate", NoApp, NoApp)
            PROVE  Creating(k)'
        <4>1. /\ page.selected = appsPage.selected /\ page.limits = appsPage.limits
              /\ page.apps = appsPage.apps /\ page.loadState = appsPage.loadState
          BY <3>2 DEF AppsInv, Fields
        <4>2. c.op = "create"
          BY <3>2 DEF AppsCall
        <4> QED
          BY <1>3, <1>6, <2>1, <4>1, <4>2 DEF Creating, AtRest, Sound, PanelShown
      <3>3. ASSUME NEW a \in appsPage.apps, page = appsPage,
                   c = AppsCall("delete", "onDelete", a, appsPage.selected)
            PROVE  Deleting(k)'
        <4>1. c.op = "delete" /\ c.selected = appsPage.selected
          BY <3>3 DEF AppsCall
        <4>2. AtRest'
          BY <1>6, <2>1, <3>3 DEF AtRest, Sound, PanelShown
        <4> QED
          BY <1>3, <1>6, <2>1, <3>3, <4>1, <4>2 DEF Deleting, AtRest, Sound
      <3> QED
        BY <1>1, <3>1, <3>2, <3>3 DEF Operation
    <2>4. \A t \in Slots : ~FromPage(t, "apps") /\ net[t].call.page # "gone"
      BY <2>1 DEF AppsIdle, OneOperation
    <2> QED
      BY <1>2, <2>2, <2>3, <2>4, OneRequest
  <1> QED
    BY <1>4, <1>6, <1>7, <1>8 DEF AppsInv

\* q shows the same panel as page.
KeepsPanel(q, page) ==
    /\ Fields(q) /\ q.waited = page.waited
    /\ q.selected = page.selected /\ q.limits = page.limits

\* What the handlers make of the page.
LEMMA LoadedPage ==
    ASSUME NEW page, Fields(page), NEW x, NEW q, q = Loaded(page, x)
    PROVE  /\ KeepsPanel(q, page) /\ q.busy = page.busy
           /\ x.status = 200 => q.apps = x.apps /\ q.loadState = "ready"
  BY DEF Loaded, KeepsPanel, Fields

\* A list that is loading.
LEMMA LoadingPage ==
    ASSUME NEW page, Fields(page), NEW q, q = Loading(page)
    PROVE  KeepsPanel(q, page) /\ q.busy = page.busy
  BY DEF Loading, KeepsPanel, Fields

\* An app that is selected, or none.
LEMMA SelectedPage ==
    ASSUME NEW page, Fields(page), NEW b, NEW q,
           q = Selected(page, b) \/ (q = Deselected(page) /\ b = NoApp)
    PROVE  /\ Fields(q) /\ q.waited = page.waited /\ q.busy = page.busy
           /\ q.apps = page.apps /\ q.loadState = page.loadState
           /\ q.selected = b /\ q.limits = NoLimits
  BY DEF Selected, Deselected, Fields

\* q is page with the limits of answer x.
ShowsAnswer(q, page, x) ==
    /\ Fields(q) /\ q.waited = page.waited /\ q.busy = page.busy
    /\ q.apps = page.apps /\ q.loadState = page.loadState
    /\ q.selected = page.selected
    /\ q.limits = IF x.status = 200 THEN x.limits ELSE page.limits

\* A panel that is filled.
LEMMA ShownPage ==
    ASSUME NEW page, Fields(page), NEW x
    PROVE  ShowsAnswer(LimitsShown(page, x), page, x)
  <1> DEFINE q == LimitsShown(page, x)
  <1>1. CASE x.status = 200
    <2>1. q = [page EXCEPT !.limits = x.limits, !.limitHeaders = x.headers]
      BY <1>1 DEF LimitsShown
    <2> HIDE DEF q
    <2>2. ShowsAnswer(q, page, x)
      BY <1>1, <2>1 DEF Fields, ShowsAnswer
    <2> QED
      BY <2>2 DEF q
  <1>2. CASE x.status # 200
    BY <1>2 DEF LimitsShown, ShowsAnswer
  <1> QED
    BY <1>1, <1>2

\* A load of the list ends: the page is at rest.
LEMMA ListEnds ==
    ASSUME Fields(appsPage), NEW s \in Slots, Listing(s), net[s].answer.status # 0,
           appsPage' = Loaded(appsPage, net[s].answer), tokens' = tokens
    PROVE  AtRest'
  <1>1. net[s].answer.status = 200 /\ net[s].answer.apps = tokens /\ Sound /\ ~appsPage.busy
    BY DEF Listing
  <1>2. /\ KeepsPanel(appsPage', appsPage) /\ appsPage'.busy = appsPage.busy
        /\ appsPage'.apps = net[s].answer.apps /\ appsPage'.loadState = "ready"
    BY <1>1, LoadedPage
  <1> QED
    BY <1>1, <1>2 DEF AtRest, Sound, PanelShown, KeepsPanel

\* So does a read of the quota.
LEMMA ReadEnds ==
    ASSUME Fields(appsPage), NEW s \in Slots, ReadingLimits(s),
           appsPage' = LimitsShown(appsPage, net[s].answer), tokens' = tokens
    PROVE  AtRest'
  <1> DEFINE x == net[s].answer
  <1>1. /\ AtRest /\ appsPage.selected = net[s].call.app
        /\ x.status = 200 => x.limits.app = net[s].call.app
    BY DEF ReadingLimits
  <1>2. /\ appsPage'.busy = appsPage.busy /\ appsPage'.apps = appsPage.apps
        /\ appsPage'.loadState = appsPage.loadState
        /\ appsPage'.selected = appsPage.selected
        /\ appsPage'.limits = IF x.status = 200 THEN x.limits ELSE appsPage.limits
    <2>1. ShowsAnswer(appsPage', appsPage, x)
      BY ShownPage
    <2> QED
      BY <2>1 DEF ShowsAnswer
  <1> HIDE DEF x
  <1> QED
    BY <1>1, <1>2 DEF AtRest, Sound, PanelShown

\* The list is asked for.
LEMMA ListAsked ==
    ASSUME NEW s \in Slots, NEW awaits, NEW b, net'[s] = Request(ListCall(awaits, b)),
           Sound', ~appsPage'.busy, awaits = "fresh" => AtRest'
    PROVE  FromPage(s, "apps")' /\ Operation(s)'
  <1>1. net'[s].call = ListCall(awaits, b) /\ net'[s].answer.status = 0
    BY RequestOf
  <1>2. /\ ListCall(awaits, b).page = "apps" /\ ListCall(awaits, b).op = "list"
        /\ ListCall(awaits, b).awaits = awaits
    BY DEF ListCall, AppsCall
  <1> QED
    BY <1>1, <1>2 DEF FromPage, Operation, Listing

\* The page hears an answer.
LEMMA AppsAnsweredApps ==
    ASSUME Owned, AppsInv, NEW s \in Slots, AppsAnswered(s),
           UNCHANGED <<route, layout, tokens, faults>>
    PROVE  AppsInv'
  <1> DEFINE a == net[s].answer
             c == net[s].call
             list == /\ c.op = "list" /\ appsPage' = Loaded(appsPage, a)
                     /\ \/ net' = Done(s)
                        \/ net' = Follow(s, ListCall("fresh", c.app))
             found == /\ c.op = "list" /\ c.awaits = "fresh"
                      /\ \/ /\ a.status = 200 /\ c.app \in a.apps
                            /\ appsPage' = Selected(appsPage, c.app)
                            /\ net' = Follow(s, LimitsCall("onCreate", c.app))
                         \/ appsPage' = appsPage /\ net' = Done(s)
             shown == c.op = "limits" /\ appsPage' = LimitsShown(appsPage, a) /\ net' = Done(s)
             created == /\ c.op = "create"
                        /\ \/ /\ a.status = 201
                              /\ appsPage' = Loading([appsPage EXCEPT !.busy = FALSE])
                              /\ net' = Follow(s, ListCall("onCreate", a.app))
                           \/ /\ a.status # 201 /\ net' = Done(s)
                              /\ appsPage' = [appsPage EXCEPT !.busy = FALSE]
             deleted == /\ c.op = "delete"
                        /\ \/ /\ a.status = 200
                              /\ appsPage' = Loading(IF c.selected = c.app
                                                     THEN Deselected(appsPage) ELSE appsPage)
                              /\ net' = Follow(s, ListCall("onDelete", c.app))
                           \/ a.status # 200 /\ appsPage' = appsPage /\ net' = Done(s)
  <1>1. FromPage(s, "apps") /\ a.status # 0
    BY DEF AppsAnswered, Answered, AppsLoaded, CreatedListed, DeletedListed, CreatedFound,
       LimitsRead, CreatedShown, Created, Deleted, Awaits
  <1>2. list \/ found \/ shown \/ created \/ deleted
    <2>1. CASE AppsLoaded(s) \/ DeletedListed(s) \/ CreatedListed(s)
      BY <2>1 DEF AppsLoaded, DeletedListed, CreatedListed, Awaits
    <2>2. CASE CreatedFound(s)
      BY <2>2 DEF CreatedFound, Awaits
    <2>3. CASE LimitsRead(s) \/ CreatedShown(s)
      BY <2>3 DEF LimitsRead, CreatedShown, Awaits
    <2>4. CASE Created(s)
      BY <2>4 DEF Created, Awaits
    <2>5. CASE Deleted(s)
      BY <2>5 DEF Deleted, Awaits
    <2> QED
      BY <2>1, <2>2, <2>3, <2>4, <2>5 DEF AppsAnswered
  <1>3. /\ \A t \in Slots : t # s => net'[t] = net[t]
        /\ net'[s] = Vacant \/ \E d : net'[s] = Request(d) /\ d.page = "apps"
    <2>1. CASE net' = Done(s)
      BY <2>1, DoneKeeps
    <2>2. ASSUME NEW d, net' = Follow(s, d), d.page = "apps"
          PROVE  /\ \A t \in Slots : t # s => net'[t] = net[t]
                 /\ net'[s] = Request(d) /\ d.page = "apps"
      BY <2>2, FollowKeeps
    <2>3. \A w, b : ListCall(w, b).page = "apps" /\ LimitsCall(w, b).page = "apps"
      BY DEF ListCall, LimitsCall, AppsCall
    <2> QED
      BY <1>2, <2>1, <2>2, <2>3
  <1> HIDE DEF list, found, shown, created, deleted
  <1>4. Probing'
    <2>1. net'[s] = Vacant \/ net'[s].call.page \notin {"login", "left"}
      BY <1>3, RequestOf
    <2>2. \A t \in Slots : t # s => net'[t] = net[t]
      BY <1>3
    <2> QED
      BY <2>1, <2>2, ProbingSettles DEF AppsInv
  <1>5. Fields(appsPage)
    BY DEF AppsInv
  <1>6. Fields(appsPage') /\ appsPage'.waited = appsPage.waited
    <2>1. CASE list
      <3>1. appsPage' = Loaded(appsPage, a)
        BY <2>1 DEF list
      <3>2. KeepsPanel(appsPage', appsPage)
        BY <1>5, <3>1, LoadedPage
      <3> QED
        BY <3>2 DEF KeepsPanel
    <2>2. CASE found
      BY <1>5, <2>2, SelectedPage DEF found
    <2>3. CASE shown
      <3>1. ShowsAnswer(appsPage', appsPage, a)
        BY <1>5, <2>3, ShownPage DEF shown
      <3> QED
        BY <3>1 DEF ShowsAnswer
    <2>4. CASE created
      <3> DEFINE page == [appsPage EXCEPT !.busy = FALSE]
      <3>1. Fields(page) /\ page.waited = appsPage.waited
        BY <1>5 DEF Fields
      <3>2. appsPage' = page \/ appsPage' = Loading(page)
        BY <2>4 DEF created
      <3> HIDE DEF page
      <3> QED
        BY <3>1, <3>2, LoadingPage DEF KeepsPanel
    <2>5. CASE deleted
      <3> DEFINE page == IF c.selected = c.app THEN Deselected(appsPage) ELSE appsPage
      <3>1. Fields(page) /\ page.waited = appsPage.waited
        BY <1>5, SelectedPage
      <3>2. appsPage' = appsPage \/ appsPage' = Loading(page)
        BY <2>5 DEF deleted
      <3> HIDE DEF page
      <3> QED
        BY <1>5, <3>1, <3>2, LoadingPage DEF KeepsPanel
    <2> QED
      BY <1>2, <2>1, <2>2, <2>3, <2>4, <2>5
  <1>7. ASSUME appsPage'.waited, faults' = 0 PROVE OneOperation'
    <2>1. OneOperation /\ Operation(s)
      BY <1>1, <1>6, <1>7 DEF AppsInv, OneOperation
    <2>2. /\ \A t \in Slots : net[t].call.page # "gone"
          /\ \A t \in Slots : t # s => ~FromPage(t, "apps")
      BY <1>1, <2>1 DEF OneOperation
    <2>3. AtRest' /\ net' = Done(s) => OneOperation'
      <3> HAVE AtRest' /\ net' = Done(s)
      <3>1. net'[s] = Vacant /\ net'[s].call.page = "none"
        BY DoneKeeps DEF Vacant
      <3> QED
        BY <1>3, <2>2, <3>1, OneRequest DEF FromPage
    <2>4. \A d : net' = Follow(s, d) => net'[s] = Request(d)
      BY FollowKeeps
    <2>5. FromPage(s, "apps")' /\ Operation(s)' => OneOperation'
      <3> HAVE FromPage(s, "apps")' /\ Operation(s)'
      <3>1. net'[s].call.page # "gone"
        BY DEF FromPage
      <3> QED
        BY <1>3, <2>2, <3>1, OneRequest
    <2>6. CASE list
      <3>1. Listing(s)
        BY <2>1, <2>6 DEF list, Operation, Listing, ReadingLimits, Creating, Deleting
      <3>2. AtRest' /\ Sound' /\ ~appsPage'.busy
        BY <1>1, <1>5, <2>6, <3>1, ListEnds DEF list, AtRest
      <3>3. CASE net' = Follow(s, ListCall("fresh", c.app))
        BY <2>4, <2>5, <3>2, <3>3, ListAsked
      <3> QED
        BY <2>3, <2>6, <3>2, <3>3 DEF list
    <2>7. CASE found
      <3>1. Listing(s) /\ AtRest
        BY <2>1, <2>7 DEF found, Operation, Listing, ReadingLimits, Creating, Deleting
      <3>2. CASE appsPage' = appsPage /\ net' = Done(s)
        BY <2>3, <3>1, <3>2 DEF AtRest, Sound, PanelShown
      <3>3. CASE /\ a.status = 200 /\ c.app \in a.apps
                 /\ appsPage' = Selected(appsPage, c.app)
                 /\ net' = Follow(s, LimitsCall("onCreate", c.app))
        <4>1. c.app \in tokens
          BY <3>1, <3>3 DEF Listing
        <4>2. /\ appsPage'.busy = appsPage.busy /\ appsPage'.apps = appsPage.apps
              /\ appsPage'.loadState = appsPage.loadState
              /\ appsPage'.selected = c.app /\ appsPage'.limits = NoLimits
          BY <1>5, <3>3, SelectedPage
        <4>3. AtRest'
          BY <3>1, <4>1, <4>2 DEF AtRest, Sound, PanelShown
        <4>4. /\ net'[s].call = LimitsCall("onCreate", c.app) /\ net'[s].answer.status = 0
          BY <2>4, <3>3, RequestOf
        <4>5. /\ LimitsCall("onCreate", c.app).page = "apps"
              /\ LimitsCall("onCreate", c.app).op = "limits"
              /\ LimitsCall("onCreate", c.app).app = c.app
          BY DEF LimitsCall, AppsCall
        <4>6. FromPage(s, "apps")' /\ ReadingLimits(s)'
          BY <4>2, <4>3, <4>4, <4>5 DEF FromPage, ReadingLimits
        <4> QED
          BY <2>5, <4>6 DEF Operation
      <3> QED
        BY <2>7, <3>2, <3>3 DEF found
    <2>8. CASE shown
      <3>1. ReadingLimits(s)
        BY <2>1, <2>8 DEF shown, Operation, Listing, ReadingLimits, Creating, Deleting
      <3>2. AtRest'
        BY <1>5, <2>8, <3>1, ReadEnds DEF shown
      <3> QED
        BY <2>3, <2>8, <3>2 DEF shown
    <2>9. CASE created
      <3>1. Creating(s)
        BY <2>1, <2>9 DEF created, Operation, Listing, ReadingLimits, Creating, Deleting
      <3>2. a.status = 201 /\ Sound
        BY <1>1, <3>1 DEF Creating
      <3> DEFINE page == [appsPage EXCEPT !.busy = FALSE]
      <3>3. /\ Fields(page) /\ page.busy = FALSE
            /\ page.selected = appsPage.selected /\ page.limits = appsPage.limits
        BY <1>5 DEF Fields
      <3>4. appsPage' = Loading(page) /\ net' = Follow(s, ListCall("onCreate", a.app))
        BY <2>9, <3>2 DEF created
      <3> HIDE DEF page
      <3>5. KeepsPanel(appsPage', page) /\ appsPage'.busy = FALSE
        BY <3>3, <3>4, LoadingPage
      <3>6. Sound'
        BY <3>2, <3>3, <3>5 DEF Sound, PanelShown, KeepsPanel
      <3>7. net'[s] = Request(ListCall("onCreate", a.app))
        BY <2>4, <3>4
      <3> QED
        BY <2>5, <3>5, <3>6, <3>7, ListAsked
    <2>10. CASE deleted
      <3>1. Deleting(s)
        BY <2>1, <2>10 DEF deleted, Operation, Listing, ReadingLimits, Creating, Deleting
      <3>2. CASE a.status # 200
        <4>1. AtRest /\ appsPage' = appsPage /\ net' = Done(s)
          BY <2>10, <3>1, <3>2 DEF deleted, Deleting
        <4> QED
          BY <2>3, <4>1 DEF AtRest, Sound, PanelShown
      <3>3. CASE a.status = 200
        <4> DEFINE page == IF c.selected = c.app THEN Deselected(appsPage) ELSE appsPage
        <4>1. /\ c.selected = appsPage.selected /\ ~appsPage.busy
              /\ PanelShown => appsPage.limits.app = appsPage.selected
              /\ appsPage.selected \in tokens \cup {NoApp, c.app}
          BY <3>1, <3>3 DEF Deleting
        <4>2. /\ Fields(page) /\ page.busy = appsPage.busy
              /\ \/ page.selected = NoApp
                 \/ /\ page.selected = appsPage.selected /\ page.limits = appsPage.limits
                    /\ appsPage.selected \in tokens \cup {NoApp}
          BY <1>5, <4>1, SelectedPage
        <4>3. appsPage' = Loading(page) /\ net' = Follow(s, ListCall("onDelete", c.app))
          BY <2>10, <3>3 DEF deleted
        <4> HIDE DEF page
        <4>4. KeepsPanel(appsPage', page) /\ appsPage'.busy = page.busy
          BY <4>2, <4>3, LoadingPage
        <4>5. Sound' /\ ~appsPage'.busy
          BY <4>1, <4>2, <4>4 DEF Sound, PanelShown, KeepsPanel
        <4>6. net'[s] = Request(ListCall("onDelete", c.app))
          BY <2>4, <4>3
        <4> QED
          BY <2>5, <4>5, <4>6, ListAsked
      <3> QED
        BY <3>2, <3>3
    <2> QED
      BY <1>2, <2>6, <2>7, <2>8, <2>9, <2>10
  <1>8. Page' = Page
    BY DEF Page
  <1> QED
    BY <1>4, <1>6, <1>7, <1>8 DEF AppsInv

\* The server answers an operation of the page, without a fault.
ServedWell(s) ==
    /\ Serve(s) /\ net[s].cookie /\ faults' = faults /\ faults \in Nat
    /\ appsPage' = appsPage /\ net'[s].call = net[s].call
    /\ \A a : net' = Reply(s, a) => net'[s].answer = a

\* The list it answers is the table.
LEMMA ListingServed ==
    ASSUME NEW s \in Slots, Listing(s), ServedWell(s)
    PROVE  Listing(s)'
  <1>1. ListApps(s)
    BY LimitsServed DEF ServedWell, Listing, Serve, Unauthorized, ServerError, Login,
       LoginFails, Me, CreateApp, DeleteApp, QuietHours, DeviceLogin, Is
  <1>2. /\ net'[s].answer = [status |-> 200, apps |-> tokens] /\ tokens' = tokens
        /\ net'[s].call = net[s].call /\ appsPage' = appsPage
    BY <1>1 DEF ListApps, apiVars, ServedWell
  <1>3. Sound' = Sound /\ AtRest' = AtRest
    BY <1>2 DEF Sound, AtRest, PanelShown
  <1> QED
    BY <1>2, <1>3 DEF Listing

\* The limits it answers are of the app asked for.
LEMMA ReadingServed ==
    ASSUME NEW s \in Slots, ReadingLimits(s), ServedWell(s)
    PROVE  ReadingLimits(s)'
  <1>1. ServeLimits(s)
    BY DEF ServedWell, ReadingLimits, Serve, Unauthorized, ServerError, Login, LoginFails, Me,
       ListApps, CreateApp, DeleteApp, QuietHours, DeviceLogin, Is
  <1>2. /\ tokens' = tokens /\ net'[s].call = net[s].call /\ appsPage' = appsPage
    BY <1>1, LimitsServed DEF apiVars, ServedWell
  <1>3. net'[s].answer.status = 200 => net'[s].answer.limits.app = net[s].call.app
    <2>1. CASE HeaderReset(s) \/ HeaderCount(s) \/ HeaderFailsOpen(s)
      <3>1. net'[s].answer.status = 0
        BY <2>1 DEF HeaderReset, HeaderCount, HeaderFailsOpen, ServedWell
      <3> QED
        BY <3>1
    <2>2. CASE LimitsReset(s) \/ LimitsTokenFails(s)
      <3>1. net'[s].answer.status \in {0, 400}
        BY <2>2 DEF LimitsReset, LimitsTokenFails, ServedWell, Status
      <3> QED
        BY <3>1
    <2>3. CASE Limits(s)
      <3> DEFINE l == LimitsOf(net[s].call.app, count, net[s].answer.reset)
                 a == [status |-> 200, headers |-> net[s].answer.headers, limits |-> l]
      <3>1. net'[s].answer = a
        BY <2>3 DEF Limits, ServedWell
      <3>2. l.app = net[s].call.app
        BY DEF LimitsOf
      <3> QED
        BY <3>1, <3>2
    <2> QED
      BY <1>1, <2>1, <2>2, <2>3 DEF ServeLimits
  <1>4. AtRest' = AtRest
    BY <1>2 DEF Sound, AtRest, PanelShown
  <1> QED
    BY <1>2, <1>3, <1>4 DEF ReadingLimits

\* A new app leaves the panel sound.
LEMMA CreatingServed ==
    ASSUME NEW s \in Slots, Creating(s), ServedWell(s)
    PROVE  Creating(s)'
  <1>1. CreateApp(s)
    BY LimitsServed DEF ServedWell, Creating, Serve, Unauthorized, ServerError, Login,
       LoginFails, Me, ListApps, DeleteApp, QuietHours, DeviceLogin, Is
  <1>2. /\ net'[s].answer = [status |-> 201, app |-> made'] /\ tokens' = tokens \cup {made'}
        /\ net'[s].call = net[s].call /\ appsPage' = appsPage
    BY <1>1 DEF CreateApp, ServedWell
  <1>3. Sound => Sound'
    BY <1>2 DEF Sound, PanelShown
  <1> QED
    BY <1>2, <1>3 DEF Creating

\* A revoked app may still be selected until the page hears of it.
LEMMA DeletingServed ==
    ASSUME NEW s \in Slots, Deleting(s), ServedWell(s)
    PROVE  Deleting(s)'
  <1> DEFINE b    == net[s].call.app
             held == ForeignKeys /\ b \in used
  <1>1. DeleteApp(s)
    BY LimitsServed DEF ServedWell, Deleting, Serve, Unauthorized, ServerError, Login,
       LoginFails, Me, ListApps, CreateApp, QuietHours, DeviceLogin, Is
  <1>2. /\ net'[s].answer.status = IF b \notin tokens THEN 404 ELSE IF held THEN 500 ELSE 200
        /\ tokens' = IF held THEN tokens ELSE tokens \ {b}
        /\ net'[s].call = net[s].call /\ appsPage' = appsPage
    BY <1>1 DEF DeleteApp, ServedWell, Status
  <1>3. AtRest
    BY <1>1 DEF Deleting, DeleteApp, Is, Waits
  <1>4. net'[s].answer.status # 200 => tokens' = tokens
    BY <1>2
  <1>5. tokens \subseteq tokens' \cup {b}
    BY <1>2
  <1>6. net'[s].answer.status # 200 => AtRest'
    BY <1>2, <1>3, <1>4 DEF AtRest, Sound, PanelShown
  <1> QED
    BY <1>2, <1>3, <1>5, <1>6 DEF Deleting, AtRest, Sound, PanelShown

\* The server answers.
LEMMA ServedApps ==
    ASSUME Owned, SessionKnown, AppsInv, NEW s \in Slots, Served(s)
    PROVE  AppsInv'
  <1>1. /\ InFlight(s) /\ faults' \in {faults, faults + 1} /\ faults \in Nat
        /\ UNCHANGED <<appsPage, route, layout>> /\ Page' = Page
    BY ServeReplies, ServeFaults DEF Served, routeVars, SessionKnown, Page
  <1>2. /\ net'[s].call = net[s].call
        /\ \A a : net' = Reply(s, a) => net'[s].answer = a
        /\ \A t \in Slots : t # s => net'[t] = net[t]
    <2>1. PICK a : net' = Reply(s, a)
      BY ServeReplies DEF Served
    <2> QED
      BY <1>1, <2>1, ReplyKeeps
  <1>3. Probing'
    BY <1>2, ProbingSettles DEF AppsInv
  <1>4. ASSUME appsPage.waited, faults' = 0 PROVE OneOperation'
    <2>1. faults = 0 /\ OneOperation /\ Page = "apps"
      BY <1>1, <1>4 DEF AppsInv
    <2>2. CASE ~FromPage(s, "apps")
      <3>1. net[s].call.page \in {"layout", "left"}
        BY <1>1, <2>1, <2>2 DEF Owned, OwnedBy, InFlight, FromPage, OneOperation
      <3>2. net[s].call.op \in {"me", "login"}
        BY <3>1 DEF SessionKnown, Carries, AppsInv, Probing
      <3>3. tokens' = tokens
        BY <3>2, LimitsServed DEF Served, Serve, Unauthorized, ServerError, Login, LoginFails,
           Me, ListApps, CreateApp, DeleteApp, QuietHours, DeviceLogin, Is, apiVars
      <3>4. SameRequests("apps")
        BY <1>2, <2>2 DEF SameRequests, NoneNew, FromPage
      <3>5. \A t \in Slots : net'[t].call = net[t].call
        BY <1>2
      <3> QED
        BY <1>1, <2>1, <3>3, <3>4, <3>5, AppsStays
    <2>3. CASE FromPage(s, "apps")
      <3>1. Operation(s)
        BY <2>1, <2>3 DEF OneOperation
      <3>2. ServedWell(s)
        <4>1. net[s].cookie
          BY <2>1, <2>3 DEF SessionKnown, Carries, FromPage, Pages
        <4>2. Serve(s) /\ faults' = faults
          BY <1>4, <2>1 DEF Served
        <4> QED
          BY <1>1, <1>2, <4>1, <4>2 DEF ServedWell
      <3>3. Operation(s)'
        BY <3>1, <3>2, ListingServed, ReadingServed, CreatingServed, DeletingServed
           DEF Operation
      <3>4. FromPage(s, "apps")' /\ net'[s].call.page # "gone"
        BY <1>2, <2>3 DEF FromPage
      <3>5. /\ \A t \in Slots : net[t].call.page # "gone"
            /\ \A t \in Slots : t # s => ~FromPage(t, "apps")
        BY <2>1, <2>3 DEF OneOperation
      <3> QED
        BY <1>2, <3>3, <3>4, <3>5, OneRequest
    <2> QED
      BY <2>2, <2>3
  <1> QED
    BY <1>1, <1>3, <1>4 DEF AppsInv

\* The tab goes from page to page, or an answer of the layout shows one.
LEMMA NavigateApps ==
    ASSUME Owned, AppsInv, NEW n, OwnedBy(n, Page, layout), NEW r, Navigate(n, r),
           r = "apps" => \E s \in Slots : n[s] = Vacant,
           \A s \in Slots : n[s] \in {Vacant, net[s]}, UNCHANGED <<cookie, faults>>
    PROVE  AppsInv'
  <1>1. Moves
    BY NavigateMoves
  <1>2. ASSUME Page' = "apps" PROVE \E s \in Slots : FromPage(s, "apps")'
    <2>1. r = "apps" /\ layout' = "authed"
      BY <1>2 DEF Navigate, Page, PageAt
    <2>2. Mount(n, Page, "apps", MountCalls("apps"))
      BY <2>1 DEF Navigate, PageAt
    <2>3. Page \in {"login", "blank"} \cup Pages
      BY PageType DEF Owned
    <2>4. n = [s \in Slots |-> n[s]] /\ \A s \in Slots : Entry(n[s])
      BY DEF OwnedBy
    <2> QED
      BY <2>1, <2>2, <2>3, <2>4, MountAsks
  <1> QED
    BY <1>1, <1>2, AppsMoves DEF AppsInv

\* The layout has its answer.
LEMMA LayoutProbedApps ==
    ASSUME Owned, AppsInv, NEW s \in Slots, LayoutProbed(s)
    PROVE  AppsInv'
  <1>1. /\ \A t \in Slots : Done(s)[t] \in {Vacant, net[t]}
        /\ Done(s)[s] = Vacant
        /\ OwnedBy(Done(s), Page, layout)
    BY DoneOwned DEF Done, Owned, OwnedBy
  <1>2. CASE Navigate(Done(s), "login")
    BY <1>1, <1>2, NavigateApps DEF LayoutProbed, Deaf
  <1>3. CASE /\ layout' = "authed" /\ route' = route
             /\ Mount(Done(s), "blank", route, MountCalls(route))
    <2>1. Moves
      BY ProbedMoves
    <2>2. Page' = "apps" => Mount(Done(s), "blank", "apps", MountCalls("apps"))
      BY <1>3 DEF Page, PageAt
    <2>3. Done(s) = [t \in Slots |-> Done(s)[t]] /\ \A t \in Slots : Entry(Done(s)[t])
      BY <1>1 DEF OwnedBy
    <2>4. Page' = "apps" => \E t \in Slots : FromPage(t, "apps")'
      BY <1>1, <2>2, <2>3, MountAsks
    <2> QED
      BY <2>1, <2>4, AppsMoves DEF AppsInv
  <1> QED
    BY <1>2, <1>3 DEF LayoutProbed

\* Nothing that happens elsewhere touches the page.
LEMMA AppsElsewhere ==
    ASSUME AppsInv, UNCHANGED <<appsPage, route, layout>>, Probing',
           appsPage.waited /\ faults' = 0 /\ OneOperation => OneOperation',
           appsPage.waited /\ faults' = 0 => faults = 0
    PROVE  AppsInv'
  BY DEF AppsInv, Page

\* A click on another page.
LEMMA UserActsApps ==
    ASSUME Owned, AppsInv, UserActs
    PROVE  AppsInv'
  <1>1. UNCHANGED <<route, layout, tokens, faults>>
    BY DEF UserActs, routeVars, Deaf, serverVars, apiVars
  <1>2. CASE Page = "apps"
    BY <1>1, <1>2, AppsUserApps DEF UserActs
  <1>3. CASE Page # "apps"
    <2>1. appsPage' = appsPage /\ ~appsPage.waited
      BY <1>3 DEF UserActs, AppsInv
    <2>2. Probing'
      <3>1. CASE net' = net
        BY <3>1 DEF AppsInv, Probing
      <3>2. CASE net' # net
        <4>1. PICK c : HasRoom /\ net' = Send(net, {c}) /\ c.page = Page /\ Page # "login"
          BY <3>2, UserActsSend DEF UserActs
        <4>2. PICK k \in Slots : /\ net'[k] = Request(c)
                                 /\ \A t \in Slots : t # k => net'[t] = net[t]
          BY <4>1, SendKeeps
        <4>3. c.page \notin {"login", "left"}
          BY <4>1, PageType DEF Owned, Pages
        <4> QED
          BY <4>2, <4>3, RequestOf, ProbingSettles DEF AppsInv
      <3> QED
        BY <3>1, <3>2
    <2> QED
      BY <1>1, <2>1, <2>2, AppsElsewhere
  <1> QED
    BY <1>2, <1>3

\* Another page hears its answer, or nobody does.
LEMMA DoneElsewhereApps ==
    ASSUME Owned, AppsInv, NEW s \in Slots, net' = Done(s), ~FromPage(s, "apps"),
           UNCHANGED <<appsPage, route, layout, tokens, faults>>
    PROVE  AppsInv'
  <1>1. net'[s] = Vacant /\ \A t \in Slots : t # s => net'[t] = net[t]
    BY DoneKeeps
  <1>2. Probing' /\ SameRequests("apps")
    BY <1>1, ProbingSettles, SettledElsewhere DEF AppsInv
  <1>3. \A t \in Slots : net'[t].call.page = "gone" => net[t].call.page = "gone"
    BY <1>1 DEF Vacant
  <1> QED
    BY <1>2, <1>3, AppsStays, AppsElsewhere

\* The login page has its answer.
LEMMA LoginAnsweredApps ==
    ASSUME Owned, AppsInv, NEW s \in Slots, LoginAnswered(s)
    PROVE  AppsInv'
  <1>1. /\ \A t \in Slots : Done(s)[t] \in {Vacant, net[t]}
        /\ OwnedBy(Done(s), Page, layout)
    BY DoneOwned DEF Done, Owned, OwnedBy
  <1>2. UNCHANGED <<tokens, faults>> /\ ~FromPage(s, "apps")
    BY DEF LoginAnswered, serverVars, apiVars, FromPage
  <1>3. CASE Navigate(Done(s), "overview") /\ UNCHANGED cookie
    BY <1>1, <1>2, <1>3, NavigateApps
  <1>4. CASE net' = Done(s) /\ UNCHANGED <<appsPage, route, layout>>
    BY <1>2, <1>4, DoneElsewhereApps
  <1>5. CASE UNCHANGED <<net, appsPage, route, layout>>
    BY <1>2, <1>5, NetSame, AppsStays, AppsElsewhere DEF AppsInv, Probing
  <1> QED
    BY <1>3, <1>4, <1>5 DEF LoginAnswered, LoginProbed, CookieStored, LoggedIn, ToDashboard,
       Stay, pageVars, routeVars

\* No step shows a user who waits anything but the truth.
LEMMA AppsStep == Owned /\ SessionKnown /\ AppsInv /\ [Next]_vars => AppsInv'
  <1> SUFFICES ASSUME Owned, SessionKnown, AppsInv, [Next]_vars PROVE AppsInv'
    OBVIOUS
  <1>1. ASSUME UNCHANGED <<net, tokens, appsPage, route, layout>>, faults' \in {faults, faults + 1}
        PROVE  AppsInv'
    <2>1. faults' = 0 => faults = 0
      BY <1>1 DEF SessionKnown
    <2> QED
      BY <1>1, <2>1, NetSame, AppsStays, AppsElsewhere DEF AppsInv, Probing
  <1>2. ASSUME NEW valid \in BOOLEAN, OnSubmit(valid) PROVE AppsInv'
    <2>1. /\ HasRoom /\ net' = Send(net, {LoginCall(valid)}) /\ ~appsPage.waited
          /\ UNCHANGED <<appsPage, route, layout>>
      BY <1>2 DEF OnSubmit, pageVars, AppsInv
    <2>2. PICK k \in Slots : /\ net'[k] = Request(LoginCall(valid))
                             /\ \A t \in Slots : t # k => net'[t] = net[t]
      BY <2>1, SendKeeps
    <2>3. net'[k].call.op = "login"
      BY <2>2, RequestOf DEF LoginCall
    <2> QED
      BY <2>1, <2>2, <2>3, ProbingSettles, AppsElsewhere DEF AppsInv
  <1>3. ASSUME NEW r \in Pages, GoTo(r) PROVE AppsInv'
    BY <1>3, NavigateApps DEF GoTo, Owned, HasRoom, InFlight, Deaf
  <1>4. ASSUME UserActs PROVE AppsInv'
    BY <1>4, UserActsApps
  <1>5. ASSUME HomeReplaced PROVE AppsInv'
    BY <1>5, NavigateApps DEF HomeReplaced, Owned, Deaf
  <1>6. ASSUME NEW s \in Slots, Served(s) PROVE AppsInv'
    BY <1>6, ServedApps
  <1>7. ASSUME NEW s \in Slots, LoginAnswered(s) PROVE AppsInv'
    BY <1>7, LoginAnsweredApps
  <1>8. ASSUME NEW s \in Slots, LayoutProbed(s) PROVE AppsInv'
    BY <1>8, LayoutProbedApps
  <1>9. ASSUME NEW s \in Slots, PageAnswered(s) PROVE AppsInv'
    <2>1. UNCHANGED <<route, layout, tokens, faults>>
      BY <1>9 DEF PageAnswered, routeVars, Deaf, serverVars, apiVars
    <2>2. CASE AppsAnswered(s)
      BY <2>1, <2>2, AppsAnsweredApps
    <2>3. CASE ~AppsAnswered(s)
      <3>1. net' = Done(s) /\ ~FromPage(s, "apps") /\ UNCHANGED appsPage
        BY <1>9, <2>3 DEF PageAnswered, QuotaAnswered, QuietAnswered, Registered, FromPage
      <3> QED
        BY <2>1, <3>1, DoneElsewhereApps
    <2> QED
      BY <2>2, <2>3
  <1>10. ASSUME NEW s \in Slots, Unheard(s) PROVE AppsInv'
    BY <1>10, DoneElsewhereApps DEF Unheard, Stay, pageVars, routeVars, Deaf, serverVars,
       apiVars, FromPage
  <1>11. ASSUME NEW s \in Slots, Reject(s) PROVE AppsInv'
    <2>1. /\ faults' # 0 /\ UNCHANGED <<appsPage, route>>
          /\ layout' = IF FromPage(s, "layout") THEN "error" ELSE layout
      BY <1>11 DEF Reject, SessionKnown, pageVars
    <2>2. Probing'
      BY <1>11, RejectKeeps, ProbingSettles DEF AppsInv
    <2>3. Page = "apps" => Page' = "apps"
      <3>1. FromPage(s, "layout") => layout = "loading"
        BY DEF Owned, OwnedBy, FromPage, Vacant
      <3> QED
        BY <2>1, <3>1 DEF Page, PageAt
    <2> QED
      BY <2>1, <2>2, <2>3 DEF AppsInv
  <1>12. ASSUME NEW p \in Senders, Sends(p) PROVE AppsInv'
    BY <1>1, <1>12 DEF Sends, tabVars, pageVars, routeVars, SendGated, SendStored, SendRefused,
       SendCharged, SendUncharged, apiVars
  <1>13. ASSUME NEW p \in Senders, Published(p) PROVE AppsInv'
    BY <1>1, <1>13 DEF Published, routeVars, apiVars
  <1>14. ASSUME NEW i \in 1..Sources, Streams(i) PROVE AppsInv'
    BY <1>1, <1>14 DEF Streams, routeVars, serverVars, apiVars
  <1>15. ASSUME Others PROVE AppsInv'
    <2>1. CASE SessionExpires /\ UNCHANGED tabVars
      <3>1. faults' # 0 /\ UNCHANGED <<appsPage, route, layout>>
        BY <2>1 DEF SessionExpires, SessionKnown, tabVars, pageVars, routeVars
      <3>2. Probing'
        BY <2>1, ExpiryKeeps DEF AppsInv, Probing
      <3> QED
        BY <3>1, <3>2, AppsElsewhere
    <2>2. ASSUME NEW w \in Windows, OtherSaves(w) PROVE AppsInv'
      BY <1>1, <2>2 DEF OtherSaves, OtherClientSaves, routeVars
    <2>3. CASE MonthEnds /\ UNCHANGED <<net, faults, apiVars, tabVars>>
      BY <1>1, <2>3 DEF tabVars, pageVars, routeVars, apiVars
    <2> QED
      BY <1>15, <2>1, <2>2, <2>3 DEF Others
  <1>16. ASSUME UNCHANGED vars PROVE AppsInv'
    BY <1>1, <1>16 DEF vars, state, tabVars, pageVars, routeVars, serverVars, apiVars
  <1> QED
    BY <1>2, <1>3, <1>4, <1>5, <1>6, <1>7, <1>8, <1>9, <1>10, <1>11, <1>12, <1>13, <1>14,
       <1>15, <1>16 DEF Next, UserStep, Settle

\* The tab opens before the page has been visited.
LEMMA InitApps == Init => AppsInv
  <1> SUFFICES ASSUME Init PROVE AppsInv
    OBVIOUS
  <1>1. Fields(appsPage) /\ ~appsPage.waited
    BY DEF Init, AppsFresh, Fields
  <1>2. Probing
    BY InitRequests, RequestOf DEF Probing, MeCall, Vacant
  <1> QED
    BY <1>1, <1>2 DEF AppsInv

\* Without a fault, a user who waits for each operation before starting the next
\* finds the table, usable buttons, and the answer of an app that exists, whatever
\* the order of answers and the visits to other pages (apps/page.tsx:61-149).
THEOREM WaitingUserSeesTruth == Spec => []WaitingUserSeesServer
  <1>1. Init => Owned /\ SessionKnown /\ AppsInv
    BY InitOwned, InitSession, InitApps
  <1>2. Owned /\ SessionKnown /\ AppsInv /\ [Next]_vars
            => (Owned /\ SessionKnown /\ AppsInv)'
    BY OwnedStep, SessionStep, AppsStep
  <1>3. AppsInv => WaitingUserSeesServer
    BY DEF AppsInv, OneOperation, AtRest, Sound, WaitingUserSeesServer
  <1> QED
    BY <1>1, <1>2, <1>3, PTL DEF Spec

-----------------------------------------------------------------------------
(* Types.                                                                  *)

LimitsType  == [app: Apps \cup {NoApp}, count: Nat, reset: 0..MaxPeriod]
HeadersType == [count: Nat, reset: 0..MaxPeriod]

\* Answer a to an operation brings the page what its state may hold.
AnswerFits(op, a) ==
    /\ a.status \in {0, 200, 201, 400, 401, 404, 500}
    /\ op = "list" /\ a.status = 200 => a.apps \in SUBSET Apps
    /\ op = "limits" /\ "headers" \in DOMAIN a => a.headers \in HeadersType
    /\ op = "limits" /\ "reset" \in DOMAIN a => a.reset \in 0..MaxPeriod
    /\ op = "limits" /\ a.status = 200 =>
           a.limits \in LimitsType /\ a.headers \in HeadersType

\* A page that shows limits asks for those of an app, or of no valid token.
Reads(c)    == c.op = "limits" /\ c.page \in {"apps", "quota"}
CallFits(c) == Reads(c) => c.app \in Apps \cup {NoApp}

\* Limits that no page waits for may be anything.
Kind(c) == IF c.op = "limits" /\ ~Reads(c) THEN "unheard" ELSE c.op

\* A slot of the net.
EntryFits(e) ==
    e # Vacant => /\ e.cookie \in BOOLEAN /\ CallFits(e.call)
                  /\ AnswerFits(Kind(e.call), e.answer)

NetFits == cookie \in BOOLEAN /\ \A s \in Slots : EntryFits(net[s])

Screens == appsPage \in AppsState /\ quotaPage \in QuotaState /\ loginPage \in [busy: BOOLEAN]

\* Every create that is underway finds an id.
Creates == {s \in Slots : Is(s, "create")}

AccountFits ==
    /\ made \in Nat /\ made + Cardinality(Creates) <= Cardinality(Apps)
    /\ tokens \subseteq 1..made /\ used \subseteq 1..made
    /\ \A p \in Senders : sender[p] # Idle => sender[p].app \in 1..made

TypeInv == NetFits /\ Screens /\ AccountFits /\ faults \in 0..MaxFaults

\* What a step that the server has no part in does to a slot; the calls that start are
\* to operations in `ops`.
Carried(ops) ==
    \A s \in Slots :
        \/ net'[s] = Vacant
        \/ \E c : net'[s] = Request(c) /\ c.op \in ops /\ CallFits(c)
        \/ /\ InFlight(s) /\ net'[s].call.op = net[s].call.op
           /\ net'[s].call = net[s].call \/ net'[s].call.page \in {"left", "gone"}
           /\ net'[s].answer = net[s].answer /\ net'[s].cookie \in {net[s].cookie, FALSE}

\* A request that has just left has no answer.
LEMMA RequestFits ==
    ASSUME NEW c, cookie \in BOOLEAN, CallFits(c)
    PROVE  EntryFits(Request(c))
  <1>1. Request(c).cookie = cookie /\ Request(c).answer = [status |-> 0]
    BY DEF Request, Pending, Status
  <1>2. /\ [status |-> 0].status = 0
        /\ {"headers", "reset"} \cap DOMAIN [status |-> 0] = {}
    OBVIOUS
  <1> QED
    BY <1>1, <1>2, RequestOf DEF EntryFits, AnswerFits

\* So the net stays as it should be.
LEMMA CarriedFits ==
    ASSUME NetFits, NEW ops, Carried(ops), cookie' \in BOOLEAN
    PROVE  NetFits'
  <1> SUFFICES ASSUME NEW s \in Slots PROVE EntryFits(net'[s])
    BY DEF NetFits
  <1>1. CASE net'[s] = Vacant
    BY <1>1 DEF EntryFits
  <1>2. ASSUME NEW c, net'[s] = Request(c), CallFits(c) PROVE EntryFits(net'[s])
    BY <1>2, RequestFits DEF NetFits
  <1>3. CASE /\ InFlight(s) /\ net'[s].call.op = net[s].call.op
             /\ net'[s].call = net[s].call \/ net'[s].call.page \in {"left", "gone"}
             /\ net'[s].answer = net[s].answer /\ net'[s].cookie \in {net[s].cookie, FALSE}
    <2>1. /\ net[s].cookie \in BOOLEAN /\ CallFits(net[s].call)
          /\ AnswerFits(Kind(net[s].call), net[s].answer)
      BY <1>3 DEF NetFits, EntryFits, InFlight
    <2>2. CASE net'[s].call = net[s].call
      BY <1>3, <2>1, <2>2 DEF EntryFits
    <2>3. CASE net'[s].call.page \in {"left", "gone"}
      <3>1. CallFits(net'[s].call)
        BY <2>3 DEF CallFits, Reads
      <3>2. Kind(net'[s].call) \in {"unheard", Kind(net[s].call)}
        BY <1>3, <2>3 DEF Kind, Reads
      <3>3. AnswerFits("unheard", net[s].answer)
        BY <2>1 DEF AnswerFits
      <3> QED
        BY <1>3, <2>1, <3>1, <3>2, <3>3 DEF EntryFits
    <2> QED
      BY <1>3, <2>2, <2>3
  <1> QED
    BY <1>1, <1>2, <1>3 DEF Carried

\* Nothing happens to requests; one is settled, or goes on; a call takes a free slot.
LEMMA CarriedBy ==
    ASSUME Owned, NEW ops,
           \/ UNCHANGED net
           \/ \E s \in Slots : \/ net' = Done(s)
                                \/ \E c : net' = Follow(s, c) /\ c.op \in ops /\ CallFits(c)
           \/ HasRoom /\ \E c : net' = Send(net, {c}) /\ c.op \in ops /\ CallFits(c)
    PROVE  Carried(ops)
  <1>1. ASSUME NEW s \in Slots, net'[s] = net[s]
        PROVE  \/ net'[s] = Vacant
               \/ /\ InFlight(s) /\ net'[s].call = net[s].call
                  /\ net'[s].answer = net[s].answer /\ net'[s].cookie = net[s].cookie
    BY <1>1 DEF InFlight
  <1>2. CASE UNCHANGED net
    BY <1>1, <1>2 DEF Carried
  <1>3. ASSUME NEW s \in Slots, net' = Done(s) PROVE Carried(ops)
    BY <1>1, <1>3, DoneKeeps DEF Carried
  <1>4. ASSUME NEW s \in Slots, NEW c, net' = Follow(s, c), c.op \in ops, CallFits(c)
        PROVE  Carried(ops)
    BY <1>1, <1>4, FollowKeeps DEF Carried
  <1>5. ASSUME HasRoom, NEW c, net' = Send(net, {c}), c.op \in ops, CallFits(c)
        PROVE  Carried(ops)
    BY <1>1, <1>5, SendKeeps DEF Carried
  <1> QED
    BY <1>2, <1>3, <1>4, <1>5

\* A rejected request is over, or goes on for nobody.
LEMMA RejectCarried ==
    ASSUME Owned, NEW s \in Slots, Reject(s)
    PROVE  Carried({})
  <1>1. /\ net[s] = [call |-> net[s].call, cookie |-> net[s].cookie,
                     answer |-> net[s].answer]
        /\ net[s].call = [x \in DOMAIN net[s].call |-> net[s].call[x]]
        /\ {"page", "op"} \subseteq DOMAIN net[s].call
        /\ net = [t \in Slots |-> net[t]] /\ InFlight(s)
    BY DEF Reject, Owned, OwnedBy, Entry, InFlight
  <1>2. CASE net' = Done(s)
    BY <1>2, CarriedBy
  <1>3. CASE net' = [net EXCEPT ![s].call.page = "gone"]
    <2> DEFINE c == [net[s].call EXCEPT !.page = "gone"]
               r == [net[s] EXCEPT !.call = c]
    <2>1. net' = [net EXCEPT ![s] = r]
      BY <1>3
    <2>2. c.op = net[s].call.op /\ c.page = "gone"
      BY <1>1
    <2> HIDE DEF c
    <2>3. r.call = c /\ r.answer = net[s].answer /\ r.cookie = net[s].cookie
      BY <1>1
    <2> HIDE DEF r
    <2>4. net'[s] = r /\ \A t \in Slots : t # s => net'[t] = net[t]
      BY <1>1, <2>1
    <2> QED
      BY <1>1, <2>2, <2>3, <2>4 DEF Carried, InFlight
  <1> QED
    BY <1>2, <1>3 DEF Reject

\* An expiry takes the cookies of those on their way.
LEMMA ExpiryCarried ==
    ASSUME Owned, SessionExpires
    PROVE  Carried({})
  <1> SUFFICES ASSUME NEW s \in Slots
               PROVE  \/ net'[s] = Vacant
                      \/ /\ InFlight(s) /\ net'[s].call = net[s].call
                         /\ net'[s].answer = net[s].answer
                         /\ net'[s].cookie \in {net[s].cookie, FALSE}
    BY DEF Carried
  <1>1. CASE ~Waits(s)
    BY <1>1 DEF SessionExpires, InFlight
  <1>2. CASE Waits(s)
    <2>1. net[s] = [call |-> net[s].call, cookie |-> net[s].cookie,
                    answer |-> net[s].answer]
      BY <1>2 DEF Waits, Owned, OwnedBy, Entry, InFlight
    <2>2. net'[s] = [net[s] EXCEPT !.cookie = FALSE]
      BY <1>2 DEF SessionExpires
    <2> QED
      BY <1>2, <2>1, <2>2 DEF Waits
  <1> QED
    BY <1>1, <1>2

\* The router takes requests along; the page that mounts reads.
LEMMA MovesCarried ==
    ASSUME Owned, Moves
    PROVE  Carried({"me", "list"})
  <1>1. PICK calls : Left(calls) /\ \A c \in calls : c.op \in {"me", "list"}
    BY DEF Moves, MountCalls, ListCall, AppsCall, QuotaListCall, QuietMeCall, MeCall
  <1>2. Outlived
    BY DEF Moves, AppsArrive
  <1>3. PICK k : \A s \in Slots :
           \/ net'[s] = Vacant \/ net'[s].call.page \in {"left", "gone"}
           \/ net'[s] = net[s] /\ FromPage(s, "layout")
           \/ s = k /\ \E c \in calls : net'[s] = Request(c)
    BY <1>1 DEF Left
  <1>4. \A s \in Slots : FromPage(s, "layout") => InFlight(s)
    BY DEF FromPage, InFlight, Vacant
  <1>5. \A c \in calls : CallFits(c)
    BY <1>1 DEF CallFits, Reads
  <1> QED
    BY <1>1, <1>2, <1>3, <1>4, <1>5 DEF Carried, Outlived

-----------------------------------------------------------------------------
(* Types: the account.                                                     *)

\* Creates underway are slots.
LEMMA CreatesFinite ==
    /\ IsFiniteSet(Creates) /\ Cardinality(Creates) \in Nat
    /\ Cardinality(Apps) \in Nat /\ Apps = 1..Cardinality(Apps)
  <1>1. IsFiniteSet(Slots)
    <2>1. 1 \in Int /\ MaxInFlight \in Int
      BY FetchAssumption
    <2> QED
      BY <2>1, FS_Interval DEF Slots
  <1>2. Creates \subseteq Slots
    BY DEF Creates
  <1> QED
    BY <1>1, <1>2, ApiAssumption, FS_Subset, FS_CardinalityType

\* The rows of the account have ids of Apps.
LEMMA AccountIds ==
    ASSUME AccountFits
    PROVE  made \in Apps \cup {NoApp} /\ 1..made \subseteq Apps
  BY CreatesFinite DEF AccountFits, NoApp

\* No create starts.
NoneCreated == \A s \in Slots : Is(s, "create")' => Is(s, "create")

\* What goes on in the net has no new create.
LEMMA CarriedCreates ==
    ASSUME NEW ops, "create" \notin ops, Carried(ops)
    PROVE  NoneCreated
  <1> SUFFICES ASSUME NEW s \in Slots, Is(s, "create")' PROVE Is(s, "create")
    BY DEF NoneCreated
  <1>1. net'[s] # Vacant /\ net'[s].call.op = "create" /\ net'[s].answer.status = 0
    BY DEF Is, Waits, InFlight
  <1>2. \A c : net'[s] = Request(c) => c.op = "create"
    BY <1>1, RequestOf
  <1> QED
    BY <1>1, <1>2 DEF Carried, Is, Waits, InFlight

\* No create starts, none succeeds, and no row is made.
LEMMA AccountStays ==
    ASSUME AccountFits, UNCHANGED <<made, tokens, used, sender>>, NoneCreated
    PROVE  AccountFits'
  <1>1. Creates' \subseteq Creates
    BY DEF Creates, NoneCreated
  <1>2. Cardinality(Creates') \in Nat /\ Cardinality(Creates') <= Cardinality(Creates)
    BY <1>1, CreatesFinite, FS_Subset, FS_CardinalityType
  <1> QED
    BY <1>2, CreatesFinite DEF AccountFits

\* A create that starts finds an id left (apps/page.tsx:62).
LEMMA CreateStarts ==
    ASSUME Owned, AccountFits, OnCreate, UNCHANGED <<made, tokens, used, sender>>
    PROVE  AccountFits'
  <1>1. PICK k \in Slots : \A t \in Slots : t # k => net'[t] = net[t]
    <2>1. PICK c : HasRoom /\ net' = Send(net, {c})
      BY DEF OnCreate, AppsClick
    <2> QED
      BY <2>1, SendKeeps
  <1>2. Creates' \subseteq Creates \cup {k}
    BY <1>1 DEF Creates, Is, Waits, InFlight
  <1>3. IsFiniteSet(Creates \cup {k})
        /\ Cardinality(Creates \cup {k}) <= Cardinality(Creates) + 1
        /\ Cardinality(Creates \cup {k}) \in Nat
    <2>1. /\ IsFiniteSet(Creates \cup {k})
          /\ Cardinality(Creates \cup {k}) =
                IF k \in Creates THEN Cardinality(Creates) ELSE Cardinality(Creates) + 1
      BY CreatesFinite, FS_AddElement
    <2> QED
      BY <2>1, CreatesFinite, FS_CardinalityType
  <1>4. Cardinality(Creates') \in Nat
        /\ Cardinality(Creates') <= Cardinality(Creates \cup {k})
    BY <1>2, <1>3, FS_Subset, FS_CardinalityType
  <1>5. made + Cardinality(Creates) + 1 <= Cardinality(Apps)
    BY CreatesFinite DEF OnCreate, IdsLeft, Creates
  <1> QED
    BY <1>3, <1>4, <1>5, CreatesFinite DEF AccountFits

-----------------------------------------------------------------------------
(* Types: the server.                                                      *)

\* What a handler answers fits its operation.
LEMMA ServeFits ==
    ASSUME NetFits, AccountFits, QuotaTypeOK, NEW s \in Slots, Serve(s)
    PROVE  \E a : net' = Reply(s, a) /\ AnswerFits(Kind(net[s].call), a)
  <1> DEFINE op == Kind(net[s].call)
  <1>0. /\ net[s].call.op # "limits" => op = net[s].call.op
        /\ net[s].call.op = "limits" => op \in {"limits", "unheard"}
        /\ Waits(s) => /\ AnswerFits(op, net[s].answer)
                       /\ op = "limits" => net[s].call.app \in Apps \cup {NoApp}
    BY DEF Kind, Reads, CallFits, Waits, InFlight, NetFits, EntryFits
  <1> HIDE DEF op
  <1>1. /\ 0 \in 0..MaxPeriod /\ period \in 0..MaxPeriod /\ count \in Nat /\ MaxPeriod \in Nat
        /\ tokens \in SUBSET Apps
    BY QuotaAssumption, AccountIds DEF QuotaTypeOK, AccountFits
  <1>2. ASSUME NEW n \in {200, 400, 401, 404, 500}, n = 200 => op \notin {"list", "limits"}
        PROVE  AnswerFits(op, Status(n))
    BY <1>0, <1>2 DEF AnswerFits, Status
  <1>3. CASE Unauthorized(s) \/ ServerError(s) \/ Login(s) \/ LoginFails(s)
    BY <1>0, <1>2, <1>3 DEF Unauthorized, ServerError, Login, LoginFails, Is, op
  <1>4. CASE Me(s)
    <2>1. net' = Reply(s, [status |-> 200, window |-> window]) /\ op = "me"
      BY <1>0, <1>4 DEF Me, Is
    <2> QED
      BY <2>1 DEF AnswerFits, op
  <1>5. CASE ListApps(s)
    <2>1. net' = Reply(s, [status |-> 200, apps |-> tokens]) /\ op = "list"
      BY <1>0, <1>5 DEF ListApps, Is
    <2> QED
      BY <1>1, <2>1 DEF AnswerFits, op
  <1>6. CASE CreateApp(s)
    <2>1. net' = Reply(s, [status |-> 201, app |-> made']) /\ op = "create"
      BY <1>0, <1>6 DEF CreateApp, Is
    <2> QED
      BY <2>1 DEF AnswerFits, op
  <1>7. CASE DeleteApp(s)
    <2>1. op = "delete" /\ \E n \in {200, 404, 500} : net' = Reply(s, Status(n))
      BY <1>0, <1>7 DEF DeleteApp, Is
    <2> QED
      BY <1>2, <2>1 DEF op
  <1>8. \A c \in Nat, m \in 0..MaxPeriod : HeadersOf(c, m) \in HeadersType
    BY DEF HeadersOf, HeadersType
  <1>9. ASSUME NEW c \in Nat, NEW m \in 0..MaxPeriod
        PROVE  AnswerFits(op, [status |-> 0, headers |-> HeadersOf(c, m)])
    <2> DEFINE a == [status |-> 0, headers |-> HeadersOf(c, m)]
    <2>1. a.status = 0 /\ a.headers \in HeadersType /\ "reset" \notin DOMAIN a
      BY <1>8
    <2> HIDE DEF a
    <2>2. AnswerFits(op, a)
      BY <2>1 DEF AnswerFits
    <2> QED
      BY <2>2 DEF a
  <1>10. CASE HeaderReset(s)
    <2>1. AnswerFits(op, [status |-> 0, reset |-> period])
      BY <1>1 DEF AnswerFits
    <2>2. AnswerFits(op, [status |-> 0, headers |-> HeadersOf(0, period)])
      BY <1>1, <1>9
    <2> QED
      BY <1>10, <2>1, <2>2 DEF HeaderReset, op
  <1>13. CASE op = "unheard" /\ ServeLimits(s)
    <2>1. PICK a : net' = Reply(s, a) /\ a.status \in {0, 200, 400}
      BY <1>13 DEF ServeLimits, HeaderReset, HeaderCount, HeaderFailsOpen, LimitsReset,
         LimitsTokenFails, Limits, Status
    <2>2. AnswerFits(op, a)
      BY <1>13, <2>1 DEF AnswerFits
    <2> QED
      BY <2>1, <2>2 DEF op
  <1>14. CASE op = "limits" /\ (HeaderCount(s) \/ HeaderFailsOpen(s))
    <2> DEFINE m == net[s].answer.reset
    <2>1. m \in 0..MaxPeriod
      BY <1>0, <1>14 DEF HeaderCount, HeaderFailsOpen, Is, ResetTaken, AnswerFits
    <2>2. \E c \in Nat : net' = Reply(s, [status |-> 0, headers |-> HeadersOf(c, m)])
      BY <1>1, <1>14 DEF HeaderCount, HeaderFailsOpen
    <2> HIDE DEF m
    <2> QED
      BY <1>9, <2>1, <2>2 DEF op
  <1>15. CASE op = "limits" /\ (LimitsReset(s) \/ LimitsTokenFails(s))
    <2> DEFINE a == [status |-> 0, headers |-> net[s].answer.headers, reset |-> period]
    <2>1. net' = Reply(s, a) \/ net' = Reply(s, Status(400))
      BY <1>15 DEF LimitsReset, LimitsTokenFails
    <2>2. net[s].answer.headers \in HeadersType
      BY <1>0, <1>15 DEF LimitsReset, LimitsTokenFails, Is, HeaderWritten, AnswerFits
    <2>3. /\ a.status = 0 /\ a.headers \in HeadersType /\ a.reset \in 0..MaxPeriod
      BY <1>1, <2>2
    <2> HIDE DEF a
    <2>4. AnswerFits(op, a)
      BY <2>3 DEF AnswerFits
    <2>5. AnswerFits(op, Status(400))
      BY <1>2
    <2> QED
      BY <2>1, <2>4, <2>5 DEF op
  <1>16. CASE op = "limits" /\ Limits(s)
    <2> DEFINE m == net[s].answer.reset
               a == [status |-> 200, headers |-> net[s].answer.headers,
                     limits |-> LimitsOf(net[s].call.app, count, m)]
    <2>1. /\ net' = Reply(s, a) /\ net[s].call.app \in Apps \cup {NoApp}
          /\ m \in 0..MaxPeriod /\ net[s].answer.headers \in HeadersType
      BY <1>0, <1>16 DEF Limits, Is, HeaderWritten, ResetTaken, AnswerFits
    <2>2. LimitsOf(net[s].call.app, count, m) \in LimitsType
      BY <1>1, <2>1 DEF LimitsOf, LimitsType
    <2>3. /\ a.status = 200 /\ a.headers \in HeadersType /\ a.limits \in LimitsType
          /\ "reset" \notin DOMAIN a
      BY <2>1, <2>2
    <2> HIDE DEF a
    <2>4. AnswerFits(op, a)
      BY <1>16, <2>1, <2>3 DEF AnswerFits
    <2> QED
      BY <2>1, <2>4 DEF op
  <1>11. CASE QuietHours(s)
    <2>1. op = "save" /\ (net' = Reply(s, Status(400))
                          \/ \E w : net' = Reply(s, [status |-> 200, window |-> w]))
      BY <1>0, <1>11 DEF QuietHours, Is
    <2>2. \A w : AnswerFits("save", [status |-> 200, window |-> w])
      BY DEF AnswerFits
    <2>3. AnswerFits(op, Status(400))
      BY <1>2
    <2>4. CASE net' = Reply(s, Status(400))
      BY <2>3, <2>4 DEF op
    <2>5. ASSUME NEW w, net' = Reply(s, [status |-> 200, window |-> w])
          PROVE  \E a : net' = Reply(s, a) /\ AnswerFits(op, a)
      <3>1. AnswerFits(op, [status |-> 200, window |-> w])
        BY <2>1, <2>2
      <3> QED
        BY <2>5, <3>1
    <2> QED
      BY <2>1, <2>4, <2>5 DEF op
  <1>12. CASE DeviceLogin(s)
    BY <1>0, <1>2, <1>12 DEF DeviceLogin, Is, op
  <1> QED
    <2>1. ServeLimits(s) => op \in {"limits", "unheard"}
      BY <1>0, LimitsServed DEF Is
    <2> QED
      BY <1>3, <1>4, <1>5, <1>6, <1>7, <1>10, <1>11, <1>12, <1>13, <1>14, <1>15, <1>16, <2>1
         DEF Serve, ServeLimits

\* So the net stays as it should be.
LEMMA ServedNet ==
    ASSUME Owned, NetFits, AccountFits, QuotaTypeOK, NEW s \in Slots, Serve(s)
    PROVE  NetFits' /\ NoneCreated
  <1>1. Waits(s) /\ InFlight(s) /\ cookie' = cookie
    <2>1. Waits(s) /\ InFlight(s)
      BY ServeReplies
    <2>2. CASE Unauthorized(s) \/ ServerError(s) \/ Login(s) \/ LoginFails(s) \/ Me(s)
      BY <2>1, <2>2 DEF Unauthorized, ServerError, Login, LoginFails, Me, apiVars
    <2>3. CASE ListApps(s) \/ CreateApp(s) \/ DeleteApp(s)
      BY <2>1, <2>3 DEF ListApps, CreateApp, DeleteApp, apiVars
    <2>4. CASE ServeLimits(s)
      BY <2>1, <2>4, LimitsServed DEF apiVars
    <2>5. CASE QuietHours(s) \/ DeviceLogin(s)
      BY <2>1, <2>5 DEF QuietHours, DeviceLogin, apiVars
    <2> QED
      BY <2>1, <2>2, <2>3, <2>4, <2>5 DEF Serve
  <1>2. PICK a : net' = Reply(s, a) /\ AnswerFits(Kind(net[s].call), a)
    BY ServeFits
  <1>3. /\ net'[s].call = net[s].call /\ net'[s].cookie = net[s].cookie
        /\ net'[s].answer = a /\ \A t \in Slots : t # s => net'[t] = net[t]
    BY <1>1, <1>2, ReplyKeeps
  <1>4. NetFits'
    BY <1>1, <1>2, <1>3 DEF NetFits, EntryFits, InFlight
  <1>5. NoneCreated
    BY <1>1, <1>3 DEF NoneCreated, Is, Waits, InFlight
  <1> QED
    BY <1>4, <1>5

\* Rows of apps come with a create, and go with a revocation.
LEMMA ServedAccount ==
    ASSUME Owned, NetFits, AccountFits, QuotaTypeOK, NEW s \in Slots, Serve(s),
           UNCHANGED sender
    PROVE  AccountFits'
  <1>1. NoneCreated
    BY ServedNet
  <1>2. CASE UNCHANGED <<made, tokens, used>>
    BY <1>1, <1>2, AccountStays
  <1>3. CASE DeleteApp(s)
    <2>1. Creates' \subseteq Creates
      BY <1>1 DEF Creates, NoneCreated
    <2>2. Cardinality(Creates') \in Nat /\ Cardinality(Creates') <= Cardinality(Creates)
      BY <2>1, CreatesFinite, FS_Subset, FS_CardinalityType
    <2>3. UNCHANGED <<made, used, sender>> /\ tokens' \subseteq tokens
      BY <1>3 DEF DeleteApp
    <2> QED
      BY <2>2, <2>3, CreatesFinite DEF AccountFits
  <1>4. CASE CreateApp(s)
    <2>1. /\ made' = made + 1 /\ tokens' = tokens \cup {made + 1} /\ UNCHANGED <<used, sender>>
          /\ net' = Reply(s, [status |-> 201, app |-> made']) /\ Is(s, "create")
      BY <1>4 DEF CreateApp
    <2>2. net'[s].answer = [status |-> 201, app |-> made']
      BY <2>1, ReplyKeeps DEF Is, Waits
    <2>3. Creates' \subseteq Creates \ {s} /\ s \in Creates
      BY <1>1, <2>1, <2>2 DEF Creates, NoneCreated, Is, Waits
    <2>4. IsFiniteSet(Creates \ {s}) /\ Cardinality(Creates \ {s}) = Cardinality(Creates) - 1
      BY <2>3, CreatesFinite, FS_RemoveElement
    <2>5. Cardinality(Creates') \in Nat
          /\ Cardinality(Creates') <= Cardinality(Creates \ {s})
      BY <2>3, <2>4, FS_Subset, FS_CardinalityType
    <2>6. made \in Nat /\ made' + Cardinality(Creates') <= Cardinality(Apps)
      BY <2>1, <2>4, <2>5, CreatesFinite DEF AccountFits
    <2>7. 1..made \subseteq 1..made' /\ made' \in 1..made'
      BY <2>1, <2>6
    <2> QED
      BY <2>1, <2>6, <2>7 DEF AccountFits
  <1>5. CASE Unauthorized(s) \/ ServerError(s) \/ Login(s) \/ LoginFails(s) \/ Me(s)
             \/ ListApps(s) \/ ServeLimits(s) \/ DeviceLogin(s)
    BY <1>2, <1>5, LimitsServed DEF Unauthorized, ServerError, Login, LoginFails, Me, ListApps,
       DeviceLogin, apiVars
  <1>6. CASE QuietHours(s)
    BY <1>2, <1>6 DEF QuietHours
  <1> QED
    BY <1>3, <1>4, <1>5, <1>6 DEF Serve

\* A send refers to an app that was listed by its token (messages.go:283).
LEMMA SendsAccount ==
    ASSUME AccountFits, QuotaTypeOK, NEW p \in Senders, Sends(p)
    PROVE  AccountFits'
  <1>1. /\ sender \in [Senders -> SenderState]
        /\ Idle.step = "idle"
        /\ \A q \in Senders : sender[q] # Idle =>
              sender[q].app \in 1..made /\ sender[q] \in [step: {"passed", "sent"}, app: Apps,
                                                          cost: 1..MaxRecipients]
    BY DEF QuotaTypeOK, AccountFits, SenderState, Idle
  <1>2. UNCHANGED <<net, made, tokens>>
    BY DEF Sends, SendGated, SendStored, SendRefused, SendCharged, SendUncharged, apiVars
  <1>3. Creates' = Creates
    BY <1>2 DEF Creates, Is, Waits, InFlight
  <1>4. \/ UNCHANGED used
        \/ SendStored(p) /\ used' = used \cup {sender[p].app} /\ sender[p].step = "passed"
    BY DEF Sends, SendGated, SendStored, SendRefused, SendCharged, SendUncharged, apiVars,
       Ingest
  <1>5. used' \subseteq 1..made
    <2>1. CASE UNCHANGED used
      BY <2>1 DEF AccountFits
    <2>2. CASE used' = used \cup {sender[p].app} /\ sender[p].step = "passed"
      <3>1. sender[p].app \in 1..made
        BY <1>1, <2>2
      <3> QED
        BY <2>2, <3>1 DEF AccountFits
    <2> QED
      BY <1>4, <2>1, <2>2
  <1>6. \A q \in Senders : sender'[q] # Idle => sender'[q].app \in 1..made
    <2>1. ASSUME NEW a \in Apps, NEW n \in 1..MaxRecipients, SendGated(p, a, n)
          PROVE  \A q \in Senders : sender'[q] # Idle => sender'[q].app \in 1..made
      <3>1. a \in 1..made /\ sender' = [sender EXCEPT ![p] = Passed(a, n)]
        BY <2>1 DEF SendGated, Gate, AccountFits
      <3>2. Passed(a, n).app = a
        BY DEF Passed
      <3> QED
        BY <1>1, <3>1, <3>2
    <2>2. CASE SendStored(p)
      <3>1. sender[p].step = "passed" /\ sender' = [sender EXCEPT ![p].step = "sent"]
        BY <2>2 DEF SendStored, Ingest
      <3>2. /\ sender[p].app \in 1..made
            /\ sender[p] \in [step: {"passed", "sent"}, app: Apps, cost: 1..MaxRecipients]
        BY <1>1, <3>1
      <3> DEFINE r == [sender[p] EXCEPT !.step = "sent"]
      <3>3. sender' = [sender EXCEPT ![p] = r]
        BY <3>1
      <3>4. r.app = sender[p].app
        BY <3>2
      <3> HIDE DEF r
      <3>5. sender'[p] = r /\ \A q \in Senders : q # p => sender'[q] = sender[q]
        BY <1>1, <3>3
      <3> QED
        BY <1>1, <3>2, <3>4, <3>5
    <2>3. CASE SendRefused(p) \/ SendCharged(p) \/ SendUncharged(p)
      <3>1. sender' = [sender EXCEPT ![p] = Idle]
        BY <2>3 DEF SendRefused, IngestFails, SendCharged, Charge, SendUncharged, ChargeFails
      <3> QED
        BY <1>1, <3>1
    <2> QED
      BY <2>1, <2>2, <2>3 DEF Sends
  <1> QED
    BY <1>2, <1>3, <1>5, <1>6 DEF AccountFits

-----------------------------------------------------------------------------
(* Types: the pages.                                                       *)

\* What the handlers of the Apps page make of it.
LEMMA AppsPageTypes ==
    ASSUME NEW page \in AppsState
    PROVE  /\ \A b \in BOOLEAN : /\ [page EXCEPT !.busy = b] \in AppsState
                                 /\ [page EXCEPT !.waited = b] \in AppsState
           /\ Loading(page) \in AppsState /\ Deselected(page) \in AppsState
           /\ \A a \in Apps : Selected(page, a) \in AppsState
  <1>1. NoLimits \in LimitsType /\ NoHeaders \in HeadersType
    BY QuotaAssumption DEF NoLimits, NoHeaders, LimitsType, HeadersType, NoApp
  <1>2. \A b \in BOOLEAN : /\ [page EXCEPT !.busy = b] \in AppsState
                           /\ [page EXCEPT !.waited = b] \in AppsState
    BY DEF AppsState
  <1>3. Loading(page) \in AppsState
    BY DEF AppsState, Loading
  <1>4. Deselected(page) \in AppsState
    BY <1>1 DEF AppsState, Deselected, LimitsType, HeadersType
  <1>5. ASSUME NEW a \in Apps PROVE Selected(page, a) \in AppsState
    BY <1>1 DEF AppsState, Selected, LimitsType, HeadersType
  <1> QED
    BY <1>2, <1>3, <1>4, <1>5

\* What answers make of it.
LEMMA AppsAnswerTypes ==
    ASSUME NEW page \in AppsState, NEW a
    PROVE  /\ AnswerFits("list", a) => Loaded(page, a) \in AppsState
           /\ AnswerFits("limits", a) => LimitsShown(page, a) \in AppsState
  <1>1. ASSUME AnswerFits("list", a) PROVE Loaded(page, a) \in AppsState
    <2>1. CASE a.status = 200
      <3>1. a.apps \in SUBSET Apps
        BY <1>1, <2>1 DEF AnswerFits
      <3> QED
        BY <2>1, <3>1 DEF Loaded, AppsState
    <2>2. CASE a.status # 200
      BY <2>2 DEF Loaded, AppsState
    <2> QED
      BY <2>1, <2>2
  <1>2. ASSUME AnswerFits("limits", a) PROVE LimitsShown(page, a) \in AppsState
    <2>1. CASE a.status = 200
      <3>1. a.limits \in LimitsType /\ a.headers \in HeadersType
        BY <1>2, <2>1 DEF AnswerFits
      <3>2. [page EXCEPT !.limits = a.limits, !.limitHeaders = a.headers] \in AppsState
        BY <3>1 DEF AppsState, LimitsType, HeadersType
      <3> QED
        BY <2>1, <3>2 DEF LimitsShown
    <2>2. CASE a.status # 200
      BY <2>2 DEF LimitsShown
    <2> QED
      BY <2>1, <2>2
  <1> QED
    BY <1>1, <1>2

\* The Apps page hears an answer.
LEMMA AppsAnsweredType ==
    ASSUME NetFits, appsPage \in AppsState, NEW s \in Slots, AppsAnswered(s)
    PROVE  appsPage' \in AppsState
  <1> DEFINE a == net[s].answer
  <1>1. InFlight(s) /\ AnswerFits(net[s].call.op, a)
    BY DEF AppsAnswered, Answered, NetFits, EntryFits, InFlight, Kind, Reads, AppsLoaded,
       LimitsRead, Created, CreatedListed, CreatedFound, CreatedShown, Deleted, DeletedListed,
       Awaits, FromPage
  <1>2. CASE AppsLoaded(s) \/ CreatedListed(s) \/ DeletedListed(s)
    BY <1>1, <1>2, AppsAnswerTypes DEF AppsLoaded, CreatedListed, DeletedListed, Awaits
  <1>3. CASE LimitsRead(s) \/ CreatedShown(s)
    BY <1>1, <1>3, AppsAnswerTypes DEF LimitsRead, CreatedShown, Awaits
  <1>4. CASE Created(s)
    <2> DEFINE page == [appsPage EXCEPT !.busy = FALSE]
    <2>1. page \in AppsState
      BY AppsPageTypes
    <2>2. appsPage' = page \/ appsPage' = Loading(page)
      BY <1>4 DEF Created
    <2> HIDE DEF page
    <2> QED
      BY <2>1, <2>2, AppsPageTypes
  <1>5. CASE CreatedFound(s)
    <2>1. CASE appsPage' = appsPage
      BY <2>1
    <2>2. CASE /\ appsPage' = Selected(appsPage, net[s].call.app)
               /\ a.status = 200 /\ net[s].call.app \in a.apps /\ net[s].call.op = "list"
      BY <1>1, <2>2, AppsPageTypes DEF AnswerFits
    <2> QED
      BY <1>5, <2>1, <2>2 DEF CreatedFound, Awaits
  <1>6. CASE Deleted(s)
    <2>1. PICK page \in {appsPage, Deselected(appsPage)} :
             appsPage' = appsPage \/ appsPage' = Loading(page)
      BY <1>6 DEF Deleted
    <2>2. page \in AppsState
      BY <2>1, AppsPageTypes
    <2> QED
      BY <2>1, <2>2, AppsPageTypes
  <1> QED
    BY <1>2, <1>3, <1>4, <1>5, <1>6 DEF AppsAnswered

\* The user of the Apps page clicks.
LEMMA AppsUserType ==
    ASSUME appsPage \in AppsState, AppsUser
    PROVE  appsPage' \in AppsState
  <1>1. PICK page : /\ page = appsPage \/ page = [appsPage EXCEPT !.busy = TRUE]
                       \/ \E a \in Apps : page = Selected(appsPage, a)
                    /\ appsPage' = [page EXCEPT !.waited = @ /\ AppsIdle]
    BY DEF AppsUser, ShowLimits, OnCreate, OnDelete, AppsClick
  <1>2. page \in AppsState
    BY <1>1, AppsPageTypes
  <1>3. (page.waited /\ AppsIdle) \in BOOLEAN
    BY DEF AppsIdle
  <1> QED
    BY <1>1, <1>2, <1>3, AppsPageTypes

\* The Quota page hears an answer, or its user acts.
LEMMA QuotaPageType ==
    ASSUME NetFits, quotaPage \in QuotaState,
           QuotaUser \/ \E s \in Slots : QuotaAnswered(s)
    PROVE  quotaPage' \in QuotaState
  <1>1. NoLimits \in LimitsType /\ NoHeaders \in HeadersType
    BY QuotaAssumption DEF NoLimits, NoHeaders, LimitsType, HeadersType, NoApp
  <1>2. ASSUME NEW a \in Apps \cup {NoApp}, TypeToken(a) PROVE quotaPage' \in QuotaState
    BY <1>2 DEF TypeToken, QuotaState
  <1>3. CASE LoadLimits
    <2>1. quotaPage.token \in Apps \cup {NoApp}
      BY DEF QuotaState
    <2>2. quotaPage' = [quotaPage EXCEPT !.busy = TRUE, !.limits = NoLimits,
                                         !.headers = NoHeaders, !.asked = quotaPage.token]
      BY <1>3 DEF LoadLimits, Reading
    <2> QED
      BY <1>1, <2>1, <2>2 DEF QuotaState, LimitsType, HeadersType
  <1>4. ASSUME NEW s \in Slots, QuotaAnswered(s) PROVE quotaPage' \in QuotaState
    <2> DEFINE a == net[s].answer
    <2>1. AnswerFits(net[s].call.op, a)
      BY <1>4 DEF QuotaAnswered, Answered, NetFits, EntryFits, InFlight, Kind, Reads, FromPage
    <2>2. CASE quotaPage' = quotaPage
      BY <2>2
    <2>3. CASE quotaPage' = [quotaPage EXCEPT !.apps = a.apps] /\ a.apps \in SUBSET Apps
      BY <2>3 DEF QuotaState
    <2>4. CASE quotaPage' = [quotaPage EXCEPT !.busy = FALSE]
      BY <2>4 DEF QuotaState
    <2>5. CASE /\ quotaPage' = [[quotaPage EXCEPT !.busy = FALSE] EXCEPT
                                   !.limits = a.limits, !.headers = a.headers]
               /\ a.limits \in LimitsType /\ a.headers \in HeadersType
      <3> DEFINE page == [quotaPage EXCEPT !.busy = FALSE]
      <3>1. page \in QuotaState
        BY DEF QuotaState
      <3> HIDE DEF page
      <3> QED
        BY <2>5, <3>1 DEF page, QuotaState, LimitsType, HeadersType
    <2>6. CASE QuotaListed(s)
      BY <2>1, <2>2, <2>3, <2>6 DEF QuotaListed, AnswerFits
    <2>7. CASE LimitsLoaded(s)
      BY <2>1, <2>4, <2>5, <2>7 DEF LimitsLoaded, AnswerFits
    <2> QED
      BY <1>4, <2>6, <2>7 DEF QuotaAnswered
  <1> QED
    BY <1>2, <1>3, <1>4 DEF QuotaUser

-----------------------------------------------------------------------------
(* Types: every step.                                                      *)

\* Faults are counted up to their bound, the session goes with one and comes with a
\* login.
LEMMA FaultsCounted ==
    ASSUME faults \in 0..MaxFaults, cookie \in BOOLEAN, [Next]_vars
    PROVE  faults' \in 0..MaxFaults /\ cookie' \in BOOLEAN
  <1>1. MaxFaults \in Nat
    BY FetchAssumption
  <1>2. ASSUME faults' = faults \/ (MayFail /\ faults' = faults + 1)
        PROVE  faults' \in 0..MaxFaults
    BY <1>1, <1>2 DEF MayFail
  <1>3. CASE UserStep \/ HomeReplaced
    <2>1. UNCHANGED <<faults, cookie>>
      BY <1>3 DEF UserStep, HomeReplaced, OnSubmit, GoTo, UserActs, Deaf
    <2> QED
      BY <2>1
  <1>4. ASSUME NEW s \in Slots, Served(s) PROVE faults' \in 0..MaxFaults /\ cookie' = cookie
    <2>1. CASE Unauthorized(s) \/ ServerError(s) \/ Login(s) \/ LoginFails(s) \/ Me(s)
      BY <1>2, <2>1 DEF Unauthorized, ServerError, Login, LoginFails, Me, apiVars
    <2>2. CASE ListApps(s) \/ CreateApp(s) \/ DeleteApp(s)
      BY <1>2, <2>2 DEF ListApps, CreateApp, DeleteApp, apiVars
    <2>3. CASE ServeLimits(s)
      BY <1>2, <2>3, LimitsServed DEF apiVars
    <2>4. CASE QuietHours(s) \/ DeviceLogin(s)
      BY <1>2, <2>4 DEF QuietHours, DeviceLogin, apiVars
    <2> QED
      BY <1>4, <2>1, <2>2, <2>3, <2>4 DEF Served, Serve
  <1>5. ASSUME NEW s \in Slots, Settle(s)
        PROVE  faults' = faults /\ (cookie' = cookie \/ cookie' = TRUE)
    <2>1. CASE LoginAnswered(s)
      BY <2>1 DEF LoginAnswered, LoginProbed, CookieStored, LoggedIn
    <2>2. CASE LayoutProbed(s) \/ PageAnswered(s) \/ Unheard(s)
      BY <2>2 DEF LayoutProbed, PageAnswered, Unheard, Deaf
    <2> QED
      BY <1>5, <2>1, <2>2 DEF Settle
  <1>6. ASSUME NEW s \in Slots, Reject(s) PROVE faults' \in 0..MaxFaults /\ cookie' = cookie
    BY <1>2, <1>6 DEF Reject
  <1>7. ASSUME NEW p \in Senders, Sends(p) PROVE faults' \in 0..MaxFaults /\ cookie' = cookie
    BY <1>2, <1>7 DEF Sends, SendGated, SendStored, SendRefused, SendCharged, SendUncharged
  <1>8. ASSUME NEW p \in Senders, Published(p) PROVE UNCHANGED <<faults, cookie>>
    BY <1>8 DEF Published
  <1>9. ASSUME NEW i \in 1..Sources, Streams(i)
        PROVE  faults' \in 0..MaxFaults /\ cookie' = cookie
    BY <1>2, <1>9 DEF Streams
  <1>10. ASSUME Others PROVE faults' \in 0..MaxFaults /\ cookie' \in BOOLEAN
    BY <1>2, <1>10 DEF Others, SessionExpires, OtherSaves, OtherClientSaves
  <1>11. ASSUME UNCHANGED vars PROVE UNCHANGED <<faults, cookie>>
    BY <1>11 DEF vars, state
  <1> QED
    BY <1>3, <1>4, <1>5, <1>6, <1>7, <1>8, <1>9, <1>10, <1>11 DEF Next

\* Pages that mount.
LEMMA MovesScreens ==
    ASSUME Moves
    PROVE  Screens'
  <1>1. NoLimits \in LimitsType /\ NoHeaders \in HeadersType
    BY QuotaAssumption DEF NoLimits, NoHeaders, LimitsType, HeadersType, NoApp
  <1>2. AppsFresh \in AppsState /\ QuotaFresh \in QuotaState /\ LoginFresh \in [busy: BOOLEAN]
    BY <1>1 DEF AppsFresh, AppsState, QuotaFresh, QuotaState, LimitsType, HeadersType,
       LoginFresh
  <1>3. appsPage' \in AppsState
    BY <1>2, AppsPageTypes DEF Moves, AppsArrive
  <1> QED
    BY <1>2, <1>3 DEF Moves, Mounted, Screens

\* The user acts on a page; the call that starts is a create only if it is onCreate's.
LEMMA UserActsCarried ==
    ASSUME Owned, Screens, UserActs, ~(Page = "apps" /\ OnCreate)
    PROVE  Carried({"limits", "delete", "save", "register"})
  <1> DEFINE ops == {"limits", "delete", "save", "register"}
  <1>1. \/ net' = net
        \/ HasRoom /\ \E c : net' = Send(net, {c}) /\ c.op \in ops /\ CallFits(c)
    <2>1. CASE Page = "apps" /\ AppsUser
      <3>1. PICK c : HasRoom /\ net' = Send(net, {c})
                     /\ \E a \in Apps : c = LimitsCall("click", a)
                                 \/ c = AppsCall("delete", "onDelete", a, appsPage.selected)
        BY <2>1 DEF AppsUser, ShowLimits, OnDelete, AppsClick
      <3>2. \A a \in Apps : LimitsCall("click", a).op = "limits" /\ CallFits(LimitsCall("click", a))
        BY DEF LimitsCall, AppsCall, CallFits
      <3>3. \A a, b : LET d == AppsCall("delete", "onDelete", a, b)
                     IN  d.op = "delete" /\ CallFits(d)
        BY DEF AppsCall, CallFits, Reads
      <3>4. c.op \in ops /\ CallFits(c)
        BY <3>1, <3>2, <3>3
      <3> QED
        BY <3>1, <3>4
    <2>2. CASE Page = "quota" /\ QuotaUser
      <3>1. net' = net \/ \E a \in Apps \cup {NoApp} :
                              HasRoom /\ net' = Send(net, {QuotaLimitsCall(a)})
        BY <2>2 DEF QuotaUser, TypeToken, LoadLimits, Screens, QuotaState
      <3>2. \A a \in Apps \cup {NoApp} :
               QuotaLimitsCall(a).op = "limits" /\ CallFits(QuotaLimitsCall(a))
        BY DEF QuotaLimitsCall, CallFits
      <3> QED
        BY <3>1, <3>2
    <2>3. CASE Page = "quiet-hours" /\ QuietUser
      <3>1. net' = net \/ \E w, clear : HasRoom /\ net' = Send(net, {SaveCall(w, clear)})
        BY <2>3 DEF QuietUser, Save, EditForm
      <3>2. \A w, clear : SaveCall(w, clear).op = "save" /\ CallFits(SaveCall(w, clear))
        BY DEF SaveCall, CallFits, Reads
      <3> QED
        BY <3>1, <3>2
    <2>4. CASE Page = "messages" /\ MessagesUser
      <3>1. net' = net \/ (HasRoom /\ net' = Send(net, {RegisterCall}))
        BY <2>4 DEF MessagesUser, RegisterViewer, PasteCredentials, Connect, ConnectOver,
           Disconnect
      <3>2. RegisterCall.op = "register" /\ CallFits(RegisterCall)
        BY DEF RegisterCall, CallFits, Reads
      <3> QED
        BY <3>1, <3>2
    <2> QED
      BY <2>1, <2>2, <2>3, <2>4 DEF UserActs
  <1> HIDE DEF ops
  <1>2. Carried(ops)
    BY <1>1, CarriedBy
  <1> QED
    BY <1>2 DEF ops

\* A page hears an answer; its handler goes on with a read.
LEMMA PageAnsweredCarried ==
    ASSUME Owned, NetFits, NEW s \in Slots, PageAnswered(s)
    PROVE  Carried({"list", "limits"})
  <1> DEFINE ops == {"list", "limits"}
  <1>1. net' = Done(s) \/ \E c : net' = Follow(s, c) /\ c.op \in ops /\ CallFits(c)
    <2>0. FromPage(s, "apps") => net[s] # Vacant
      BY DEF FromPage, Vacant
    <2>1. CASE AppsLoaded(s) \/ LimitsRead(s) \/ CreatedShown(s) \/ DeletedListed(s)
      BY <2>1 DEF AppsLoaded, LimitsRead, CreatedShown, DeletedListed
    <2>2. CASE Created(s)
      BY <2>2 DEF Created, ListCall, AppsCall, CallFits, Reads
    <2>3. CASE CreatedListed(s)
      BY <2>3 DEF CreatedListed, ListCall, AppsCall, CallFits, Reads
    <2>4. CASE CreatedFound(s)
      <3>1. /\ AnswerFits("list", net[s].answer)
            /\ CreatedFound(s)
        BY <2>0, <2>4 DEF CreatedFound, Awaits, NetFits, EntryFits, Kind
      <3>2. CASE net' = Done(s)
        BY <3>2
      <3>3. CASE /\ net[s].answer.status = 200 /\ net[s].call.app \in net[s].answer.apps
                 /\ net' = Follow(s, LimitsCall("onCreate", net[s].call.app))
        <4>1. net[s].call.app \in Apps
          BY <3>1, <3>3 DEF AnswerFits
        <4> QED
          BY <3>3, <4>1 DEF LimitsCall, AppsCall, CallFits
      <3> QED
        BY <3>1, <3>2, <3>3 DEF CreatedFound
    <2>5. CASE Deleted(s)
      BY <2>5 DEF Deleted, ListCall, AppsCall, CallFits, Reads
    <2>6. CASE QuotaAnswered(s) \/ QuietAnswered(s) \/ Registered(s)
      BY <2>6 DEF QuotaAnswered, QuietAnswered, Registered
    <2> QED
      BY <2>1, <2>2, <2>3, <2>4, <2>5, <2>6 DEF PageAnswered, AppsAnswered
  <1> HIDE DEF ops
  <1>2. Carried(ops)
    BY <1>1, CarriedBy
  <1> QED
    BY <1>2 DEF ops

\* Every step of the tab, the server and the others.
LEMMA TypeInvStep ==
    ASSUME Owned, QuotaTypeOK, TypeInv, [Next]_vars
    PROVE  TypeInv'
  <1> DEFINE rows == UNCHANGED <<made, tokens, used, sender>>
             pages == UNCHANGED <<appsPage, quotaPage, loginPage>>
  <1>1. faults' \in 0..MaxFaults /\ cookie' \in BOOLEAN
    BY FaultsCounted DEF TypeInv, NetFits
  <1>2. ASSUME NEW ops, "create" \notin ops, Carried(ops), rows, Screens' PROVE TypeInv'
    BY <1>1, <1>2, CarriedFits, CarriedCreates, AccountStays DEF TypeInv
  <1>3. pages => Screens'
    BY DEF TypeInv, Screens
  <1>4. ASSUME UNCHANGED net, rows, pages PROVE TypeInv'
    <2>1. Carried({})
      BY <1>4, CarriedBy
    <2> QED
      BY <1>2, <1>3, <1>4, <2>1
  <1>5. ASSUME Moves, rows PROVE TypeInv'
    BY <1>2, <1>5, MovesCarried, MovesScreens
  <1>6. ASSUME NEW valid \in BOOLEAN, OnSubmit(valid) PROVE TypeInv'
    <2>1. /\ HasRoom /\ net' = Send(net, {LoginCall(valid)})
          /\ LoginCall(valid).op = "login" /\ CallFits(LoginCall(valid))
      BY <1>6 DEF OnSubmit, LoginCall, CallFits, Reads
    <2>2. Carried({"login"})
      BY <2>1, CarriedBy
    <2>3. rows /\ Screens'
      BY <1>6 DEF OnSubmit, Deaf, serverVars, apiVars, quotaVars, pageVars, TypeInv, Screens
    <2> QED
      BY <1>2, <2>2, <2>3
  <1>7. ASSUME NEW r \in Pages, GoTo(r) PROVE TypeInv'
    BY <1>5, <1>7, NavigateMoves DEF GoTo, Owned, Deaf, serverVars, apiVars, quotaVars
  <1>8. ASSUME HomeReplaced PROVE TypeInv'
    BY <1>5, <1>8, NavigateMoves DEF HomeReplaced, Owned, Deaf, serverVars, apiVars, quotaVars
  <1>9. ASSUME UserActs PROVE TypeInv'
    <2>1. rows /\ UNCHANGED loginPage
      BY <1>9 DEF UserActs, Deaf, serverVars, apiVars, quotaVars, routeVars
    <2>2. Screens'
      <3>1. appsPage' \in AppsState
        BY <1>9, AppsUserType DEF UserActs, TypeInv, Screens
      <3>2. quotaPage' \in QuotaState
        BY <1>9, QuotaPageType DEF UserActs, TypeInv, Screens
      <3> QED
        BY <2>1, <3>1, <3>2 DEF TypeInv, Screens
    <2>3. CASE Page = "apps" /\ OnCreate
      <3>1. AccountFits'
        BY <2>1, <2>3, CreateStarts DEF TypeInv
      <3>2. Carried({"create"})
        <4> DEFINE c == AppsCall("create", "onCreate", NoApp, NoApp)
        <4>1. HasRoom /\ net' = Send(net, {c})
          BY <2>3 DEF OnCreate, AppsClick
        <4>2. c.op = "create" /\ CallFits(c)
          BY DEF AppsCall, CallFits, Reads
        <4> QED
          BY <4>1, <4>2, CarriedBy
      <3> QED
        BY <1>1, <2>2, <3>1, <3>2, CarriedFits DEF TypeInv
    <2> QED
      BY <1>2, <1>9, <2>1, <2>2, <2>3, UserActsCarried DEF TypeInv
  <1>10. ASSUME NEW s \in Slots, Served(s) PROVE TypeInv'
    <2>1. Serve(s) /\ UNCHANGED sender /\ pages
      BY <1>10 DEF Served, quotaVars, routeVars
    <2> QED
      BY <1>1, <1>3, <2>1, ServedNet, ServedAccount DEF TypeInv
  <1>11. ASSUME NEW s \in Slots, LoginAnswered(s) PROVE TypeInv'
    <2>1. rows
      BY <1>11 DEF LoginAnswered, serverVars, apiVars, quotaVars
    <2>2. CASE ~Moves
      <3>1. /\ net' = Done(s) \/ UNCHANGED net
            /\ UNCHANGED pageVars
            /\ UNCHANGED loginPage \/ loginPage' = [busy |-> FALSE]
        BY <1>11, <2>2, LoginAnsweredMoves DEF pageVars
      <3>2. Carried({})
        BY <3>1, CarriedBy
      <3>3. UNCHANGED <<appsPage, quotaPage>> /\ [busy |-> FALSE] \in [busy: BOOLEAN]
        BY <3>1 DEF pageVars
      <3>4. Screens'
        BY <3>1, <3>3 DEF TypeInv, Screens
      <3> QED
        BY <1>2, <2>1, <3>2, <3>4
    <2> QED
      BY <1>5, <2>1, <2>2
  <1>12. ASSUME NEW s \in Slots, LayoutProbed(s) PROVE TypeInv'
    BY <1>5, <1>12, ProbedMoves DEF LayoutProbed, Deaf, serverVars, apiVars, quotaVars
  <1>13. ASSUME NEW s \in Slots, PageAnswered(s) PROVE TypeInv'
    <2>1. rows /\ UNCHANGED loginPage
      BY <1>13 DEF PageAnswered, Deaf, serverVars, apiVars, quotaVars, routeVars
    <2>2. appsPage' \in AppsState
      BY <1>13, AppsAnsweredType DEF PageAnswered, TypeInv, Screens
    <2>3. quotaPage' \in QuotaState
      BY <1>13, QuotaPageType DEF PageAnswered, TypeInv, Screens
    <2> QED
      BY <1>2, <1>13, <2>1, <2>2, <2>3, PageAnsweredCarried DEF TypeInv, Screens
  <1>14. ASSUME NEW s \in Slots, Unheard(s) PROVE TypeInv'
    <2>1. net' = Done(s) /\ rows /\ pages
      BY <1>14 DEF Unheard, Stay, pageVars, routeVars, Deaf, serverVars, apiVars, quotaVars
    <2>2. Carried({})
      BY <2>1, CarriedBy
    <2> QED
      BY <1>2, <1>3, <2>1, <2>2
  <1>15. ASSUME NEW s \in Slots, Reject(s) PROVE TypeInv'
    <2>1. rows /\ Screens'
      BY <1>15 DEF Reject, serverVars, apiVars, quotaVars, pageVars, TypeInv, Screens
    <2> QED
      BY <1>2, <1>15, <2>1, RejectCarried
  <1>16. ASSUME NEW p \in Senders, Sends(p) PROVE TypeInv'
    <2>1. UNCHANGED net /\ pages
      BY <1>16 DEF Sends, SendGated, SendStored, SendRefused, SendCharged, SendUncharged,
         tabVars, pageVars, routeVars
    <2>2. Carried({})
      BY <2>1, CarriedBy
    <2> QED
      BY <1>1, <1>3, <1>16, <2>1, <2>2, CarriedFits, SendsAccount DEF TypeInv
  <1>17. ASSUME NEW p \in Senders, Published(p) PROVE TypeInv'
    BY <1>4, <1>17 DEF Published, apiVars, quotaVars, routeVars
  <1>18. ASSUME NEW i \in 1..Sources, Streams(i) PROVE TypeInv'
    BY <1>4, <1>18 DEF Streams, serverVars, apiVars, quotaVars, routeVars
  <1>19. ASSUME Others PROVE TypeInv'
    <2>1. CASE SessionExpires /\ UNCHANGED <<tabVars, quotaVars, posting>>
      <3>1. rows /\ pages
        BY <2>1 DEF SessionExpires, apiVars, quotaVars, tabVars, pageVars, routeVars
      <3> QED
        BY <1>2, <1>3, <2>1, <3>1, ExpiryCarried
    <2>2. ASSUME NEW w \in Windows, OtherSaves(w) PROVE TypeInv'
      BY <1>4, <2>2 DEF OtherSaves, OtherClientSaves, quotaVars, routeVars
    <2>3. CASE MonthEnds /\ UNCHANGED <<net, apiVars, tabVars>>
      BY <1>4, <2>3 DEF MonthEnds, apiVars, tabVars, pageVars, routeVars
    <2> QED
      BY <1>19, <2>1, <2>2, <2>3 DEF Others
  <1>20. ASSUME UNCHANGED vars PROVE TypeInv'
    BY <1>4, <1>20 DEF vars, state, tabVars, pageVars, routeVars, serverVars, apiVars, quotaVars
  <1> QED
    BY <1>6, <1>7, <1>8, <1>9, <1>10, <1>11, <1>12, <1>13, <1>14, <1>15, <1>16, <1>17, <1>18,
       <1>19, <1>20 DEF Next, UserStep, Settle

\* The tab opens with at most one request, on an account with one app or none.
LEMMA InitTypeInv == Init => TypeInv
  <1> SUFFICES ASSUME Init PROVE TypeInv
    OBVIOUS
  <1>1. /\ cookie \in BOOLEAN /\ faults = 0 /\ made \in {0, 1} /\ tokens = 1..made /\ used = {}
        /\ sender = [p \in Senders |-> Idle]
    BY DEF Init, ApiInit, QuotaInit
  <1>2. \A s \in Slots : net[s] = Vacant \/ \E c : net[s] = Request(c) /\ c.op = "me"
    <2>1. \A p : MeCall(p).op = "me"
      BY DEF MeCall
    <2> QED
      BY <2>1, InitRequests
  <1>3. NetFits
    BY <1>1, <1>2, RequestFits DEF NetFits, EntryFits, CallFits, Reads
  <1>4. Screens
    <2>1. NoLimits \in LimitsType /\ NoHeaders \in HeadersType
      BY QuotaAssumption DEF NoLimits, NoHeaders, LimitsType, HeadersType, NoApp
    <2>2. AppsFresh \in AppsState /\ QuotaFresh \in QuotaState /\ LoginFresh \in [busy: BOOLEAN]
      BY <2>1 DEF AppsFresh, AppsState, QuotaFresh, QuotaState, LimitsType, HeadersType,
         LoginFresh
    <2> QED
      BY <2>2 DEF Init, Screens
  <1>5. AccountFits
    <2>1. Creates = {}
      BY <1>2, RequestOf DEF Creates, Is, Waits, InFlight
    <2>2. Cardinality(Creates) = 0
      BY <2>1, FS_EmptySet
    <2>3. Cardinality(Apps) >= 1
      BY CreatesFinite, ApiAssumption
    <2> QED
      BY <1>1, <2>2, <2>3, CreatesFinite DEF AccountFits
  <1> QED
    BY <1>1, <1>3, <1>4, <1>5, FetchAssumption DEF TypeInv

\* The list of events is a function on an interval.
LEMMA EventsType == ScreenShape => messagesPage \in MessagesState
  <1> SUFFICES ASSUME ScreenShape PROVE messagesPage \in MessagesState
    OBVIOUS
  <1>1. EventCap \in Nat
    BY MessagesAssumption
  <1> DEFINE q == messagesPage.events
  <1>2. q \in Seq(Ids) /\ Len(q) \in 0..EventCap
    BY <1>1 DEF ScreenShape
  <1>3. q \in [1..Len(q) -> Ids]
    BY <1>2
  <1>4. q \in UNION {[1..n -> Ids] : n \in 0..EventCap}
    BY <1>2, <1>3
  <1> QED
    BY <1>4 DEF ScreenShape, MessagesState

\* Routes, pages, account and requests have their types: whatever answers reach a page
\* in whatever order, it shows apps, limits and settings that the server may hold
\* (apps/page.tsx, quota/page.tsx, quiet-hours/page.tsx, internal/api/apps.go).
THEOREM DashboardTypeCorrect == Spec => []TypeOK
  <1>1. Init => /\ Owned /\ TypeInv /\ QuietInv /\ StreamInv /\ ListInv /\ PostingStored
    BY InitOwned, InitTypeInv, InitQuiet, InitStreams, InitList
  <1>2. /\ Owned /\ QuotaTypeOK /\ TypeInv /\ QuietInv /\ StreamInv /\ ListInv /\ PostingStored
        /\ [Next]_vars
        => (Owned /\ TypeInv /\ QuietInv /\ StreamInv /\ ListInv /\ PostingStored)'
    BY OwnedStep, TypeInvStep, QuietStep, StreamsStep, ListStep, PostingStep
  <1>3. Spec => []QuotaTypeOK
    BY ImplementsQuotaGate, QuotaTypeCorrect, PTL
  <1>4. ASSUME Owned, QuotaTypeOK, TypeInv, QuietInv, ListInv, PostingStored
        PROVE  TypeOK
    <2>1. NetTypeOK
      <3> SUFFICES ASSUME NEW s \in Slots, InFlight(s)
                   PROVE  /\ net[s].cookie \in BOOLEAN
                          /\ net[s].answer.status \in {0, 200, 201, 400, 401, 404, 500}
                          /\ net[s].call.page \in {"login", "left", "layout", "gone"} \cup Pages
        BY DEF NetTypeOK
      <3>1. Page \in {"login", "blank"} \cup Pages
        BY <1>4, PageType DEF Owned
      <3>2. /\ net[s].call.page \in {Page, "layout", "left", "gone"}
            /\ net[s].call.page # "blank"
        BY <1>4 DEF Owned, OwnedBy, Entry, InFlight
      <3>3. net[s].cookie \in BOOLEAN
            /\ net[s].answer.status \in {0, 200, 201, 400, 401, 404, 500}
        BY <1>4 DEF TypeInv, NetFits, EntryFits, AnswerFits, InFlight
      <3> QED
        BY <3>1, <3>2, <3>3
    <2>2. messagesPage \in MessagesState /\ log \in 0..MaxMessages
      BY <1>4, EventsType DEF ListInv, SourcesAscend
    <2>3. /\ tokens \subseteq 1..made /\ made \in Apps \cup {NoApp} /\ used \subseteq 1..made
      BY <1>4, AccountIds DEF TypeInv, AccountFits
    <2> QED
      BY <1>4, <2>1, <2>2, <2>3
         DEF TypeOK, TypeInv, NetFits, Screens, QuietInv, PostingStored, Owned, Routed
  <1> QED
    BY <1>1, <1>2, <1>3, <1>4, PTL DEF Spec
=============================================================================
