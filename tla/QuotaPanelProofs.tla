------------------------- MODULE QuotaPanelProofs -------------------------
(***************************************************************************)
(* What the quota panels of the Apps and the Quota page say, for every     *)
(* value of Dashboard's constants.  A counter only grows within a month,   *)
(* so whatever was read of it is a lower bound until the month ends,       *)
(* however long the answer travels and however many others are underway.   *)
(***************************************************************************)
EXTENDS DashboardProofs

\* r was read from the counter that stands at c in month p, then or earlier.  Its
\* reset is no newer than its count: a reset taken before a month ends may stand
\* beside the count of the month after.
Past(r, c, p) ==
    /\ r.count \in Nat /\ r.reset \in Nat
    /\ r.reset <= p
    /\ r.reset = p => r.count <= c

\* The header h was read before the body l, as long as both are of this month.
ReadInOrder(h, l, c, p) ==
    /\ Past(h, c, p) /\ Past(l, c, p)
    /\ h.reset = p /\ l.reset = p => h.count <= l.count

\* What an answer for limits says so far.
SaysPast(a, c, p) ==
    /\ "headers" \in DOMAIN a => Past(a.headers, c, p)
    /\ "reset" \in DOMAIN a => a.reset \in Nat /\ a.reset <= p
    /\ a.status = 200 => ReadInOrder(a.headers, a.limits, c, p)

AnswerPast(e, c, p) ==
    e # Vacant /\ e.call.op = "limits" => SaysPast(e.answer, c, p)

NetPast(n, c, p) == \A s \in Slots : AnswerPast(n[s], c, p)

PanelsPast(ap, qp, c, p) ==
    /\ {"limits", "limitHeaders"} \subseteq DOMAIN ap
    /\ {"limits", "headers"} \subseteq DOMAIN qp
    /\ ReadInOrder(ap.limitHeaders, ap.limits, c, p)
    /\ ReadInOrder(qp.headers, qp.limits, c, p)

LimitsPast ==
    /\ QuotaTypeOK
    /\ NetPast(net, count, period)
    /\ PanelsPast(appsPage, quotaPage, count, period)

-----------------------------------------------------------------------------
\* The counter grows, or a new month starts.
LEMMA CounterGrows ==
    ASSUME QuotaTypeOK, [QuotaNext]_quotaVars
    PROVE  /\ count \in Nat /\ count' \in Nat /\ period \in Nat /\ period' \in Nat
           /\ \/ period' = period /\ count' >= count
              \/ period' > period
  <1>1. QuotaTypeOK'
    BY TypeStep
  <1>2. period \in Nat /\ period' \in Nat /\ count \in Nat /\ count' \in Nat
    BY <1>1, QuotaAssumption DEF QuotaTypeOK
  <1>3. \/ UNCHANGED <<count, period>>
        \/ \E p \in Senders : Charge(p)
        \/ period' = period + 1
    BY DEF QuotaNext, quotaVars, Gate, Ingest, IngestFails, ChargeFails, MonthEnds
  <1>4. ASSUME NEW p \in Senders, Charge(p) PROVE count' >= count /\ period' = period
    <2>1. p \in Uncharged
      BY <1>4 DEF Charge, Uncharged, Idle
    <2>2. sender[p].cost \in Nat
      BY <2>1, CostType
    <2> QED
      BY <1>2, <1>4, <2>2 DEF Charge
  <1> QED
    BY <1>2, <1>3, <1>4

\* So what was read stays a lower bound.
LEMMA PastStays ==
    ASSUME QuotaTypeOK, [QuotaNext]_quotaVars, NEW r, Past(r, count, period)
    PROVE  Past(r, count', period')
  BY CounterGrows DEF Past

\* And so does a header with its body.
LEMMA ReadingStays ==
    ASSUME QuotaTypeOK, [QuotaNext]_quotaVars, NEW h, NEW l,
           ReadInOrder(h, l, count, period)
    PROVE  ReadInOrder(h, l, count', period')
  BY PastStays, CounterGrows DEF ReadInOrder, Past

\* And so does an answer, as far as it goes.
LEMMA AnswerStays ==
    ASSUME QuotaTypeOK, [QuotaNext]_quotaVars, NEW a, SaysPast(a, count, period)
    PROVE  SaysPast(a, count', period')
  <1>1. "reset" \in DOMAIN a => a.reset \in Nat /\ a.reset <= period'
    BY CounterGrows DEF SaysPast
  <1> QED
    BY <1>1, PastStays, ReadingStays DEF SaysPast

\* Requests and panels stay as they are while the counter moves.
LEMMA QuietLimits ==
    ASSUME LimitsPast, [QuotaNext]_quotaVars, UNCHANGED <<appsPage, quotaPage>>,
           \A s \in Slots : /\ net'[s] = Vacant <=> net[s] = Vacant
                            /\ net'[s].call = net[s].call
                            /\ net'[s].answer = net[s].answer
    PROVE  LimitsPast'
  <1>1. QuotaTypeOK'
    BY TypeStep DEF LimitsPast
  <1>2. NetPast(net, count', period')
    BY AnswerStays DEF LimitsPast, NetPast, AnswerPast
  <1>3. NetPast(net', count', period')
    BY <1>2 DEF NetPast, AnswerPast
  <1>4. PanelsPast(appsPage', quotaPage', count', period')
    BY ReadingStays DEF LimitsPast, PanelsPast
  <1> QED
    BY <1>1, <1>3, <1>4 DEF LimitsPast

\* Nothing read, nothing shown.
LEMMA NothingRead ==
    ASSUME QuotaTypeOK
    PROVE  /\ ReadInOrder(NoHeaders, NoLimits, count, period)
           /\ PanelsPast(AppsFresh, QuotaFresh, count, period)
           /\ \A n : PanelsPast(AppsMounted(n), QuotaFresh, count, period)
  <1>1. count \in Nat /\ period \in Nat
    BY QuotaAssumption DEF QuotaTypeOK
  <1>2. ReadInOrder(NoHeaders, NoLimits, count, period)
    BY <1>1 DEF ReadInOrder, Past, NoHeaders, NoLimits
  <1>3. /\ AppsFresh.limitHeaders = NoHeaders /\ AppsFresh.limits = NoLimits
        /\ {"limits", "limitHeaders"} \subseteq DOMAIN AppsFresh
        /\ QuotaFresh.headers = NoHeaders /\ QuotaFresh.limits = NoLimits
        /\ {"limits", "headers"} \subseteq DOMAIN QuotaFresh
    BY DEF AppsFresh, QuotaFresh
  <1>4. \A n : /\ AppsMounted(n).limitHeaders = NoHeaders
               /\ AppsMounted(n).limits = NoLimits
               /\ {"limits", "limitHeaders"} \subseteq DOMAIN AppsMounted(n)
    BY DEF AppsMounted, AppsFresh
  <1> QED
    BY <1>2, <1>3, <1>4 DEF PanelsPast

-----------------------------------------------------------------------------
(* What happens to requests.                                               *)

\* A request that has just left is not answered.
LEMMA RequestPast ==
    ASSUME NEW c, NEW k, NEW p
    PROVE  AnswerPast(Request(c), k, p)
  BY DEF AnswerPast, SaysPast, Request, Pending, Status

\* An empty slot has read nothing.
LEMMA VacantPast == \A k, p : AnswerPast(Vacant, k, p)
  BY DEF AnswerPast

\* Sending adds a request without an answer.
LEMMA SendPast ==
    ASSUME NEW n, n = [s \in Slots |-> n[s]], NEW calls, NEW k, NEW p,
           NetPast(n, k, p), NEW m, m = Send(n, calls)
    PROVE  NetPast(m, k, p)
  <1>1. PICK c, j : \A s \in Slots :
           m[s] = n[s] \/ (s = j /\ c \in calls /\ m[s] = Request(c))
    BY SendSlots
  <1> QED
    BY <1>1, RequestPast DEF NetPast

\* A slot is emptied, or taken by the next call of its handler.
LEMMA SettlePast ==
    ASSUME NetPast(net, count, period), net = [s \in Slots |-> net[s]], NEW s \in Slots,
           NEW m, m = Done(s) \/ \E c : m = Follow(s, c)
    PROVE  NetPast(m, count, period) /\ m = [t \in Slots |-> m[t]]
  <1>1. CASE m = Done(s)
    BY <1>1, VacantPast DEF NetPast, Done
  <1>2. ASSUME NEW c, m = Follow(s, c) PROVE NetPast(m, count, period) /\ m = [t \in Slots |-> m[t]]
    BY <1>2, RequestPast DEF NetPast, Follow
  <1> QED
    BY <1>1, <1>2

\* A request that outlives its page keeps its answer.
LEMMA OutlivedPast ==
    ASSUME NEW e, Entry(e), e # Vacant, NEW x, NEW k, NEW p, AnswerPast(e, k, p),
           NEW f, f = [e EXCEPT !.call.page = x]
    PROVE  AnswerPast(f, k, p)
  <1> DEFINE c == [e.call EXCEPT !.page = x]
  <1>1. /\ e = [call |-> e.call, cookie |-> e.cookie, answer |-> e.answer]
        /\ {"page", "op"} \subseteq DOMAIN e.call
        /\ e.call = [y \in DOMAIN e.call |-> e.call[y]]
    BY DEF Entry
  <1>2. f = [e EXCEPT !.call = c]
    OBVIOUS
  <1>3. c.op = e.call.op
    BY <1>1
  <1> HIDE DEF c
  <1>4. f.call.op = e.call.op /\ f.answer = e.answer
    BY <1>1, <1>2, <1>3
  <1> QED
    BY <1>4 DEF AnswerPast

\* Nor does leaving a page change answers.
LEMMA AbandonPast ==
    ASSUME NEW n, \A s \in Slots : Entry(n[s]), NEW leaving, "none" \notin leaving,
           NEW k, NEW p, NetPast(n, k, p), NEW m, m = Abandon(n, leaving)
    PROVE  NetPast(m, k, p) /\ m = [s \in Slots |-> m[s]]
  <1>1. m = [s \in Slots |-> m[s]]
    BY DEF Abandon
  <1>2. ASSUME NEW s \in Slots PROVE AnswerPast(m[s], k, p)
    <2> DEFINE e == n[s]
               x == IF e.call.page = "login" THEN "left" ELSE "gone"
    <2>1. \/ m[s] = e \/ m[s] = Vacant
          \/ m[s] = [e EXCEPT !.call.page = x] /\ e.call.page \in leaving
      BY DEF Abandon
    <2>2. e.call.page \in leaving => e # Vacant
      BY DEF Vacant
    <2>3. Entry(e) /\ AnswerPast(e, k, p)
      BY DEF NetPast
    <2> HIDE DEF e, x
    <2> QED
      BY <2>1, <2>2, <2>3, OutlivedPast, VacantPast
  <1> QED
    BY <1>1, <1>2 DEF NetPast

-----------------------------------------------------------------------------
(* Steps of the tab.  The counter stands still.                            *)

\* What a page mounts with: no answers, and panels that show nothing.
LEMMA MountPast ==
    ASSUME QuotaTypeOK, UNCHANGED quotaVars, NEW n, \A s \in Slots : Entry(n[s]),
           NetPast(n, count, period), NEW old, old # "none", NEW new, NEW calls,
           Mount(n, old, new, calls)
    PROVE  LimitsPast'
  <1> DEFINE left == Abandon(n, {old} \cup (IF new = "login" THEN {"layout"} ELSE {}))
  <1>1. NetPast(left, count, period) /\ left = [s \in Slots |-> left[s]]
    BY AbandonPast
  <1>2. net' = Send(left, calls)
    BY DEF Mount
  <1>3. /\ appsPage' = IF new = "apps" THEN AppsMounted(left) ELSE AppsFresh
        /\ quotaPage' = QuotaFresh
    BY DEF Mount
  <1> HIDE DEF left
  <1>4. left = [s \in Slots |-> left[s]]
    BY <1>1
  <1>5. NetPast(net', count, period)
    BY <1>1, <1>2, <1>4, SendPast
  <1>6. PanelsPast(appsPage', quotaPage', count, period)
    BY <1>3, NothingRead
  <1>7. count' = count /\ period' = period /\ QuotaTypeOK'
    BY DEF quotaVars, QuotaTypeOK
  <1> QED
    BY <1>5, <1>6, <1>7 DEF LimitsPast

\* The router moves.
LEMMA NavigatePast ==
    ASSUME Owned, QuotaTypeOK, UNCHANGED quotaVars, NEW n, \A s \in Slots : Entry(n[s]),
           NetPast(n, count, period), NEW r, Navigate(n, r)
    PROVE  LimitsPast'
  <1>1. Page # "none"
    BY PageType DEF Owned, Pages
  <1> QED
    BY <1>1, MountPast DEF Navigate

\* The panels stay, whatever becomes of the requests.
LEMMA SamePanels ==
    ASSUME LimitsPast, UNCHANGED quotaVars, UNCHANGED <<appsPage, quotaPage>>,
           NetPast(net', count, period)
    PROVE  LimitsPast'
  BY DEF LimitsPast, quotaVars, QuotaTypeOK

\* One of the panels changes, to nothing or to an answer for limits.
LEMMA PanelMoves ==
    ASSUME LimitsPast, UNCHANGED quotaVars, NetPast(net', count, period),
           \/ appsPage' = appsPage
           \/ /\ {"limits", "limitHeaders"} \subseteq DOMAIN appsPage'
              /\ ReadInOrder(appsPage'.limitHeaders, appsPage'.limits, count, period),
           \/ quotaPage' = quotaPage
           \/ /\ {"limits", "headers"} \subseteq DOMAIN quotaPage'
              /\ ReadInOrder(quotaPage'.headers, quotaPage'.limits, count, period)
    PROVE  LimitsPast'
  <1>1. PanelsPast(appsPage', quotaPage', count, period)
    BY DEF LimitsPast, PanelsPast
  <1> QED
    BY <1>1 DEF LimitsPast, quotaVars, QuotaTypeOK

\* The panels of p and q show the same, and have the fields for it.
SamePanel(p, q) ==
    /\ {"limits", "limitHeaders"} \subseteq DOMAIN q
    /\ q.limits = p.limits /\ q.limitHeaders = p.limitHeaders

\* q shows nothing.
EmptyPanel(q) ==
    /\ {"limits", "limitHeaders"} \subseteq DOMAIN q
    /\ q.limits = NoLimits /\ q.limitHeaders = NoHeaders

\* What the handlers of the Apps page do between two awaits, to the panel.
LEMMA HandlersOnPanel ==
    ASSUME NEW page, {"limits", "limitHeaders"} \subseteq DOMAIN page
    PROVE  /\ \A a : SamePanel(page, Loaded(page, a))
           /\ SamePanel(page, Loading(page))
           /\ \A a : EmptyPanel(Selected(page, a))
           /\ EmptyPanel(Deselected(page))
           /\ \A a : \/ SamePanel(page, LimitsShown(page, a))
                     \/ /\ a.status = 200
                        /\ {"limits", "limitHeaders"} \subseteq DOMAIN LimitsShown(page, a)
                        /\ LimitsShown(page, a).limits = a.limits
                        /\ LimitsShown(page, a).limitHeaders = a.headers
  <1> USE DEF SamePanel, EmptyPanel
  <1>1. \A a : SamePanel(page, Loaded(page, a))
    <2> TAKE a
    <2> DEFINE p1 == [page EXCEPT !.apps = a.apps]
    <2>1. SamePanel(page, [p1 EXCEPT !.loadState = "ready"])
      OBVIOUS
    <2>2. SamePanel(page, [page EXCEPT !.loadState = "error"])
      OBVIOUS
    <2>3. Loaded(page, a) = [p1 EXCEPT !.loadState = "ready"]
          \/ Loaded(page, a) = [page EXCEPT !.loadState = "error"]
      BY DEF Loaded
    <2> HIDE DEF SamePanel, p1
    <2> QED
      BY <2>1, <2>2, <2>3
  <1>2. SamePanel(page, Loading(page))
    BY DEF Loading
  <1>3. \A a : EmptyPanel(Selected(page, a))
    BY DEF Selected
  <1>4. EmptyPanel(Deselected(page))
    BY DEF Deselected
  <1>5. \A a : \/ SamePanel(page, LimitsShown(page, a))
              \/ /\ a.status = 200
                 /\ {"limits", "limitHeaders"} \subseteq DOMAIN LimitsShown(page, a)
                 /\ LimitsShown(page, a).limits = a.limits
                 /\ LimitsShown(page, a).limitHeaders = a.headers
    BY DEF LimitsShown
  <1> HIDE DEF SamePanel, EmptyPanel
  <1> QED
    BY <1>1, <1>2, <1>3, <1>4, <1>5

\* A click on the Apps page keeps the panel the handler has prepared.
LEMMA AppsClickPanel ==
    ASSUME NEW page, NEW c, AppsClick(page, c),
           {"limits", "limitHeaders"} \subseteq DOMAIN page
    PROVE  /\ {"limits", "limitHeaders"} \subseteq DOMAIN appsPage'
           /\ appsPage'.limits = page.limits
           /\ appsPage'.limitHeaders = page.limitHeaders
  <1> DEFINE w == page.waited /\ AppsIdle
  <1>1. appsPage' = [page EXCEPT !.waited = w]
    BY Zenon DEF AppsClick
  <1> HIDE DEF w
  <1> QED
    BY <1>1

\* Clicks and edits: a request leaves at most, and a panel is emptied at most.
LEMMA UserActsPast ==
    ASSUME Owned, LimitsPast, UserActs
    PROVE  LimitsPast'
  <1>1. UNCHANGED quotaVars
    BY DEF UserActs, Deaf, serverVars
  <1>2. net = [s \in Slots |-> net[s]] /\ NetPast(net, count, period)
    BY DEF Owned, OwnedBy, LimitsPast
  <1>3. NetPast(net', count, period)
    <2>1. CASE net' = net
      BY <1>2, <2>1
    <2>2. ASSUME NEW c, net' = Send(net, {c}) PROVE NetPast(net', count, period)
      BY <1>2, <2>2, SendPast
    <2> QED
      BY <2>1, <2>2, UserActsNet
  <1>4. /\ ReadInOrder(NoHeaders, NoLimits, count, period)
        /\ {"limits", "limitHeaders"} \subseteq DOMAIN appsPage
        /\ {"limits", "headers"} \subseteq DOMAIN quotaPage
        /\ ReadInOrder(appsPage.limitHeaders, appsPage.limits, count, period)
        /\ ReadInOrder(quotaPage.headers, quotaPage.limits, count, period)
    BY NothingRead DEF LimitsPast, PanelsPast
  <1> DEFINE appsOK  == /\ {"limits", "limitHeaders"} \subseteq DOMAIN appsPage'
                        /\ ReadInOrder(appsPage'.limitHeaders, appsPage'.limits, count, period)
             quotaOK == /\ {"limits", "headers"} \subseteq DOMAIN quotaPage'
                        /\ ReadInOrder(quotaPage'.headers, quotaPage'.limits, count, period)
  <1>5. ASSUME AppsUser PROVE appsOK
    <2>1. ASSUME NEW a \in Apps, ShowLimits(a) PROVE appsOK
      <3>1. /\ {"limits", "limitHeaders"} \subseteq DOMAIN Selected(appsPage, a)
            /\ Selected(appsPage, a).limits = NoLimits
            /\ Selected(appsPage, a).limitHeaders = NoHeaders
        BY <1>4 DEF Selected
      <3> QED
        BY <1>4, <2>1, <3>1, AppsClickPanel DEF ShowLimits
    <2>2. ASSUME NEW a \in Apps, OnDelete(a) PROVE appsOK
      BY <1>4, <2>2, AppsClickPanel DEF OnDelete
    <2>3. ASSUME OnCreate PROVE appsOK
      <3> DEFINE page == [appsPage EXCEPT !.busy = TRUE]
      <3>1. /\ {"limits", "limitHeaders"} \subseteq DOMAIN page
            /\ page.limits = appsPage.limits
            /\ page.limitHeaders = appsPage.limitHeaders
        BY <1>4
      <3>2. AppsClick(page, AppsCall("create", "onCreate", NoApp, NoApp))
        BY <2>3 DEF OnCreate
      <3> HIDE DEF page
      <3> QED
        BY <1>4, <3>1, <3>2, AppsClickPanel
    <2> QED
      BY <1>5, <2>1, <2>2, <2>3 DEF AppsUser
  <1>6. ASSUME QuotaUser PROVE quotaOK
    <2>1. ASSUME NEW a \in Apps \cup {NoApp}, TypeToken(a) PROVE quotaOK
      BY <1>4, <2>1 DEF TypeToken
    <2>2. CASE LoadLimits
      BY <1>4, <2>2 DEF LoadLimits, Reading
    <2> QED
      BY <1>6, <2>1, <2>2 DEF QuotaUser
  <1>7. (appsPage' = appsPage \/ appsOK) /\ (quotaPage' = quotaPage \/ quotaOK)
    BY <1>5, <1>6 DEF UserActs
  <1> QED
    BY <1>1, <1>3, <1>7, PanelMoves

\* The answers of the pages under the layout.
LEMMA PageAnsweredPast ==
    ASSUME Owned, LimitsPast, NEW s \in Slots, PageAnswered(s)
    PROVE  LimitsPast'
  <1>1. UNCHANGED quotaVars
    BY DEF PageAnswered, Deaf, serverVars
  <1>2. net = [t \in Slots |-> net[t]] /\ NetPast(net, count, period)
    BY DEF Owned, OwnedBy, LimitsPast
  <1>3. NetPast(net', count, period)
    BY <1>2, PageAnsweredNet, SettlePast
  <1>4. /\ ReadInOrder(NoHeaders, NoLimits, count, period)
        /\ {"limits", "limitHeaders"} \subseteq DOMAIN appsPage
        /\ {"limits", "headers"} \subseteq DOMAIN quotaPage
        /\ ReadInOrder(appsPage.limitHeaders, appsPage.limits, count, period)
        /\ ReadInOrder(quotaPage.headers, quotaPage.limits, count, period)
    BY NothingRead DEF LimitsPast, PanelsPast
  <1> DEFINE a == net[s].answer
             appsOK  == /\ {"limits", "limitHeaders"} \subseteq DOMAIN appsPage'
                        /\ ReadInOrder(appsPage'.limitHeaders, appsPage'.limits, count, period)
             quotaOK == /\ {"limits", "headers"} \subseteq DOMAIN quotaPage'
                        /\ ReadInOrder(quotaPage'.headers, quotaPage'.limits, count, period)
  <1>5. ASSUME net[s].call.op = "limits", Answered(s), a.status = 200
        PROVE  ReadInOrder(a.headers, a.limits, count, period)
    BY <1>2, <1>5 DEF NetPast, AnswerPast, SaysPast, Answered, InFlight
  <1>6. ASSUME AppsAnswered(s) PROVE appsOK
    <2>1. \/ SamePanel(appsPage, appsPage') \/ EmptyPanel(appsPage')
          \/ (appsPage' = LimitsShown(appsPage, a) /\ net[s].call.op = "limits")
      <3>1. CASE AppsLoaded(s) \/ CreatedListed(s) \/ DeletedListed(s)
        BY <1>4, <3>1, HandlersOnPanel DEF AppsLoaded, CreatedListed, DeletedListed
      <3>2. CASE LimitsRead(s) \/ CreatedShown(s)
        BY <3>2 DEF LimitsRead, CreatedShown, Awaits
      <3>3. CASE Created(s)
        <4> DEFINE page == [appsPage EXCEPT !.busy = FALSE]
        <4>1. SamePanel(appsPage, page)
          BY <1>4 DEF SamePanel
        <4>2. appsPage' = page \/ appsPage' = Loading(page)
          BY <3>3 DEF Created
        <4>3. {"limits", "limitHeaders"} \subseteq DOMAIN page
          BY <4>1 DEF SamePanel
        <4> HIDE DEF page
        <4>4. SamePanel(page, Loading(page))
          BY <4>3, HandlersOnPanel
        <4> QED
          BY <4>1, <4>2, <4>4 DEF SamePanel
      <3>4. CASE CreatedFound(s)
        BY <1>4, <3>4, HandlersOnPanel DEF CreatedFound, SamePanel
      <3>5. CASE Deleted(s)
        <4> DEFINE page == IF net[s].call.selected = net[s].call.app
                           THEN Deselected(appsPage) ELSE appsPage
        <4>1. SamePanel(appsPage, page) \/ EmptyPanel(page)
          BY <1>4, HandlersOnPanel DEF SamePanel
        <4>2. appsPage' = appsPage \/ appsPage' = Loading(page)
          BY <3>5 DEF Deleted
        <4>3. {"limits", "limitHeaders"} \subseteq DOMAIN page
          BY <4>1 DEF SamePanel, EmptyPanel
        <4> HIDE DEF page
        <4>4. SamePanel(page, Loading(page))
          BY <4>3, HandlersOnPanel
        <4> QED
          BY <1>4, <4>1, <4>2, <4>4 DEF SamePanel, EmptyPanel
      <3> QED
        BY <1>6, <3>1, <3>2, <3>3, <3>4, <3>5 DEF AppsAnswered
    <2>2. CASE SamePanel(appsPage, appsPage') \/ EmptyPanel(appsPage')
      BY <1>4, <2>2 DEF SamePanel, EmptyPanel
    <2>3. CASE appsPage' = LimitsShown(appsPage, a) /\ net[s].call.op = "limits"
      <3>1. \/ SamePanel(appsPage, appsPage')
            \/ /\ a.status = 200
               /\ {"limits", "limitHeaders"} \subseteq DOMAIN appsPage'
               /\ appsPage'.limits = a.limits
               /\ appsPage'.limitHeaders = a.headers
        BY <1>4, <2>3, HandlersOnPanel
      <3>2. Answered(s)
        BY <1>6 DEF AppsAnswered
      <3> QED
        BY <1>5, <2>2, <2>3, <3>1, <3>2
    <2> QED
      BY <2>1, <2>2, <2>3
  <1>7. ASSUME QuotaAnswered(s) PROVE quotaOK
    <2>1. CASE QuotaListed(s)
      BY <1>4, <2>1 DEF QuotaListed
    <2>2. CASE LimitsLoaded(s)
      BY <1>4, <1>5, <1>7, <2>2 DEF QuotaAnswered, LimitsLoaded
    <2> QED
      BY <1>7, <2>1, <2>2 DEF QuotaAnswered
  <1>8. (appsPage' = appsPage \/ appsOK) /\ (quotaPage' = quotaPage \/ quotaOK)
    BY <1>6, <1>7 DEF PageAnswered
  <1> QED
    BY <1>1, <1>3, <1>8, PanelMoves

\* A rejected request keeps the answer it may have, or is forgotten.
LEMMA RejectPast ==
    ASSUME Owned, LimitsPast, NEW s \in Slots, Reject(s)
    PROVE  LimitsPast'
  <1>1. UNCHANGED quotaVars /\ UNCHANGED <<appsPage, quotaPage>>
    BY DEF Reject, serverVars, pageVars
  <1>2. /\ net = [t \in Slots |-> net[t]] /\ NetPast(net, count, period)
        /\ Entry(net[s]) /\ net[s] # Vacant
    BY DEF Owned, OwnedBy, LimitsPast, Reject, InFlight
  <1>3. CASE net' = Done(s)
    BY <1>1, <1>2, <1>3, SettlePast, SamePanels
  <1>4. CASE net' = [net EXCEPT ![s].call.page = "gone"]
    <2> DEFINE f == [net[s] EXCEPT !.call.page = "gone"]
    <2>1. net' = [net EXCEPT ![s] = f]
      BY <1>4
    <2>2. AnswerPast(net[s], count, period)
      BY <1>2 DEF NetPast
    <2>3. AnswerPast(f, count, period)
      BY <1>2, <2>2, OutlivedPast
    <2> HIDE DEF f
    <2>4. NetPast(net', count, period)
      BY <1>2, <2>1, <2>3 DEF NetPast
    <2> QED
      BY <1>1, <2>4, SamePanels
  <1> QED
    BY <1>3, <1>4 DEF Reject

\* The answers of the login page and of the layout.
LEMMA RouterPast ==
    ASSUME Owned, LimitsPast, NEW s \in Slots,
           LoginAnswered(s) \/ LayoutProbed(s) \/ Unheard(s)
    PROVE  LimitsPast'
  <1>1. UNCHANGED quotaVars
    BY DEF LoginAnswered, LayoutProbed, Unheard, Deaf, serverVars
  <1>2. net = [t \in Slots |-> net[t]] /\ NetPast(net, count, period) /\ QuotaTypeOK
    BY DEF Owned, OwnedBy, LimitsPast
  <1> DEFINE n == Done(s)
  <1>3. NetPast(n, count, period)
    BY <1>2, SettlePast
  <1>4. \A t \in Slots : Entry(n[t])
    BY DoneOwned DEF Owned, OwnedBy
  <1> HIDE DEF n
  <1>5. CASE \E r : Navigate(n, r)
    BY <1>1, <1>2, <1>3, <1>4, <1>5, NavigatePast
  <1>6. CASE \E calls : Mount(n, "blank", route, calls)
    BY <1>1, <1>2, <1>3, <1>4, <1>6, MountPast
  <1>7. CASE net' = n /\ UNCHANGED <<appsPage, quotaPage>>
    BY <1>1, <1>3, <1>7, SamePanels
  <1>8. CASE UNCHANGED <<net, appsPage, quotaPage>>
    BY <1>1, <1>2, <1>8, SamePanels
  <1> QED
    BY <1>5, <1>6, <1>7, <1>8 DEF LoginAnswered, LoginProbed, CookieStored, LoggedIn,
       ToDashboard, Stay, LayoutProbed, Unheard, pageVars, n

\* A request is answered, for something else or with what was read so far.
LEMMA RepliedPast ==
    ASSUME NEW e, Entry(e), e # Vacant, NEW a, NEW f, f = [e EXCEPT !.answer = a],
           NEW k, NEW p,
           e.call.op # "limits" \/ SaysPast(a, k, p)
    PROVE  AnswerPast(f, k, p)
  <1>1. e = [call |-> e.call, cookie |-> e.cookie, answer |-> e.answer]
    BY DEF Entry
  <1>2. f.call = e.call /\ f.answer = a
    BY <1>1
  <1> QED
    BY <1>2 DEF AnswerPast

\* The clock or the counter was read for the header, and nothing else yet.
LEMMA HeaderPast ==
    ASSUME LimitsPast, NEW s \in Slots, Is(s, "limits"),
           HeaderReset(s) \/ HeaderCount(s) \/ HeaderFailsOpen(s)
    PROVE  \E a : net' = Reply(s, a) /\ SaysPast(a, count, period)
  <1>1. count \in Nat /\ period \in Nat
    BY QuotaAssumption DEF LimitsPast, QuotaTypeOK
  <1>2. SaysPast(net[s].answer, count, period)
    BY DEF LimitsPast, NetPast, AnswerPast, Is, Waits, InFlight
  <1>3. ASSUME NEW c \in {count, 0}, NEW m \in Nat, m <= period
        PROVE  SaysPast([status |-> 0, headers |-> HeadersOf(c, m)], count, period)
    <2> DEFINE a == [status |-> 0, headers |-> HeadersOf(c, m)]
    <2>1. Past(HeadersOf(c, m), count, period)
      BY <1>1, <1>3 DEF Past, HeadersOf
    <2>2. a.status = 0 /\ a.headers = HeadersOf(c, m) /\ "reset" \notin DOMAIN a
      OBVIOUS
    <2> HIDE DEF a
    <2>3. SaysPast(a, count, period)
      BY <2>1, <2>2 DEF SaysPast
    <2> QED
      BY <2>3 DEF a
  <1>4. CASE HeaderReset(s)
    <2>1. SaysPast([status |-> 0, reset |-> period], count, period)
      BY <1>1 DEF SaysPast
    <2>2. SaysPast([status |-> 0, headers |-> HeadersOf(0, period)], count, period)
      BY <1>1, <1>3
    <2> QED
      BY <1>4, <2>1, <2>2 DEF HeaderReset
  <1>5. CASE HeaderCount(s) \/ HeaderFailsOpen(s)
    <2> DEFINE m == net[s].answer.reset
    <2>1. m \in Nat /\ m <= period
      BY <1>2, <1>5 DEF SaysPast, HeaderCount, HeaderFailsOpen, ResetTaken
    <2>2. \/ net' = Reply(s, [status |-> 0, headers |-> HeadersOf(count, m)])
          \/ net' = Reply(s, [status |-> 0, headers |-> HeadersOf(0, m)])
      BY <1>5 DEF HeaderCount, HeaderFailsOpen
    <2> HIDE DEF m
    <2> QED
      BY <1>3, <2>1, <2>2
  <1> QED
    BY <1>4, <1>5

\* The clock, then the counter, were read for the body, after the header.
LEMMA BodyPast ==
    ASSUME LimitsPast, NEW s \in Slots, Is(s, "limits"),
           LimitsReset(s) \/ LimitsTokenFails(s) \/ Limits(s)
    PROVE  \E a : net' = Reply(s, a) /\ SaysPast(a, count, period)
  <1> DEFINE h == net[s].answer.headers
             m == net[s].answer.reset
  <1>1. count \in Nat /\ period \in Nat
    BY QuotaAssumption DEF LimitsPast, QuotaTypeOK
  <1>2. SaysPast(net[s].answer, count, period)
    BY DEF LimitsPast, NetPast, AnswerPast, Is, Waits, InFlight
  <1>3. Past(h, count, period)
    BY <1>2 DEF SaysPast, LimitsReset, LimitsTokenFails, Limits, HeaderWritten
  <1>4. SaysPast(Status(400), count, period)
    BY DEF SaysPast, Status
  <1>5. CASE LimitsReset(s) \/ LimitsTokenFails(s)
    <2> DEFINE a == [status |-> 0, headers |-> h, reset |-> period]
    <2>1. net' = Reply(s, a) \/ net' = Reply(s, Status(400))
      BY <1>5 DEF LimitsReset, LimitsTokenFails
    <2>2. a.status = 0 /\ a.headers = h /\ a.reset = period
      OBVIOUS
    <2> HIDE DEF a, h
    <2>3. SaysPast(a, count, period)
      BY <1>1, <1>3, <2>2 DEF SaysPast
    <2> QED
      BY <1>4, <2>1, <2>3
  <1>6. CASE Limits(s)
    <2> DEFINE l == LimitsOf(net[s].call.app, count, m)
               a == [status |-> 200, headers |-> h, limits |-> l]
    <2>1. net' = Reply(s, a)
      BY <1>6 DEF Limits
    <2>2. m \in Nat /\ m <= period
      BY <1>2, <1>6 DEF SaysPast, Limits, ResetTaken
    <2>3. l.count = count /\ l.reset = m
      BY DEF LimitsOf
    <2>4. /\ a.headers = h /\ a.limits = l /\ "reset" \notin DOMAIN a
      OBVIOUS
    <2> HIDE DEF a, l, m, h
    <2>5. ReadInOrder(h, l, count, period)
      BY <1>1, <1>3, <2>2, <2>3 DEF ReadInOrder, Past
    <2>6. SaysPast(a, count, period)
      BY <1>3, <2>4, <2>5 DEF SaysPast
    <2> QED
      BY <2>1, <2>6
  <1> QED
    BY <1>5, <1>6

\* The handlers of the server read the clock and the counter as they stand, for the
\* header before the body.
LEMMA ServedPast ==
    ASSUME Owned, LimitsPast, NEW s \in Slots, Served(s)
    PROVE  LimitsPast'
  <1>1. UNCHANGED quotaVars /\ UNCHANGED <<appsPage, quotaPage>> /\ Serve(s)
    BY DEF Served
  <1>2. /\ net = [t \in Slots |-> net[t]] /\ NetPast(net, count, period)
        /\ Entry(net[s]) /\ net[s] # Vacant
    BY <1>1, ServeReplies DEF Owned, OwnedBy, LimitsPast, InFlight
  <1> DEFINE OK(a) == net[s].call.op # "limits" \/ SaysPast(a, count, period)
  <1>4. \E a : net' = Reply(s, a) /\ OK(a)
    <2>1. \A n \in {401, 500} : SaysPast(Status(n), count, period)
      BY DEF Status, SaysPast
    <2>2. CASE Unauthorized(s) \/ ServerError(s)
      BY <2>1, <2>2 DEF Unauthorized, ServerError
    <2>3. CASE Login(s) \/ LoginFails(s) \/ Me(s)
      BY <2>3 DEF Login, LoginFails, Me, Is
    <2>4. CASE ListApps(s) \/ CreateApp(s) \/ DeleteApp(s)
      BY <2>4 DEF ListApps, CreateApp, DeleteApp, Is
    <2>5. CASE QuietHours(s)
      BY <2>5 DEF QuietHours, Is
    <2>6. CASE DeviceLogin(s)
      BY <2>6 DEF DeviceLogin, Is
    <2>7. CASE ServeLimits(s)
      BY <2>7, HeaderPast, BodyPast DEF ServeLimits, HeaderReset, HeaderCount,
         HeaderFailsOpen, LimitsReset, LimitsTokenFails, Limits
    <2> QED
      BY <1>1, <2>2, <2>3, <2>4, <2>5, <2>6, <2>7 DEF Serve
  <1>5. PICK a : net' = Reply(s, a) /\ OK(a)
    BY <1>4
  <1> DEFINE f == [net[s] EXCEPT !.answer = a]
  <1>6. net' = [net EXCEPT ![s] = f]
    BY <1>5 DEF Reply
  <1>7. AnswerPast(f, count, period)
    BY <1>2, <1>5, RepliedPast
  <1> HIDE DEF f
  <1>8. NetPast(net', count, period)
    BY <1>2, <1>6, <1>7 DEF NetPast
  <1> QED
    BY <1>1, <1>8, SamePanels

-----------------------------------------------------------------------------
\* The session's expiry leaves every call and every answer.
LEMMA ExpiryAnswers ==
    ASSUME Owned, SessionExpires
    PROVE  \A s \in Slots : /\ net'[s] = Vacant <=> net[s] = Vacant
                            /\ net'[s].call = net[s].call
                            /\ net'[s].answer = net[s].answer
  <1> SUFFICES ASSUME NEW s \in Slots
               PROVE  /\ net'[s] = Vacant <=> net[s] = Vacant
                      /\ net'[s].call = net[s].call
                      /\ net'[s].answer = net[s].answer
    OBVIOUS
  <1>1. CASE ~Waits(s)
    BY <1>1 DEF SessionExpires
  <1>2. CASE Waits(s)
    <2>1. net'[s] = [net[s] EXCEPT !.cookie = FALSE] /\ net[s] # Vacant
      BY <1>2 DEF SessionExpires, Waits, InFlight
    <2>2. net[s] = [call |-> net[s].call, cookie |-> net[s].cookie,
                    answer |-> net[s].answer]
      BY <2>1 DEF Owned, OwnedBy, Entry
    <2>3. "answer" \in DOMAIN net'[s] /\ "answer" \notin DOMAIN Vacant
      BY <2>1, <2>2 DEF Vacant
    <2> QED
      BY <2>1, <2>2, <2>3
  <1> QED
    BY <1>1, <1>2

\* The tab opens with nothing read.
LEMMA InitPast == Init => LimitsPast
  <1> SUFFICES ASSUME Init PROVE LimitsPast
    OBVIOUS
  <1>1. QuotaTypeOK
    BY TypeInit DEF Init, ApiInit
  <1> DEFINE n == [s \in Slots |-> Vacant]
             calls == CASE route = "home"  -> {}
                        [] route = "login" -> {MeCall("login")}
                        [] OTHER           -> {MeCall("layout")}
  <1>2. net = Send(n, calls)
    BY DEF Init
  <1>3. n = [s \in Slots |-> n[s]] /\ NetPast(n, count, period)
    BY VacantPast DEF NetPast
  <1> HIDE DEF n, calls
  <1>6. n = [s \in Slots |-> n[s]]
    BY <1>3
  <1>4. NetPast(net, count, period)
    BY <1>2, <1>3, <1>6, SendPast
  <1>5. PanelsPast(appsPage, quotaPage, count, period)
    BY <1>1, NothingRead DEF Init
  <1> QED
    BY <1>1, <1>4, <1>5 DEF LimitsPast

\* Every step keeps what was read of the counter below it.
LEMMA PastStep == Owned /\ LimitsPast /\ [Next]_vars => LimitsPast'
  <1> SUFFICES ASSUME Owned, LimitsPast, [Next]_vars PROVE LimitsPast'
    OBVIOUS
  <1>1. /\ net = [t \in Slots |-> net[t]] /\ NetPast(net, count, period)
        /\ \A s \in Slots : Entry(net[s])
        /\ QuotaTypeOK
    BY DEF Owned, OwnedBy, LimitsPast
  <1>2. ASSUME [QuotaNext]_quotaVars, UNCHANGED <<net, appsPage, quotaPage>>
        PROVE  LimitsPast'
    BY <1>2, QuietLimits
  <1>3. ASSUME NEW valid \in BOOLEAN, OnSubmit(valid) PROVE LimitsPast'
    <2>1. NetPast(net', count, period)
      BY <1>1, <1>3, SendPast DEF OnSubmit
    <2> QED
      BY <1>3, <2>1, SamePanels DEF OnSubmit, pageVars, Deaf, serverVars
  <1>4. ASSUME NEW r \in Pages, GoTo(r) PROVE LimitsPast'
    BY <1>1, <1>4, NavigatePast DEF GoTo, Deaf, serverVars
  <1>5. ASSUME UserActs PROVE LimitsPast'
    BY <1>5, UserActsPast
  <1>6. ASSUME HomeReplaced PROVE LimitsPast'
    BY <1>1, <1>6, NavigatePast DEF HomeReplaced, Deaf, serverVars
  <1>7. ASSUME NEW s \in Slots, Served(s) PROVE LimitsPast'
    BY <1>7, ServedPast
  <1>8. ASSUME NEW s \in Slots, Settle(s) PROVE LimitsPast'
    BY <1>8, RouterPast, PageAnsweredPast DEF Settle
  <1>9. ASSUME NEW s \in Slots, Reject(s) PROVE LimitsPast'
    BY <1>9, RejectPast
  <1>10. ASSUME NEW p \in Senders, Sends(p) PROVE LimitsPast'
    <2>1. [QuotaNext]_quotaVars
      BY <1>10, SendsStep
    <2>2. UNCHANGED <<net, appsPage, quotaPage>>
      BY <1>10 DEF Sends, tabVars, pageVars, SendGated, SendStored, SendRefused,
         SendCharged, SendUncharged
    <2> QED
      BY <1>2, <2>1, <2>2
  <1>11. ASSUME NEW p \in Senders, Published(p) PROVE LimitsPast'
    BY <1>2, <1>11 DEF Published
  <1>12. ASSUME NEW i \in 1..Sources, Streams(i) PROVE LimitsPast'
    BY <1>2, <1>12 DEF Streams, serverVars
  <1>13. ASSUME Others PROVE LimitsPast'
    <2>1. [QuotaNext]_quotaVars
      BY <1>13, OthersStep
    <2>2. UNCHANGED <<appsPage, quotaPage>>
      BY <1>13 DEF Others, OtherSaves, tabVars, pageVars
    <2>3. UNCHANGED net \/ SessionExpires
      BY <1>13 DEF Others, OtherSaves, OtherClientSaves
    <2> QED
      BY <2>1, <2>2, <2>3, ExpiryAnswers, QuietLimits
  <1>14. ASSUME UNCHANGED vars PROVE LimitsPast'
    BY <1>2, <1>14 DEF vars, state, tabVars, pageVars, serverVars
  <1> QED
    BY <1>3, <1>4, <1>5, <1>6, <1>7, <1>8, <1>9, <1>10, <1>11, <1>12, <1>13, <1>14
       DEF Next, UserStep

\* Whatever travels or is shown was read from the counter: a reset that still lies
\* ahead stands beside a count the month has reached, the header's before the body's.
\* The invariant behind the two theorems that follow.
THEOREM ReadingsArePast == Spec => [](Owned /\ LimitsPast)
  <1>1. Init => Owned /\ LimitsPast
    BY InitOwned, InitPast
  <1>2. Owned /\ LimitsPast /\ [Next]_vars => (Owned /\ LimitsPast)'
    BY OwnedStep, PastStep
  <1> QED
    BY <1>1, <1>2, PTL DEF Spec

\* While the month that header and body name still runs, the header of a limits
\* answer counts no more than its body: applimit.go:126 has read the clock and the
\* counter before quota.go:133 and :135 do.
THEOREM HeadersAreNotAhead == Spec => []HeadersNotAhead
  <1>1. LimitsPast => HeadersNotAhead
    BY DEF LimitsPast, PanelsPast, ReadInOrder, HeadersNotAhead, NotAhead
  <1> QED
    BY <1>1, ReadingsArePast, PTL

\* A card that says "exhausted" is right until the month ends, however old it is
\* and whatever else was sent, failed or raced meanwhile (quota/page.tsx).
THEOREM ExhaustedStaysFinal == Spec => []ExhaustedIsFinal
  <1>1. LimitsPast => ExhaustedIsFinal
    <2> SUFFICES ASSUME LimitsPast, Badge = "exhausted", quotaPage.limits.reset = period
                 PROVE  Remaining(count) = 0
      BY DEF ExhaustedIsFinal
    <2>1. Past(quotaPage.limits, count, period) /\ count \in Nat
      BY DEF LimitsPast, PanelsPast, ReadInOrder, QuotaTypeOK
    <2>2. Remaining(quotaPage.limits.count) = 0
      BY DEF Badge
    <2>3. quotaPage.limits.count >= Limit
      BY <2>1, <2>2, QuotaAssumption DEF Remaining, Past
    <2> QED
      BY <2>1, <2>3, QuotaAssumption DEF Past, Remaining
  <1> QED
    BY <1>1, ReadingsArePast, PTL

-----------------------------------------------------------------------------
(* Whose quota the card of the Quota page shows.                           *)

\* e asks for the limits of a token, for the Quota page.
AsksLimits(e) == e # Vacant /\ e.call.page = "quota" /\ e.call.op = "limits"

\* At most one such request is in flight, the page is busy with it, and it is about
\* the token last submitted.
LimitsAsked ==
    /\ {"limits", "asked", "busy"} \subseteq DOMAIN quotaPage
    /\ \A s \in Slots : AsksLimits(net[s]) =>
          /\ quotaPage.busy
          /\ net[s].call.app = quotaPage.asked
          /\ net[s].answer.status = 200 => net[s].answer.limits.app = net[s].call.app
    /\ \A s, t \in Slots : AsksLimits(net[s]) /\ AsksLimits(net[t]) => s = t
    /\ ShowsTokenAsked

\* The page keeps what it shows and what it waits for, and nothing new is asked.
LEMMA SameAsked ==
    ASSUME LimitsAsked, {"limits", "asked", "busy"} \subseteq DOMAIN quotaPage',
           quotaPage'.limits = quotaPage.limits, quotaPage'.asked = quotaPage.asked,
           quotaPage'.busy = quotaPage.busy,
           \A s \in Slots : AsksLimits(net'[s]) =>
              /\ AsksLimits(net[s])
              /\ net'[s].call.app = net[s].call.app
              /\ net'[s].answer.status = 200 =>
                    \/ net'[s].answer = net[s].answer
                    \/ net'[s].answer.limits.app = net'[s].call.app
    PROVE  LimitsAsked'
  <1>1. ShowsTokenAsked'
    BY DEF LimitsAsked, ShowsTokenAsked, QuotaShown
  <1> QED
    BY <1>1 DEF LimitsAsked

\* A page without a card and without a request.
LEMMA NoneAsked ==
    ASSUME quotaPage' = QuotaFresh, \A s \in Slots : ~AsksLimits(net'[s])
    PROVE  LimitsAsked'
  BY DEF LimitsAsked, ShowsTokenAsked, QuotaShown, QuotaFresh

\* Calls for something else do not ask for limits.
LEMMA SendAsksNone ==
    ASSUME NEW n, n = [s \in Slots |-> n[s]], \A s \in Slots : ~AsksLimits(n[s]),
           NEW calls, \A c \in calls : c.op # "limits", NEW m, m = Send(n, calls)
    PROVE  \A s \in Slots : ~AsksLimits(m[s])
  <1>1. PICK c, k : \A s \in Slots :
           m[s] = n[s] \/ (s = k /\ c \in calls /\ m[s] = Request(c))
    BY SendSlots
  <1>2. Request(c).call = c
    BY DEF Request
  <1> QED
    BY <1>1, <1>2 DEF AsksLimits

\* Every page that mounts finds the Quota page's requests gone.
LEMMA MountAsked ==
    ASSUME NEW l, NEW n, OwnedBy(n, Page, l), NEW old, old \notin {"none", "left", "gone"},
           \A s \in Slots : n[s].call.page = "quota" => old = "quota",
           NEW new, NEW calls, \A c \in calls : c.op # "limits",
           Mount(n, old, new, calls)
    PROVE  LimitsAsked'
  <1> DEFINE gone == {old} \cup (IF new = "login" THEN {"layout"} ELSE {})
             left == Abandon(n, gone)
  <1>1. net' = Send(left, calls) /\ quotaPage' = QuotaFresh
    BY DEF Mount
  <1>2. gone \cap {"left", "gone", "none"} = {} /\ old \in gone
    OBVIOUS
  <1> HIDE DEF gone
  <1>3. /\ left = [s \in Slots |-> left[s]]
        /\ \A s \in Slots :
              \/ left[s] = Vacant \/ left[s].call.page \in {"left", "gone"}
              \/ left[s] = n[s] /\ n[s].call.page \notin gone
    BY <1>2, AbandonSlots DEF OwnedBy
  <1>4. \A s \in Slots : ~AsksLimits(left[s])
    BY <1>2, <1>3 DEF AsksLimits
  <1> HIDE DEF left
  <1>5. left = [s \in Slots |-> left[s]]
    BY <1>3
  <1>6. net' = Send(left, calls)
    BY <1>1
  <1>7. \A s \in Slots : ~AsksLimits(net'[s])
    BY <1>4, <1>5, <1>6, SendAsksNone
  <1> QED
    BY <1>1, <1>7, NoneAsked

\* The mount effects ask for no limits.
LEMMA MountsAskNone ==
    ASSUME NEW page
    PROVE  \A c \in MountCalls(page) : c.op # "limits"
  <1>1. CASE page = "apps"
    BY <1>1 DEF MountCalls, ListCall, AppsCall
  <1>2. CASE page = "quota"
    BY <1>2 DEF MountCalls, QuotaListCall
  <1>3. CASE page = "quiet-hours"
    BY <1>3 DEF MountCalls, QuietMeCall
  <1>4. CASE page = "login"
    BY <1>4 DEF MountCalls, MeCall
  <1>5. CASE page \notin {"apps", "quota", "quiet-hours", "login"}
    BY <1>5 DEF MountCalls
  <1> QED
    BY <1>1, <1>2, <1>3, <1>4, <1>5

\* The router moves.
LEMMA NavigateAsked ==
    ASSUME Owned, NEW n, OwnedBy(n, Page, layout), NEW r, Navigate(n, r)
    PROVE  LimitsAsked'
  <1>1. Page \in {"login", "blank"} \cup Pages
    BY PageType DEF Owned
  <1>2. \A s \in Slots : n[s].call.page = "quota" => Page = "quota"
    BY DEF OwnedBy, Vacant
  <1>3. Page \notin {"none", "left", "gone"}
    BY <1>1 DEF Pages
  <1>4. MeCall("layout").op # "limits"
    BY DEF MeCall
  <1>5. \E new, calls : /\ Mount(n, Page, new, calls)
                        /\ calls = {MeCall("layout")} \/ \E p : calls = MountCalls(p)
    BY DEF Navigate
  <1>6. PICK new, calls : /\ Mount(n, Page, new, calls)
                          /\ calls = {MeCall("layout")} \/ \E p : calls = MountCalls(p)
    BY <1>5
  <1>7. \A c \in calls : c.op # "limits"
    BY <1>4, <1>6, MountsAskNone
  <1> QED
    BY <1>2, <1>3, <1>6, <1>7, MountAsked

\* Emptying a slot, or following up for the Apps page, asks for nothing here.
LEMMA SettleAsked ==
    ASSUME Owned, NEW s \in Slots,
           \/ net' = Done(s)
           \/ \E c : net' = Follow(s, c) /\ c.page = "apps"
    PROVE  \A t \in Slots : AsksLimits(net'[t]) => t # s /\ net'[t] = net[t]
  <1>1. net = [t \in Slots |-> net[t]]
    BY DEF Owned, OwnedBy
  <1>2. CASE net' = Done(s)
    BY <1>1, <1>2 DEF Done, AsksLimits
  <1>3. ASSUME NEW c, net' = Follow(s, c), c.page = "apps"
        PROVE  \A t \in Slots : AsksLimits(net'[t]) => t # s /\ net'[t] = net[t]
    <2>1. Request(c).call.page = "apps"
      BY <1>3 DEF Request
    <2> QED
      BY <1>1, <1>3, <2>1 DEF Follow, AsksLimits
  <1> QED
    BY <1>2, <1>3

\* The user asks for the quota of the token in the field, when nothing is asked.
LEMMA LoadLimitsAsked ==
    ASSUME Owned, LimitsAsked, LoadLimits
    PROVE  LimitsAsked'
  <1> DEFINE c == QuotaLimitsCall(quotaPage.token)
             q == quotaPage
  <1>1. /\ quotaPage' = Reading(quotaPage.token) /\ net' = Send(net, {c}) /\ ~quotaPage.busy
        /\ net = [s \in Slots |-> net[s]]
    BY DEF LoadLimits, Owned, OwnedBy
  <1>2. /\ {"limits", "asked", "busy"} \subseteq DOMAIN quotaPage'
        /\ quotaPage'.limits = NoLimits /\ quotaPage'.asked = quotaPage.token
        /\ quotaPage'.busy = TRUE
    BY <1>1 DEF LimitsAsked, Reading
  <1>3. \A s \in Slots : ~AsksLimits(net[s])
    BY <1>1 DEF LimitsAsked
  <1>4. /\ Request(c).call.app = quotaPage.token
        /\ Request(c).answer.status = 0
    BY DEF Request, Pending, Status, QuotaLimitsCall
  <1> HIDE DEF c
  <1>5. PICK d, k : \A s \in Slots :
           net'[s] = net[s] \/ (s = k /\ d \in {c} /\ net'[s] = Request(d))
    BY <1>1, SendSlots
  <1>6. \A s \in Slots : AsksLimits(net'[s]) => s = k /\ net'[s] = Request(c)
    BY <1>3, <1>5
  <1>7. ShowsTokenAsked'
    BY <1>2 DEF ShowsTokenAsked, QuotaShown
  <1> QED
    BY <1>2, <1>4, <1>6, <1>7 DEF LimitsAsked

\* Clicks and edits on any page.
LEMMA UserActsAsked ==
    ASSUME Owned, LimitsAsked, UserActs
    PROVE  LimitsAsked'
  <1>1. net = [s \in Slots |-> net[s]] /\ {"limits", "asked", "busy"} \subseteq DOMAIN quotaPage
    BY DEF Owned, OwnedBy, LimitsAsked
  <1>2. ASSUME UNCHANGED quotaPage,
               net' = net \/ \E c : net' = Send(net, {c}) /\ c.page # "quota"
        PROVE  LimitsAsked'
    <2>1. \A s \in Slots : AsksLimits(net'[s]) => net'[s] = net[s]
      <3>1. CASE net' = net
        BY <3>1
      <3>2. ASSUME NEW c, net' = Send(net, {c}), c.page # "quota"
            PROVE  \A s \in Slots : AsksLimits(net'[s]) => net'[s] = net[s]
        <4>1. PICK d, k : \A s \in Slots :
                 net'[s] = net[s] \/ (s = k /\ d \in {c} /\ net'[s] = Request(d))
          BY <1>1, <3>2, SendSlots
        <4>2. Request(c).call = c
          BY DEF Request
        <4> QED
          BY <3>2, <4>1, <4>2 DEF AsksLimits
      <3> QED
        BY <1>2, <3>1, <3>2
    <2> QED
      BY <1>1, <1>2, <2>1, SameAsked
  <1>3. CASE Page = "quota" /\ QuotaUser
    <2>1. CASE LoadLimits
      BY <2>1, LoadLimitsAsked
    <2>2. ASSUME NEW a \in Apps \cup {NoApp}, TypeToken(a) PROVE LimitsAsked'
      <3>1. /\ {"limits", "asked", "busy"} \subseteq DOMAIN quotaPage'
            /\ quotaPage'.limits = quotaPage.limits /\ quotaPage'.asked = quotaPage.asked
            /\ quotaPage'.busy = quotaPage.busy
        BY <1>1, <2>2 DEF TypeToken
      <3>2. net' = net
        BY <2>2 DEF TypeToken
      <3> QED
        BY <3>1, <3>2, SameAsked
    <2> QED
      BY <1>3, <2>1, <2>2 DEF QuotaUser
  <1>4. CASE Page # "quota"
    <2>1. UNCHANGED quotaPage
      BY <1>4 DEF UserActs
    <2> QED
      BY <1>2, <1>4, <2>1, UserActsNet
  <1> QED
    BY <1>3, <1>4 DEF UserActs

\* The answers of the pages under the layout.
LEMMA PageAnsweredAsked ==
    ASSUME Owned, LimitsAsked, NEW s \in Slots, PageAnswered(s)
    PROVE  LimitsAsked'
  <1>1. \A t \in Slots : AsksLimits(net'[t]) => t # s /\ net'[t] = net[t]
    BY PageAnsweredNet, SettleAsked
  <1>2. {"limits", "asked", "busy"} \subseteq DOMAIN quotaPage
    BY DEF LimitsAsked
  <1>3. ASSUME /\ {"limits", "asked", "busy"} \subseteq DOMAIN quotaPage'
               /\ quotaPage'.limits = quotaPage.limits /\ quotaPage'.asked = quotaPage.asked
               /\ quotaPage'.busy = quotaPage.busy
        PROVE  LimitsAsked'
    BY <1>1, <1>3, SameAsked
  <1>4. CASE UNCHANGED quotaPage
    BY <1>2, <1>3, <1>4
  <1>5. CASE QuotaAnswered(s)
    <2>1. CASE QuotaListed(s)
      BY <1>2, <1>3, <2>1 DEF QuotaListed
    <2>2. CASE LimitsLoaded(s)
      <3>1. AsksLimits(net[s])
        BY <1>5, <2>2 DEF AsksLimits, QuotaAnswered, LimitsLoaded, FromPage, Answered,
           InFlight
      <3>2. \A t \in Slots : ~AsksLimits(net'[t])
        BY <1>1, <3>1 DEF LimitsAsked
      <3>3. /\ {"limits", "asked", "busy"} \subseteq DOMAIN quotaPage'
            /\ quotaPage'.asked = quotaPage.asked
            /\ \/ quotaPage'.limits = quotaPage.limits
               \/ /\ net[s].answer.status = 200
                  /\ quotaPage'.limits = net[s].answer.limits
        BY <1>2, <2>2 DEF LimitsLoaded
      <3>4. ShowsTokenAsked'
        BY <3>1, <3>3 DEF LimitsAsked, ShowsTokenAsked, QuotaShown
      <3> QED
        BY <3>2, <3>3, <3>4 DEF LimitsAsked
    <2> QED
      BY <1>5, <2>1, <2>2 DEF QuotaAnswered
  <1> QED
    BY <1>4, <1>5 DEF PageAnswered

\* The server's answer to a request for limits is about the token it asks for.
LEMMA ServedAsked ==
    ASSUME Owned, LimitsAsked, NEW s \in Slots, Served(s)
    PROVE  LimitsAsked'
  <1>1. UNCHANGED quotaPage /\ Serve(s)
    BY DEF Served
  <1>2. /\ net = [t \in Slots |-> net[t]] /\ Entry(net[s]) /\ net[s] # Vacant
        /\ {"limits", "asked", "busy"} \subseteq DOMAIN quotaPage
    BY <1>1, ServeReplies DEF Owned, OwnedBy, LimitsAsked, InFlight
  <1> DEFINE OK(a) == \/ net[s].call.op # "limits" \/ a.status # 200
                      \/ a.limits.app = net[s].call.app
  <1>3. \E a : net' = Reply(s, a) /\ OK(a)
    <2>1. \A n : Status(n).status = n
      BY DEF Status
    <2>2. CASE Unauthorized(s) \/ ServerError(s)
      BY <2>1, <2>2 DEF Unauthorized, ServerError
    <2>3. CASE Login(s) \/ LoginFails(s) \/ Me(s)
      BY <2>3 DEF Login, LoginFails, Me, Is
    <2>4. CASE ListApps(s) \/ CreateApp(s) \/ DeleteApp(s)
      BY <2>4 DEF ListApps, CreateApp, DeleteApp, Is
    <2>5. CASE QuietHours(s)
      BY <2>5 DEF QuietHours, Is
    <2>6. CASE DeviceLogin(s)
      BY <2>6 DEF DeviceLogin, Is
    <2>7. CASE HeaderReset(s) \/ HeaderCount(s) \/ HeaderFailsOpen(s)
      <3>1. \/ \E h : net' = Reply(s, [status |-> 0, headers |-> h])
            \/ net' = Reply(s, [status |-> 0, reset |-> period])
        BY <2>7 DEF HeaderReset, HeaderCount, HeaderFailsOpen
      <3>2. \A h : OK([status |-> 0, headers |-> h])
        OBVIOUS
      <3>3. OK([status |-> 0, reset |-> period])
        OBVIOUS
      <3> HIDE DEF OK
      <3> QED
        BY <3>1, <3>2, <3>3
    <2>8. CASE LimitsReset(s) \/ LimitsTokenFails(s)
      <3> DEFINE a == [status |-> 0, headers |-> net[s].answer.headers,
                       reset |-> period]
      <3>1. net' = Reply(s, a) \/ net' = Reply(s, Status(400))
        BY <2>8 DEF LimitsReset, LimitsTokenFails
      <3>2. OK(a)
        OBVIOUS
      <3>3. OK(Status(400))
        BY <2>1
      <3> HIDE DEF a, OK
      <3> QED
        BY <3>1, <3>2, <3>3
    <2>9. CASE Limits(s)
      <3> DEFINE l == LimitsOf(net[s].call.app, count, net[s].answer.reset)
                 a == [status |-> 200, headers |-> net[s].answer.headers, limits |-> l]
      <3>1. net' = Reply(s, a)
        BY <2>9 DEF Limits
      <3>2. l.app = net[s].call.app
        BY DEF LimitsOf
      <3>3. OK(a)
        BY <3>2
      <3> HIDE DEF a, OK
      <3> QED
        BY <3>1, <3>3
    <2> QED
      BY <1>1, <2>2, <2>3, <2>4, <2>5, <2>6, <2>7, <2>8, <2>9 DEF Serve, ServeLimits
  <1>4. PICK a : net' = Reply(s, a) /\ OK(a)
    BY <1>3
  <1>5. net[s] = [call |-> net[s].call, cookie |-> net[s].cookie,
                  answer |-> net[s].answer]
    BY <1>2 DEF Entry
  <1>6. /\ net'[s].call = net[s].call /\ net'[s].answer = a
        /\ \A t \in Slots : t # s => net'[t] = net[t]
    BY <1>2, <1>4, <1>5 DEF Reply
  <1>7. \A t \in Slots : AsksLimits(net'[t]) =>
           /\ AsksLimits(net[t])
           /\ net'[t].call.app = net[t].call.app
           /\ net'[t].answer.status = 200 =>
                 \/ net'[t].answer = net[t].answer
                 \/ net'[t].answer.limits.app = net'[t].call.app
    BY <1>2, <1>4, <1>6 DEF AsksLimits
  <1> QED
    BY <1>1, <1>2, <1>7, SameAsked

\* A rejected request is over, or asks for nothing any more on its page.
LEMMA RejectAsked ==
    ASSUME Owned, LimitsAsked, NEW s \in Slots, Reject(s)
    PROVE  LimitsAsked'
  <1>1. UNCHANGED quotaPage
    BY DEF Reject, pageVars
  <1>2. /\ net = [t \in Slots |-> net[t]] /\ Entry(net[s]) /\ net[s] # Vacant
        /\ {"limits", "asked", "busy"} \subseteq DOMAIN quotaPage
    BY DEF Owned, OwnedBy, LimitsAsked, Reject, InFlight
  <1>3. \A t \in Slots : AsksLimits(net'[t]) => net'[t] = net[t]
    <2>1. CASE net' = Done(s)
      BY <2>1, SettleAsked
    <2>2. CASE net' = [net EXCEPT ![s].call.page = "gone"]
      <3> DEFINE c == [net[s].call EXCEPT !.page = "gone"]
                 f == [net[s] EXCEPT !.call = c]
      <3>1. net' = [net EXCEPT ![s] = f]
        BY <2>2
      <3>2. c.page = "gone"
        BY <1>2 DEF Entry
      <3> HIDE DEF c
      <3>3. f.call = c
        BY <1>2 DEF Entry
      <3> HIDE DEF f
      <3> QED
        BY <1>2, <3>1, <3>2, <3>3 DEF AsksLimits
    <2> QED
      BY <2>1, <2>2 DEF Reject
  <1> QED
    BY <1>1, <1>2, <1>3, SameAsked

\* The answers of the login page and of the layout.
LEMMA RouterAsked ==
    ASSUME Owned, LimitsAsked, NEW s \in Slots,
           LoginAnswered(s) \/ LayoutProbed(s) \/ Unheard(s)
    PROVE  LimitsAsked'
  <1> DEFINE n == Done(s)
  <1>1. OwnedBy(n, Page, layout)
    BY DoneOwned DEF Owned
  <1>2. {"limits", "asked", "busy"} \subseteq DOMAIN quotaPage
    BY DEF LimitsAsked
  <1>3. CASE \E r : Navigate(n, r)
    BY <1>1, <1>3, NavigateAsked
  <1>4. CASE LayoutProbed(s) /\ net[s].answer.status = 200
    <2>1. Mount(n, "blank", route, MountCalls(route))
      BY <1>4 DEF LayoutProbed
    <2>2. layout = "loading"
      BY <1>4 DEF LayoutProbed, Owned, OwnedBy, FromPage, Vacant
    <2>3. Page = "blank"
      BY <2>2 DEF Owned, Routed, Page, PageAt, Pages
    <2>4. \A t \in Slots : n[t].call.page # "quota"
      BY <1>1, <2>3 DEF OwnedBy, Vacant
    <2> HIDE DEF n
    <2> QED
      BY <1>1, <2>1, <2>4, MountAsked, MountsAskNone
  <1>5. CASE net' = n /\ UNCHANGED quotaPage
    BY <1>2, <1>5, SettleAsked, SameAsked
  <1>6. CASE UNCHANGED <<net, quotaPage>>
    BY <1>2, <1>6, SameAsked
  <1> QED
    BY <1>3, <1>4, <1>5, <1>6 DEF LoginAnswered, LoginProbed, CookieStored, LoggedIn,
       ToDashboard, Stay, LayoutProbed, Unheard, pageVars

\* No step shows the answer for another token.
LEMMA AskedStep == Owned /\ LimitsAsked /\ [Next]_vars => LimitsAsked'
  <1> SUFFICES ASSUME Owned, LimitsAsked, [Next]_vars PROVE LimitsAsked'
    OBVIOUS
  <1>1. {"limits", "asked", "busy"} \subseteq DOMAIN quotaPage
    BY DEF LimitsAsked
  <1>2. ASSUME UNCHANGED <<net, quotaPage>> PROVE LimitsAsked'
    BY <1>1, <1>2, SameAsked
  <1>3. ASSUME NEW valid \in BOOLEAN, OnSubmit(valid) PROVE LimitsAsked'
    <2>1. net = [s \in Slots |-> net[s]] /\ LoginCall(valid).page = "login"
      BY DEF Owned, OwnedBy, LoginCall
    <2>2. Page # "quota" /\ UNCHANGED quotaPage /\ net' = Send(net, {LoginCall(valid)})
      BY <1>3 DEF OnSubmit, pageVars
    <2>3. \A s \in Slots : ~AsksLimits(net[s])
      BY <2>2 DEF Owned, OwnedBy, AsksLimits
    <2>4. LoginCall(valid).op # "limits" /\ net = [s \in Slots |-> net[s]]
      BY <2>1 DEF LoginCall
    <2>5. \A s \in Slots : ~AsksLimits(net'[s])
      BY <2>2, <2>3, <2>4, SendAsksNone
    <2> QED
      BY <1>1, <2>2, <2>5, SameAsked
  <1>4. ASSUME NEW r \in Pages, GoTo(r) PROVE LimitsAsked'
    BY <1>4, NavigateAsked DEF GoTo, Owned
  <1>5. ASSUME UserActs PROVE LimitsAsked'
    BY <1>5, UserActsAsked
  <1>6. ASSUME HomeReplaced PROVE LimitsAsked'
    BY <1>6, NavigateAsked DEF HomeReplaced, Owned
  <1>7. ASSUME NEW s \in Slots, Served(s) PROVE LimitsAsked'
    BY <1>7, ServedAsked
  <1>8. ASSUME NEW s \in Slots, Settle(s) PROVE LimitsAsked'
    BY <1>8, RouterAsked, PageAnsweredAsked DEF Settle
  <1>9. ASSUME NEW s \in Slots, Reject(s) PROVE LimitsAsked'
    BY <1>9, RejectAsked
  <1>10. ASSUME NEW p \in Senders, Sends(p) PROVE LimitsAsked'
    BY <1>2, <1>10 DEF Sends, tabVars, pageVars, SendGated, SendStored, SendRefused,
       SendCharged, SendUncharged
  <1>11. ASSUME NEW p \in Senders, Published(p) PROVE LimitsAsked'
    BY <1>2, <1>11 DEF Published
  <1>12. ASSUME NEW i \in 1..Sources, Streams(i) PROVE LimitsAsked'
    BY <1>2, <1>12 DEF Streams
  <1>13. ASSUME Others PROVE LimitsAsked'
    <2>1. CASE SessionExpires /\ UNCHANGED quotaPage
      <3>1. \A s \in Slots : AsksLimits(net'[s]) =>
               /\ AsksLimits(net[s])
               /\ net'[s].call.app = net[s].call.app
               /\ net'[s].answer = net[s].answer
        BY <2>1, ExpiryAnswers DEF AsksLimits
      <3> QED
        BY <1>1, <2>1, <3>1, SameAsked
    <2>2. CASE UNCHANGED <<net, quotaPage>>
      BY <1>2, <2>2
    <2> QED
      BY <1>13, <2>1, <2>2 DEF Others, OtherSaves, OtherClientSaves, tabVars, pageVars
  <1>14. ASSUME UNCHANGED vars PROVE LimitsAsked'
    BY <1>2, <1>14 DEF vars, state, tabVars, pageVars
  <1> QED
    BY <1>3, <1>4, <1>5, <1>6, <1>7, <1>8, <1>9, <1>10, <1>11, <1>12, <1>13, <1>14
       DEF Next, UserStep

\* The tab opens with nothing asked.
LEMMA InitAsked == Init => LimitsAsked
  <1> SUFFICES ASSUME Init PROVE LimitsAsked
    OBVIOUS
  <1> DEFINE n == [s \in Slots |-> Vacant]
             calls == CASE route = "home"  -> {}
                        [] route = "login" -> {MeCall("login")}
                        [] OTHER           -> {MeCall("layout")}
  <1>1. net = Send(n, calls)
    BY DEF Init
  <1>2. \A c \in calls : c.op # "limits"
    BY DEF MeCall
  <1>3. \A s \in Slots : ~AsksLimits(n[s])
    BY DEF AsksLimits
  <1>4. n = [s \in Slots |-> n[s]]
    OBVIOUS
  <1> HIDE DEF n, calls
  <1>5. \A s \in Slots : ~AsksLimits(net[s])
    BY <1>1, <1>2, <1>3, <1>4, SendAsksNone
  <1> QED
    BY <1>5 DEF Init, LimitsAsked, ShowsTokenAsked, QuotaShown, QuotaFresh

\* The card of the Quota page is the answer for the token last submitted, whatever
\* was typed, selected or navigated meanwhile (quota/page.tsx:51-75).
THEOREM CardIsOfTokenAsked == Spec => []ShowsTokenAsked
  <1>1. Init => Owned /\ LimitsAsked
    BY InitOwned, InitAsked
  <1>2. Owned /\ LimitsAsked /\ [Next]_vars => (Owned /\ LimitsAsked)'
    BY OwnedStep, AskedStep
  <1>3. LimitsAsked => ShowsTokenAsked
    BY DEF LimitsAsked
  <1> QED
    BY <1>1, <1>2, <1>3, PTL DEF Spec
=============================================================================
