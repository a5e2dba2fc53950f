-------------------------- MODULE DashboardProofs --------------------------
(***************************************************************************)
(* Theorems about Dashboard, for every value of its constants: any number  *)
(* of requests in flight, of faults, of senders and of event sources.      *)
(***************************************************************************)
EXTENDS Dashboard, QuotaGateProofs

-----------------------------------------------------------------------------
(* The dashboard's server charges sends the way QuotaGate does.            *)

\* A send by token takes one step of the gate.
LEMMA SendsStep ==
    ASSUME NEW p \in Senders, Sends(p)
    PROVE  QuotaNext
  <1>1. ASSUME NEW a \in Apps, NEW n \in 1..MaxRecipients, SendGated(p, a, n)
        PROVE  QuotaNext
    BY <1>1 DEF SendGated, QuotaNext
  <1>2. ASSUME SendStored(p) PROVE QuotaNext
    BY <1>2 DEF SendStored, QuotaNext
  <1>3. ASSUME SendRefused(p) PROVE QuotaNext
    BY <1>3 DEF SendRefused, QuotaNext
  <1>4. ASSUME SendCharged(p) \/ SendUncharged(p) PROVE QuotaNext
    BY <1>4 DEF SendCharged, SendUncharged, QuotaNext
  <1> QED
    BY <1>1, <1>2, <1>3, <1>4 DEF Sends

\* The tab, the streams and the rest of the server leave the gate alone.
LEMMA OtherStepsLeaveGate ==
    ASSUME \/ UserStep \/ HomeReplaced
           \/ \E s \in Slots : Served(s) \/ Settle(s) \/ Reject(s)
           \/ \E p \in Senders : Published(p)
           \/ \E i \in 1..Sources : Streams(i)
    PROVE  UNCHANGED quotaVars
  <1>1. ASSUME NEW valid \in BOOLEAN, OnSubmit(valid) PROVE UNCHANGED quotaVars
    BY <1>1 DEF OnSubmit, Deaf, serverVars
  <1>2. ASSUME NEW r \in Pages, GoTo(r) PROVE UNCHANGED quotaVars
    BY <1>2 DEF GoTo, Deaf, serverVars
  <1>3. ASSUME UserActs \/ HomeReplaced PROVE UNCHANGED quotaVars
    BY <1>3 DEF UserActs, HomeReplaced, Deaf, serverVars
  <1>4. ASSUME NEW s \in Slots, Served(s) PROVE UNCHANGED quotaVars
    BY <1>4 DEF Served
  <1>5. ASSUME NEW s \in Slots, Settle(s) PROVE UNCHANGED quotaVars
    BY <1>5 DEF Settle, LoginAnswered, LayoutProbed, PageAnswered, Unheard, Deaf,
       serverVars
  <1>6. ASSUME NEW s \in Slots, Reject(s) PROVE UNCHANGED quotaVars
    BY <1>6 DEF Reject, serverVars
  <1>7. ASSUME NEW p \in Senders, Published(p) PROVE UNCHANGED quotaVars
    BY <1>7 DEF Published
  <1>8. ASSUME NEW i \in 1..Sources, Streams(i) PROVE UNCHANGED quotaVars
    BY <1>8 DEF Streams, serverVars
  <1> QED
    BY <1>1, <1>2, <1>3, <1>4, <1>5, <1>6, <1>7, <1>8 DEF UserStep

\* Expiry and another client leave the gate alone; a month may end.
LEMMA OthersStep == Others => [QuotaNext]_quotaVars
  BY DEF Others, OtherSaves, QuotaNext

\* Whatever the tab does to the account, the counter follows prechargeQuota and
\* Increment: the dashboard implements QuotaGate.
THEOREM ImplementsQuotaGate == Spec => QuotaSpec
  <1>1. Init => QuotaInit
    BY DEF Init, ApiInit
  <1>2. [Next]_vars => [QuotaNext]_quotaVars
    <2> SUFFICES ASSUME [Next]_vars PROVE [QuotaNext]_quotaVars
      OBVIOUS
    <2>1. ASSUME NEW p \in Senders, Sends(p) PROVE [QuotaNext]_quotaVars
      BY <2>1, SendsStep
    <2>2. ASSUME Others PROVE [QuotaNext]_quotaVars
      BY <2>2, OthersStep
    <2>3. ASSUME UNCHANGED vars PROVE [QuotaNext]_quotaVars
      BY <2>3 DEF vars, state, serverVars, quotaVars
    <2> QED
      BY <2>1, <2>2, <2>3, OtherStepsLeaveGate DEF Next
  <1> QED
    BY <1>1, <1>2, PTL DEF Spec, QuotaSpec

\* With the dashboard at work too, a month is charged at most the limit plus the
\* highest cost once for each request goroutine but one (messages.go:283, Increment).
THEOREM DashboardOvershootBounded == Spec => []OvershootBounded
  BY ImplementsQuotaGate, OvershootIsBounded, PTL

-----------------------------------------------------------------------------
(* Requests in flight and the pages that own them.                         *)

\* e is a slot of the net: vacant, or a request of some page for some operation.
Entry(e) ==
    \/ e = Vacant
    \/ /\ e = [call |-> e.call, cookie |-> e.cookie, answer |-> e.answer]
       /\ {"page", "op"} \subseteq DOMAIN e.call
       /\ e.call = [x \in DOMAIN e.call |-> e.call[x]]
       /\ e.call.page \notin {"none", "blank"}

\* A page has requests in flight only while it is on screen, and the layout only
\* while it is loading, one at a time.
OwnedBy(n, page, l) ==
    /\ n = [s \in Slots |-> n[s]]
    /\ \A s \in Slots : Entry(n[s])
    /\ \A s \in Slots : n[s] # Vacant =>
          /\ n[s].call.page \in {page, "layout", "left", "gone"}
          /\ n[s].call.page = "layout" => l = "loading"
    /\ \A s, t \in Slots :
          n[s].call.page = "layout" /\ n[t].call.page = "layout" => s = t

Routed ==
    /\ route \in {"home", "login"} \cup Pages
    /\ layout \in {"none", "loading", "authed", "error"}
    /\ layout # "none" => route \in Pages

Owned == Routed /\ OwnedBy(net, Page, layout)

\* What calls a mount effect may make: at most one, by the page itself.
LEMMA MountCallsOf ==
    ASSUME NEW page
    PROVE  \A c \in MountCalls(page) :
              /\ c.page = page /\ page \in {"apps", "quota", "quiet-hours", "login"}
              /\ c = [x \in DOMAIN c |-> c[x]] /\ {"page", "op"} \subseteq DOMAIN c
  <1>1. CASE page = "apps"
    BY <1>1 DEF MountCalls, ListCall, AppsCall
  <1>2. CASE page = "quota"
    BY <1>2 DEF MountCalls, QuotaListCall
  <1>3. CASE page = "quiet-hours"
    BY <1>3 DEF MountCalls, QuietMeCall
  <1>4. CASE page = "login"
    BY <1>4 DEF MountCalls, MeCall
  <1>5. CASE page \notin {"apps", "quota", "quiet-hours", "login"}
    BY <1>5 DEF MountCalls
  <1> QED
    BY <1>1, <1>2, <1>3, <1>4, <1>5

\* Sending changes at most one slot, to a fresh request for one of the calls.
LEMMA SendSlots ==
    ASSUME NEW n, n = [s \in Slots |-> n[s]], NEW calls, NEW m, m = Send(n, calls)
    PROVE  /\ m = [s \in Slots |-> m[s]]
           /\ \E c, k : \A s \in Slots :
                 m[s] = n[s] \/ (s = k /\ c \in calls /\ m[s] = Request(c))
  <1>1. CASE calls = {}
    <2>1. m = n
      BY <1>1 DEF Send
    <2> QED
      BY <2>1
  <1>2. CASE calls # {}
    <2> DEFINE k == CHOOSE s \in Slots : n[s] = Vacant
               c == CHOOSE d \in calls : TRUE
    <2>1. c \in calls
      BY <1>2
    <2>2. m = [n EXCEPT ![k] = Request(c)]
      BY <1>2 DEF Send
    <2> HIDE DEF k, c
    <2>3. m = [s \in Slots |-> IF s = k THEN Request(c) ELSE n[s]]
      BY <2>2
    <2>4. \A s \in Slots : m[s] = n[s] \/ (s = k /\ c \in calls /\ m[s] = Request(c))
      BY <2>1, <2>3
    <2> QED
      BY <2>3, <2>4
  <1> QED
    BY <1>1, <1>2

\* What a page leaves in flight when it goes: nothing of its own.
LEMMA AbandonSlots ==
    ASSUME NEW n, n = [s \in Slots |-> n[s]], \A s \in Slots : Entry(n[s]), NEW leaving,
           leaving \cap {"left", "gone", "none"} = {}
    PROVE  /\ Abandon(n, leaving) = [s \in Slots |-> Abandon(n, leaving)[s]]
           /\ \A s \in Slots :
                 /\ Entry(Abandon(n, leaving)[s])
                 /\ \/ Abandon(n, leaving)[s] = Vacant
                    \/ /\ Abandon(n, leaving)[s] = n[s]
                       /\ n[s].call.page \notin leaving
                    \/ /\ Abandon(n, leaving)[s].call.page \in {"left", "gone"}
                       /\ n[s].call.page \in leaving
  <1> DEFINE A == Abandon(n, leaving)
  <1>1. A = [s \in Slots |-> A[s]]
    BY DEF Abandon
  <1>2. ASSUME NEW s \in Slots
        PROVE  /\ Entry(A[s])
               /\ \/ A[s] = Vacant
                  \/ A[s] = n[s] /\ n[s].call.page \notin leaving
                  \/ A[s].call.page \in {"left", "gone"} /\ n[s].call.page \in leaving
    <2>1. CASE n[s].call.page \notin leaving
      BY <2>1 DEF Abandon
    <2>2. CASE n[s].call.page \in leaving /\ ~Outlives(n[s].call)
      BY <2>2 DEF Abandon, Entry
    <2>3. CASE n[s].call.page \in leaving /\ Outlives(n[s].call)
      <3> DEFINE e == n[s]
                 to == IF e.call.page = "login" THEN "left" ELSE "gone"
                 c  == [e.call EXCEPT !.page = to]
      <3>1. A[s] = [e EXCEPT !.call = c]
        BY <2>3 DEF Abandon
      <3>2. e # Vacant
        BY <2>3 DEF Vacant
      <3>3. QED
        <4>1. /\ e = [call |-> e.call, cookie |-> e.cookie, answer |-> e.answer]
              /\ {"page", "op"} \subseteq DOMAIN e.call
              /\ e.call = [x \in DOMAIN e.call |-> e.call[x]]
          BY <3>2 DEF Entry
        <4>2. A[s] = [call |-> c, cookie |-> e.cookie, answer |-> e.answer]
          BY <3>1, <4>1
        <4>3. /\ c = [x \in DOMAIN c |-> c[x]] /\ {"page", "op"} \subseteq DOMAIN c
              /\ c.page = to
          BY <4>1
        <4>4. to \in {"left", "gone"}
          OBVIOUS
        <4> HIDE DEF c, to, A
        <4> QED
          BY <2>3, <4>2, <4>3, <4>4 DEF Entry
    <2> QED
      BY <2>1, <2>2, <2>3
  <1> QED
    BY <1>1, <1>2

\* A fresh request is an entry, for a call that is a record.
LEMMA RequestEntry ==
    ASSUME NEW c, c = [x \in DOMAIN c |-> c[x]], {"page", "op"} \subseteq DOMAIN c,
           c.page \notin {"none", "blank"}
    PROVE  Entry(Request(c)) /\ Request(c) # Vacant /\ Request(c).call = c
  BY DEF Entry, Request, Vacant

\* Routes and layouts determine the page.
LEMMA PageType == Routed => Page \in {"login", "blank"} \cup Pages
  BY DEF Routed, Page, PageAt, Pages

\* The router moves: what the old page waits for goes with it, and what the new
\* one asks is asked by the page on screen.
LEMMA NavigateOwned ==
    ASSUME Routed, NEW n, OwnedBy(n, Page, layout),
           NEW r \in {"login"} \cup Pages, Navigate(n, r)
    PROVE  Owned'
  <1>1. Routed'
    BY DEF Navigate, Routed
  <1>2. Page \in {"login", "blank"} \cup Pages
    BY PageType
  <1>3. CASE r # "login" /\ layout = "none"
    <2> DEFINE left == Abandon(n, {Page})
    <2>1. layout' = "loading" /\ route' = r
      BY <1>3 DEF Navigate
    <2>2. net' = Send(left, {MeCall("layout")})
      BY <1>3 DEF Navigate, Mount
    <2>3. /\ left = [s \in Slots |-> left[s]]
          /\ \A s \in Slots :
                /\ Entry(left[s])
                /\ left[s] = Vacant \/ left[s].call.page \in {"left", "gone"}
      <3> DEFINE gone == {Page}
      <3>1. gone \cap {"left", "gone", "none"} = {}
        BY <1>2 DEF Pages
      <3>2. n = [s \in Slots |-> n[s]] /\ \A s \in Slots : Entry(n[s])
        BY DEF OwnedBy
      <3>3. \A s \in Slots : n[s] # Vacant => n[s].call.page \in {Page, "left", "gone"}
        BY <1>3 DEF OwnedBy
      <3>4. /\ left = [s \in Slots |-> left[s]]
            /\ \A s \in Slots :
                  /\ Entry(left[s])
                  /\ \/ left[s] = Vacant
                     \/ left[s] = n[s] /\ n[s].call.page # Page
                     \/ left[s].call.page \in {"left", "gone"}
        <4>1. left = Abandon(n, gone) /\ \A p : p \notin gone => p # Page
          OBVIOUS
        <4> HIDE DEF left, gone
        <4> QED
          BY <3>1, <3>2, <4>1, AbandonSlots
      <3> HIDE DEF left
      <3> QED
        BY <3>3, <3>4
    <2> HIDE DEF left
    <2>8. left = [s \in Slots |-> left[s]]
      BY <2>3
    <2>4. /\ Entry(Request(MeCall("layout"))) /\ Request(MeCall("layout")) # Vacant
          /\ Request(MeCall("layout")).call.page = "layout"
      BY RequestEntry DEF MeCall
    <2>5. net' = [s \in Slots |-> net'[s]]
      BY <2>2, <2>8, SendSlots
    <2>6. PICK k : \A s \in Slots :
             net'[s] = left[s] \/ (s = k /\ net'[s] = Request(MeCall("layout")))
      BY <2>2, <2>3, SendSlots
    <2>7. Vacant.call.page # "layout"
      BY DEF Vacant
    <2> QED
      BY <1>1, <2>1, <2>3, <2>4, <2>5, <2>6, <2>7 DEF Owned, OwnedBy
  <1>4. CASE ~(r # "login" /\ layout = "none")
    <2> DEFINE new   == PageAt(r, layout')
               gone  == {Page} \cup (IF new = "login" THEN {"layout"} ELSE {})
               left  == Abandon(n, gone)
               calls == MountCalls(new)
    <2>1. layout' = (IF r = "login" THEN "none" ELSE layout) /\ route' = r
      BY <1>4 DEF Navigate
    <2>2. net' = Send(left, calls)
      BY <1>4 DEF Navigate, Mount
    <2>3. Page' = new
      BY <2>1 DEF Page
    <2>4. gone \cap {"left", "gone", "none"} = {}
      BY <1>2 DEF Pages
    <2>14. Page \in gone
      OBVIOUS
    <2>15. new = "login" => "layout" \in gone
      OBVIOUS
    <2> HIDE DEF gone
    <2>5. /\ left = [s \in Slots |-> left[s]]
          /\ \A s \in Slots :
                /\ Entry(left[s])
                /\ \/ left[s] = Vacant \/ left[s].call.page \in {"left", "gone"}
                   \/ left[s] = n[s] /\ n[s].call.page \notin gone
      BY <2>4, AbandonSlots DEF OwnedBy
    <2>16. Vacant.call.page # "layout"
      BY DEF Vacant
    <2> HIDE DEF left, calls
    <2>6. PICK c, k : \A s \in Slots :
             net'[s] = left[s] \/ (s = k /\ c \in calls /\ net'[s] = Request(c))
      BY <2>2, <2>5, SendSlots
    <2>7. net' = [s \in Slots |-> net'[s]]
      BY <2>2, <2>5, SendSlots
    <2>8. ASSUME NEW s \in Slots, net'[s] # left[s]
          PROVE  /\ Entry(net'[s])
                 /\ net'[s].call.page = new
                 /\ new \in {"apps", "quota", "quiet-hours", "login"}
      <3>1. c \in calls /\ net'[s] = Request(c)
        BY <2>6, <2>8
      <3>2. /\ c.page = new /\ new \in {"apps", "quota", "quiet-hours", "login"}
            /\ c = [x \in DOMAIN c |-> c[x]] /\ {"page", "op"} \subseteq DOMAIN c
        BY <3>1, MountCallsOf DEF calls
      <3> QED
        BY <3>1, <3>2, RequestEntry
    <2> HIDE DEF new
    <2>9. ASSUME NEW s \in Slots, left[s] = n[s], n[s].call.page \notin gone, n[s] # Vacant
          PROVE  /\ n[s].call.page \in {"layout", "left", "gone"}
                 /\ n[s].call.page = "layout" => layout' = "loading"
      BY <2>9, <2>1, <2>14, <2>15 DEF OwnedBy, PageAt, new
    <2>10. ASSUME NEW s \in Slots, net'[s].call.page = "layout"
           PROVE  net'[s] = n[s]
      BY <2>10, <2>5, <2>8, <2>16
    <2>11. \A s \in Slots : Entry(net'[s])
      BY <2>5, <2>8
    <2>12. ASSUME NEW s \in Slots, net'[s] # Vacant
           PROVE  /\ net'[s].call.page \in {Page', "layout", "left", "gone"}
                  /\ net'[s].call.page = "layout" => layout' = "loading"
      BY <2>12, <2>3, <2>5, <2>8, <2>9
    <2>13. ASSUME NEW s \in Slots, NEW t \in Slots,
                  net'[s].call.page = "layout", net'[t].call.page = "layout"
           PROVE  s = t
      BY <2>13, <2>10 DEF OwnedBy
    <2> QED
      BY <1>1, <2>7, <2>11, <2>12, <2>13 DEF Owned, OwnedBy
  <1> QED
    BY <1>3, <1>4

\* Without navigation: every request in flight is one of before, or one whose page
\* is on screen, or one that has outlived its page.
LEMMA StayOwned ==
    ASSUME Owned, UNCHANGED <<route, layout>>,
           net' = [s \in Slots |-> net'[s]],
           \A s \in Slots :
              /\ Entry(net'[s])
              /\ \/ net'[s] = Vacant
                 \/ net'[s].call.page \in {Page, "left", "gone"}
                 \/ net'[s].call.page = net[s].call.page
    PROVE  Owned'
  <1>1. Routed' /\ Page' = Page
    BY DEF Owned, Routed, Page
  <1>2. Page # "layout"
    BY PageType DEF Owned, Pages
  <1>3. Vacant.call.page = "none"
    BY DEF Vacant
  <1>4. ASSUME NEW s \in Slots, net'[s].call.page = "layout"
        PROVE  net[s].call.page = "layout"
    BY <1>2, <1>3, <1>4
  <1>5. ASSUME NEW s \in Slots, net'[s] # Vacant
        PROVE  /\ net'[s].call.page \in {Page, "layout", "left", "gone"}
               /\ net'[s].call.page = "layout" => layout = "loading"
    <2>1. CASE net'[s].call.page \in {Page, "left", "gone"}
      BY <1>2, <2>1
    <2>2. CASE net'[s].call.page = net[s].call.page
      <3>1. net[s] # Vacant
        BY <1>3, <1>5, <2>2 DEF Entry
      <3> QED
        BY <2>2, <3>1 DEF Owned, OwnedBy
    <2> QED
      BY <1>5, <2>1, <2>2
  <1>6. ASSUME NEW s \in Slots, NEW t \in Slots,
               net'[s].call.page = "layout", net'[t].call.page = "layout"
        PROVE  s = t
    BY <1>4, <1>6 DEF Owned, OwnedBy
  <1> QED
    BY <1>1, <1>5, <1>6 DEF Owned, OwnedBy

\* An answer changes the answer only.
LEMMA ReplyOwned ==
    ASSUME Owned, UNCHANGED <<route, layout>>, NEW s \in Slots, InFlight(s), NEW a,
           net' = Reply(s, a)
    PROVE  Owned'
  <1>1. net[s] = [call |-> net[s].call, cookie |-> net[s].cookie,
                  answer |-> net[s].answer]
    BY DEF Owned, OwnedBy, Entry, InFlight
  <1>2. net = [t \in Slots |-> net[t]]
    BY DEF Owned, OwnedBy
  <1>3. net'[s] = [call |-> net[s].call, cookie |-> net[s].cookie, answer |-> a]
    BY <1>1, <1>2 DEF Reply
  <1>4. /\ net' = [t \in Slots |-> net'[t]]
        /\ \A t \in Slots : t # s => net'[t] = net[t]
    BY <1>2 DEF Reply
  <1>5. Entry(net'[s]) /\ net'[s].call.page = net[s].call.page
    BY <1>3 DEF Owned, OwnedBy, Entry, InFlight
  <1>6. \A t \in Slots : Entry(net'[t]) /\ net'[t].call.page = net[t].call.page
    BY <1>4, <1>5 DEF Owned, OwnedBy
  <1> QED
    BY <1>4, <1>6, StayOwned

\* A slot is emptied, or taken by the next call of the handler it belongs to.
LEMMA SettleOwned ==
    ASSUME Owned, UNCHANGED <<route, layout>>, NEW s \in Slots,
           \/ net' = Done(s)
           \/ \E c : /\ net' = Follow(s, c) /\ c.page = net[s].call.page
                     /\ c.page \notin {"none", "blank"}
                     /\ c = [x \in DOMAIN c |-> c[x]] /\ {"page", "op"} \subseteq DOMAIN c
    PROVE  Owned'
  <1>1. net = [t \in Slots |-> net[t]] /\ \A t \in Slots : Entry(net[t])
    BY DEF Owned, OwnedBy
  <1>2. CASE net' = Done(s)
    <2>1. \A t \in Slots : net'[t] = Vacant \/ net'[t] = net[t]
      BY <1>1, <1>2 DEF Done
    <2>2. net' = [t \in Slots |-> net'[t]]
      BY <1>1, <1>2 DEF Done
    <2> QED
      BY <1>1, <2>1, <2>2, StayOwned DEF Entry
  <1>3. ASSUME NEW c, net' = Follow(s, c), c.page = net[s].call.page,
               c.page \notin {"none", "blank"},
               c = [x \in DOMAIN c |-> c[x]], {"page", "op"} \subseteq DOMAIN c
        PROVE  Owned'
    <2>1. Entry(Request(c)) /\ Request(c).call = c
      BY <1>3, RequestEntry
    <2>2. \A t \in Slots : net'[t] = net[t] \/ (t = s /\ net'[t] = Request(c))
      BY <1>1, <1>3 DEF Follow
    <2>3. net' = [t \in Slots |-> net'[t]]
      BY <1>1, <1>3 DEF Follow
    <2>4. \A t \in Slots : Entry(net'[t]) /\ net'[t].call.page = net[t].call.page
      BY <1>1, <1>3, <2>1, <2>2
    <2> QED
      BY <2>3, <2>4, StayOwned
  <1> QED
    BY <1>2, <1>3

\* A call by the page on screen.
LEMMA SendOwned ==
    ASSUME Owned, UNCHANGED <<route, layout>>, NEW c, c.page = Page, Page # "blank",
           c = [x \in DOMAIN c |-> c[x]], {"page", "op"} \subseteq DOMAIN c,
           net' = Send(net, {c})
    PROVE  Owned'
  <1>1. net = [t \in Slots |-> net[t]] /\ \A t \in Slots : Entry(net[t])
    BY DEF Owned, OwnedBy
  <1>2. Page # "none"
    BY PageType DEF Owned, Pages
  <1>3. Entry(Request(c)) /\ Request(c).call = c
    BY <1>2, RequestEntry
  <1>4. net = [t \in Slots |-> net[t]]
    BY <1>1
  <1>5. net' = [t \in Slots |-> net'[t]]
    BY <1>4, SendSlots
  <1>6. PICK d, k : \A t \in Slots :
           net'[t] = net[t] \/ (t = k /\ d \in {c} /\ net'[t] = Request(d))
    BY <1>4, SendSlots
  <1>7. \A t \in Slots : net'[t] = net[t] \/ net'[t] = Request(c)
    BY <1>6
  <1>8. ASSUME NEW t \in Slots
        PROVE  /\ Entry(net'[t])
               /\ net'[t].call.page = Page \/ net'[t].call.page = net[t].call.page
    BY <1>1, <1>3, <1>7
  <1> QED
    BY <1>5, <1>8, StayOwned

\* Whatever the server does for a request, it answers it.
LEMMA ServeReplies ==
    ASSUME NEW s \in Slots, Serve(s)
    PROVE  Waits(s) /\ InFlight(s) /\ \E a : net' = Reply(s, a)
  <1>1. Waits(s) /\ \E a : net' = Reply(s, a)
    <2>1. CASE Unauthorized(s) \/ ServerError(s)
      BY <2>1 DEF Unauthorized, ServerError
    <2>2. CASE Login(s) \/ LoginFails(s) \/ Me(s)
      BY <2>2 DEF Login, LoginFails, Me, Is
    <2>3. CASE ListApps(s) \/ CreateApp(s) \/ DeleteApp(s)
      BY <2>3 DEF ListApps, CreateApp, DeleteApp, Is
    <2>4. CASE HeaderReset(s) \/ HeaderCount(s) \/ HeaderFailsOpen(s)
      BY <2>4 DEF HeaderReset, HeaderCount, HeaderFailsOpen, Is
    <2>5. CASE LimitsReset(s) \/ LimitsTokenFails(s) \/ Limits(s)
      BY <2>5 DEF LimitsReset, LimitsTokenFails, Limits, Is
    <2>6. CASE QuietHours(s)
      BY <2>6 DEF QuietHours, Is
    <2>7. CASE DeviceLogin(s)
      BY <2>7 DEF DeviceLogin, Is
    <2> QED
      BY <2>1, <2>2, <2>3, <2>4, <2>5, <2>6, <2>7 DEF Serve, ServeLimits
  <1> QED
    BY <1>1 DEF Waits

\* The pages' handlers settle with the slot empty or with a call of the Apps page.
LEMMA PageAnsweredNet ==
    ASSUME NEW s \in Slots, PageAnswered(s)
    PROVE  \/ net' = Done(s)
           \/ \E c : /\ net' = Follow(s, c) /\ c.page = "apps" /\ FromPage(s, "apps")
                     /\ c = [x \in DOMAIN c |-> c[x]] /\ {"page", "op"} \subseteq DOMAIN c
  <1>1. \A op, awaits, a, sel :
          LET c == AppsCall(op, awaits, a, sel)
          IN  /\ c.page = "apps" /\ {"page", "op"} \subseteq DOMAIN c
              /\ c = [x \in DOMAIN c |-> c[x]]
    BY DEF AppsCall
  <1>2. CASE AppsAnswered(s)
    <2>1. \A op, awaits : Awaits(s, op, awaits) => FromPage(s, "apps")
      BY DEF Awaits
    <2>2. CASE AppsLoaded(s) \/ LimitsRead(s) \/ CreatedShown(s) \/ DeletedListed(s)
      BY <2>2 DEF AppsLoaded, LimitsRead, CreatedShown, DeletedListed
    <2>3. CASE Created(s)
      BY <1>1, <2>1, <2>3 DEF Created, ListCall
    <2>4. CASE CreatedListed(s)
      BY <1>1, <2>1, <2>4 DEF CreatedListed, ListCall
    <2>5. CASE CreatedFound(s)
      BY <1>1, <2>1, <2>5 DEF CreatedFound, LimitsCall
    <2>6. CASE Deleted(s)
      BY <1>1, <2>1, <2>6 DEF Deleted, ListCall
    <2> QED
      BY <1>2, <2>2, <2>3, <2>4, <2>5, <2>6 DEF AppsAnswered
  <1>3. CASE QuotaAnswered(s) \/ QuietAnswered(s) \/ Registered(s)
    BY <1>3 DEF QuotaAnswered, QuietAnswered, Registered
  <1> QED
    BY <1>2, <1>3 DEF PageAnswered

\* The user's clicks on a page call the server in the name of that page, at most once.
LEMMA UserActsNet ==
    ASSUME UserActs
    PROVE  \/ net' = net
           \/ \E c : /\ net' = Send(net, {c}) /\ c.page = Page /\ Page # "blank"
                     /\ c = [x \in DOMAIN c |-> c[x]] /\ {"page", "op"} \subseteq DOMAIN c
  <1>1. ASSUME Page = "apps", AppsUser
        PROVE  \E op, awaits, a, sel : net' = Send(net, {AppsCall(op, awaits, a, sel)})
    BY <1>1 DEF AppsUser, ShowLimits, OnCreate, OnDelete, AppsClick, LimitsCall
  <1>2. ASSUME Page = "quota", QuotaUser
        PROVE  net' = net \/ \E a : net' = Send(net, {QuotaLimitsCall(a)})
    BY <1>2 DEF QuotaUser, TypeToken, LoadLimits
  <1>3. ASSUME Page = "quiet-hours", QuietUser
        PROVE  net' = net \/ \E w, clear : net' = Send(net, {SaveCall(w, clear)})
    BY <1>3 DEF QuietUser, Save, EditForm
  <1>4. ASSUME Page = "messages", MessagesUser
        PROVE  net' = net \/ net' = Send(net, {RegisterCall})
    BY <1>4 DEF MessagesUser, RegisterViewer, PasteCredentials, Connect, ConnectOver,
       Disconnect
  <1>5. /\ \A op, awaits, a, sel :
             LET c == AppsCall(op, awaits, a, sel)
             IN  /\ c.page = "apps" /\ {"page", "op"} \subseteq DOMAIN c
                 /\ c = [x \in DOMAIN c |-> c[x]]
        /\ \A a : LET c == QuotaLimitsCall(a)
                  IN  /\ c.page = "quota" /\ {"page", "op"} \subseteq DOMAIN c
                      /\ c = [x \in DOMAIN c |-> c[x]]
        /\ \A w, clear :
             LET c == SaveCall(w, clear)
             IN  /\ c.page = "quiet-hours" /\ {"page", "op"} \subseteq DOMAIN c
                 /\ c = [x \in DOMAIN c |-> c[x]]
        /\ LET c == RegisterCall
           IN  /\ c.page = "messages" /\ {"page", "op"} \subseteq DOMAIN c
               /\ c = [x \in DOMAIN c |-> c[x]]
    BY DEF AppsCall, QuotaLimitsCall, SaveCall, RegisterCall
  <1>6. CASE Page = "apps" /\ AppsUser
    BY <1>1, <1>5, <1>6
  <1>7. CASE Page = "quota" /\ QuotaUser
    BY <1>2, <1>5, <1>7
  <1>8. CASE Page = "quiet-hours" /\ QuietUser
    BY <1>3, <1>5, <1>8
  <1>9. CASE Page = "messages" /\ MessagesUser
    BY <1>4, <1>5, <1>9
  <1> QED
    BY <1>6, <1>7, <1>8, <1>9 DEF UserActs

\* A rejected request is gone, or goes on without its page.
LEMMA RejectOwned ==
    ASSUME Owned, NEW s \in Slots, Reject(s)
    PROVE  Owned'
  <1>1. net = [t \in Slots |-> net[t]] /\ \A t \in Slots : Entry(net[t])
    BY DEF Owned, OwnedBy
  <1>2. route' = route
    BY DEF Reject
  <1> DEFINE c == [net[s].call EXCEPT !.page = "gone"]
             r == [net[s] EXCEPT !.call = c]
  <1>5. net' = Done(s) \/ net' = [net EXCEPT ![s] = r]
    BY DEF Reject
  <1>6. Entry(r) /\ r.call.page = "gone"
    <2>1. /\ net[s] = [call |-> net[s].call, cookie |-> net[s].cookie,
                       answer |-> net[s].answer]
          /\ {"page", "op"} \subseteq DOMAIN net[s].call
          /\ net[s].call = [x \in DOMAIN net[s].call |-> net[s].call[x]]
      BY <1>1 DEF Entry, Reject, InFlight
    <2>2. r = [call |-> c, cookie |-> net[s].cookie, answer |-> net[s].answer]
      BY <2>1
    <2>3. /\ c = [x \in DOMAIN c |-> c[x]] /\ {"page", "op"} \subseteq DOMAIN c
          /\ c.page = "gone"
      BY <2>1
    <2> HIDE DEF c
    <2> QED
      BY <2>2, <2>3 DEF Entry
  <1> HIDE DEF r
  <1>3. CASE FromPage(s, "layout")
    <2>1. layout = "loading" /\ layout' = "error"
      BY <1>3 DEF Reject, Owned, OwnedBy, FromPage, InFlight
    <2>2. Page' = Page /\ Routed'
      BY <1>2, <2>1 DEF Page, PageAt, Owned, Routed
    <2>3. \A t \in Slots : t # s => net'[t] = net[t]
      BY <1>1, <1>5 DEF Done
    <2>4. net' = [t \in Slots |-> net'[t]]
      BY <1>1, <1>5 DEF Done
    <2>5. net'[s] = Vacant \/ net'[s] = r
      BY <1>1, <1>5 DEF Done
    <2>6. Entry(net'[s]) /\ (net'[s] = Vacant \/ net'[s].call.page = "gone")
      BY <1>6, <2>5 DEF Entry
    <2>7. Vacant.call.page = "none"
      BY DEF Vacant
    <2>8. \A t \in Slots : net'[t].call.page = "layout" => FALSE
      BY <1>3, <2>3, <2>6, <2>7 DEF Owned, OwnedBy, FromPage
    <2> QED
      BY <1>1, <2>2, <2>3, <2>4, <2>6, <2>8 DEF Owned, OwnedBy
  <1>4. CASE ~FromPage(s, "layout")
    <2>1. layout' = layout
      BY <1>4 DEF Reject
    <2>2. CASE net' = Done(s)
      BY <1>2, <2>1, <2>2, SettleOwned
    <2>3. CASE net' = [net EXCEPT ![s] = r]
      <3>2. Entry(net'[s]) /\ net'[s].call.page = "gone"
        BY <1>1, <1>6, <2>3
      <3>3. /\ net' = [t \in Slots |-> net'[t]]
            /\ \A t \in Slots : t # s => net'[t] = net[t]
        BY <1>1, <2>3
      <3>4. \A t \in Slots :
               /\ Entry(net'[t])
               /\ net'[t].call.page = "gone" \/ net'[t].call.page = net[t].call.page
        BY <1>1, <3>2, <3>3
      <3> QED
        BY <1>2, <2>1, <3>3, <3>4, StayOwned
    <2> QED
      BY <1>5, <2>2, <2>3
  <1> QED
    BY <1>3, <1>4

\* Taking an answered request out of the net disturbs no other.
LEMMA DoneOwned ==
    ASSUME NEW page, NEW l, OwnedBy(net, page, l), NEW s \in Slots
    PROVE  OwnedBy(Done(s), page, l)
  <1>1. /\ Done(s) = [t \in Slots |-> Done(s)[t]]
        /\ \A t \in Slots : Done(s)[t] = Vacant \/ Done(s)[t] = net[t]
    BY DEF Done, OwnedBy
  <1>2. Vacant.call.page = "none"
    BY DEF Vacant
  <1> QED
    BY <1>1, <1>2 DEF OwnedBy, Entry

\* Nothing in flight and no page: the net is unchanged.
LEMMA QuietOwned ==
    ASSUME Owned, UNCHANGED <<net, route, layout>>
    PROVE  Owned'
  BY DEF Owned, OwnedBy, Routed, Page

\* A login page's answer moves the router, or is heard by nobody.
LEMMA LoginAnsweredOwned ==
    ASSUME Owned, NEW s \in Slots, LoginAnswered(s)
    PROVE  Owned'
  <1>1. OwnedBy(Done(s), Page, layout)
    BY DoneOwned DEF Owned
  <1>2. "overview" \in Pages
    BY DEF Pages
  <1>3. CASE Stay(Done(s))
    BY <1>3, SettleOwned DEF Stay, routeVars
  <1>4. CASE Navigate(Done(s), "overview")
    BY <1>1, <1>2, <1>4, NavigateOwned DEF Owned
  <1>5. CASE net' = Done(s) /\ UNCHANGED <<route, layout>>
    BY <1>5, SettleOwned
  <1>6. CASE Stay(net)
    BY <1>6, QuietOwned DEF Stay, routeVars
  <1> QED
    BY <1>3, <1>4, <1>5, <1>6 DEF LoginAnswered, LoginProbed, CookieStored, LoggedIn,
       ToDashboard

\* The layout's answer: the layout loads no more, and asks nothing else.
LEMMA LayoutProbedOwned ==
    ASSUME Owned, NEW s \in Slots, LayoutProbed(s)
    PROVE  Owned'
  <1>1. /\ layout = "loading" /\ route \in Pages /\ FromPage(s, "layout")
        /\ net[s] # Vacant
    BY DEF LayoutProbed, Owned, OwnedBy, Routed, FromPage, Answered, InFlight
  <1>2. OwnedBy(Done(s), Page, layout) /\ Page = "blank"
    BY <1>1, DoneOwned DEF Owned, Page, PageAt, Pages
  <1>3. CASE Navigate(Done(s), "login")
    BY <1>2, <1>3, NavigateOwned DEF Owned
  <1>4. CASE /\ layout' = "authed" /\ route' = route
             /\ Mount(Done(s), "blank", route, MountCalls(route))
    <2> DEFINE left  == Abandon(Done(s), {"blank"} \cup (IF route = "login" THEN {"layout"} ELSE {}))
               calls == MountCalls(route)
    <2>1. Page' = route /\ Routed' /\ route # "login"
      BY <1>1, <1>4 DEF Page, PageAt, Owned, Routed, Pages
    <2>2. net' = Send(left, calls)
      BY <1>4 DEF Mount
    <2>3. /\ left = [t \in Slots |-> left[t]]
          /\ \A t \in Slots :
                /\ Entry(left[t])
                /\ \/ left[t] = Vacant \/ left[t].call.page \in {"left", "gone"}
                   \/ left[t] = Done(s)[t]
      BY <1>2, <2>1, AbandonSlots DEF OwnedBy
    <2> HIDE DEF left, calls
    <2>4. left = [t \in Slots |-> left[t]]
      BY <2>3
    <2>5. net' = [t \in Slots |-> net'[t]]
      BY <2>2, <2>4, SendSlots
    <2>6. PICK c, k : \A t \in Slots :
             net'[t] = left[t] \/ (t = k /\ c \in calls /\ net'[t] = Request(c))
      BY <2>2, <2>4, SendSlots
    <2>7. Vacant.call.page = "none"
      BY DEF Vacant
    <2>8. ASSUME NEW t \in Slots
          PROVE  /\ left[t].call.page # "layout"
                 /\ left[t] = Vacant \/ left[t].call.page \in {"left", "gone"}
      <3>1. CASE left[t] = Done(s)[t] /\ left[t] # Vacant
        <4>1. t # s /\ left[t] = net[t]
          BY <1>1, <3>1 DEF Done, Owned, OwnedBy
        <4>2. net[t].call.page # "layout"
          BY <1>1, <4>1 DEF Owned, OwnedBy, FromPage
        <4>3. net[t].call.page \in {"blank", "layout", "left", "gone"}
          BY <1>2, <3>1, <4>1 DEF Owned, OwnedBy
        <4>4. net[t].call.page # "blank"
          BY <3>1, <4>1 DEF Owned, OwnedBy, Entry
        <4> QED
          BY <3>1, <4>1, <4>2, <4>3, <4>4
      <3> QED
        BY <2>3, <2>7, <3>1
    <2>9. ASSUME NEW t \in Slots, net'[t] # left[t]
          PROVE  Entry(net'[t]) /\ net'[t].call.page = route
      <3>1. c \in calls /\ net'[t] = Request(c)
        BY <2>6, <2>9
      <3>2. /\ c.page = route /\ route \in {"apps", "quota", "quiet-hours", "login"}
            /\ c = [x \in DOMAIN c |-> c[x]] /\ {"page", "op"} \subseteq DOMAIN c
        BY <3>1, MountCallsOf DEF calls
      <3> QED
        BY <3>1, <3>2, RequestEntry
    <2>10. \A t \in Slots :
              /\ Entry(net'[t]) /\ net'[t].call.page # "layout"
              /\ \/ net'[t] = Vacant
                 \/ net'[t].call.page \in {route, "left", "gone"}
      BY <1>1, <2>3, <2>8, <2>9 DEF Pages
    <2> QED
      BY <2>1, <2>5, <2>10 DEF Owned, OwnedBy
  <1> QED
    BY <1>3, <1>4 DEF LayoutProbed

\* A session that expires changes nothing but the cookies requests travel with.
LEMMA ExpiryOwned ==
    ASSUME Owned, SessionExpires, UNCHANGED <<route, layout>>
    PROVE  Owned'
  <1>1. \A t \in Slots : Entry(net[t])
    BY DEF Owned, OwnedBy
  <1>2. net' = [t \in Slots |-> net'[t]]
    BY DEF SessionExpires
  <1>3. ASSUME NEW t \in Slots
        PROVE  Entry(net'[t]) /\ net'[t].call.page = net[t].call.page
    <2>1. CASE net'[t] = net[t]
      BY <1>1, <2>1
    <2>2. CASE Waits(t) /\ net'[t] = [net[t] EXCEPT !.cookie = FALSE]
      <3>1. net[t] = [call |-> net[t].call, cookie |-> net[t].cookie,
                      answer |-> net[t].answer]
        BY <1>1, <2>2 DEF Entry, Waits, InFlight
      <3>2. net'[t] = [call |-> net[t].call, cookie |-> FALSE, answer |-> net[t].answer]
        BY <2>2, <3>1
      <3> QED
        BY <1>1, <2>2, <3>2 DEF Entry, Waits, InFlight
    <2> QED
      BY <2>1, <2>2 DEF SessionExpires
  <1> QED
    BY <1>2, <1>3, StayOwned

\* The first request of a tab is the mount effect's of what its address shows.
LEMMA InitOwned == Init => Owned
  <1> SUFFICES ASSUME Init PROVE Owned
    OBVIOUS
  <1>1. PICK v \in Visits : visit = v
    BY DEF Init
  <1>2. v.pages \subseteq Pages
    BY <1>1, DashboardAssumption
  <1>3. /\ route \in {"home", "login"} \cup Pages
        /\ layout = IF route \in Pages THEN "loading" ELSE "none"
    BY <1>1, <1>2 DEF Init
  <1>4. Routed
    BY <1>3 DEF Routed
  <1> DEFINE empty == [s \in Slots |-> Vacant]
             calls == CASE route = "home"  -> {}
                        [] route = "login" -> {MeCall("login")}
                        [] OTHER           -> {MeCall("layout")}
  <1>5. net = Send(empty, calls)
    BY DEF Init
  <1>6. \A c \in calls :
           /\ c = [x \in DOMAIN c |-> c[x]] /\ {"page", "op"} \subseteq DOMAIN c
           /\ c.page \notin {"none", "blank"}
           /\ c.page = Page \/ (c.page = "layout" /\ layout = "loading")
    <2>1. CASE route = "home"
      BY <2>1
    <2>2. CASE route = "login"
      <3>1. \A c \in calls : c = MeCall("login")
        BY <2>2
      <3>2. Page = "login"
        BY <2>2 DEF Page, PageAt
      <3> HIDE DEF calls
      <3> QED
        BY <3>1, <3>2 DEF MeCall
    <2>3. CASE route \in Pages
      BY <1>3, <2>3 DEF MeCall, Pages
    <2> QED
      BY <1>3, <2>1, <2>2, <2>3
  <1>7. empty = [s \in Slots |-> empty[s]] /\ \A s \in Slots : empty[s] = Vacant
    OBVIOUS
  <1> HIDE DEF empty, calls
  <1>8. empty = [s \in Slots |-> empty[s]]
    BY <1>7
  <1>9. net = [s \in Slots |-> net[s]]
    BY <1>5, <1>8, SendSlots
  <1>10. PICK c, k : \A s \in Slots :
            net[s] = empty[s] \/ (s = k /\ c \in calls /\ net[s] = Request(c))
    BY <1>5, <1>8, SendSlots
  <1>11. \A s \in Slots : net[s] = Vacant \/ (s = k /\ c \in calls /\ net[s] = Request(c))
    BY <1>7, <1>10
  <1>12. Vacant.call.page = "none"
    BY DEF Vacant
  <1>13. ASSUME c \in calls
         PROVE  /\ Entry(Request(c)) /\ Request(c).call = c
                /\ c.page = Page \/ (c.page = "layout" /\ layout = "loading")
    BY <1>6, <1>13, RequestEntry
  <1>14. Page # "layout"
    BY <1>4, PageType DEF Pages
  <1> QED
    BY <1>4, <1>9, <1>11, <1>12, <1>13, <1>14 DEF Owned, OwnedBy, Entry

\* No step of the tab, the server or the others breaks the ownership.
LEMMA OwnedStep == Owned /\ [Next]_vars => Owned'
  <1> SUFFICES ASSUME Owned, [Next]_vars PROVE Owned'
    OBVIOUS
  <1>1. ASSUME NEW valid \in BOOLEAN, OnSubmit(valid) PROVE Owned'
    <2>1. LET c == LoginCall(valid)
          IN  /\ c.page = Page /\ Page # "blank"
              /\ c = [x \in DOMAIN c |-> c[x]] /\ {"page", "op"} \subseteq DOMAIN c
      BY <1>1 DEF OnSubmit, LoginCall
    <2> QED
      BY <1>1, <2>1, SendOwned DEF OnSubmit
  <1>2. ASSUME NEW r \in Pages, GoTo(r) PROVE Owned'
    BY <1>2, NavigateOwned DEF GoTo, Owned
  <1>3. ASSUME UserActs PROVE Owned'
    BY <1>3, UserActsNet, SendOwned, QuietOwned DEF UserActs, routeVars
  <1>4. ASSUME HomeReplaced PROVE Owned'
    BY <1>4, NavigateOwned DEF HomeReplaced, Owned, Pages
  <1>5. ASSUME NEW s \in Slots, Served(s) PROVE Owned'
    BY <1>5, ServeReplies, ReplyOwned DEF Served, routeVars
  <1>6. ASSUME NEW s \in Slots, Settle(s) PROVE Owned'
    <2>1. CASE LoginAnswered(s)
      BY <2>1, LoginAnsweredOwned
    <2>2. CASE LayoutProbed(s)
      BY <2>2, LayoutProbedOwned
    <2>3. CASE PageAnswered(s)
      BY <2>3, PageAnsweredNet, SettleOwned DEF PageAnswered, routeVars, FromPage
    <2>4. CASE Unheard(s)
      BY <2>4, SettleOwned DEF Unheard, Stay, routeVars
    <2> QED
      BY <1>6, <2>1, <2>2, <2>3, <2>4 DEF Settle
  <1>7. ASSUME NEW s \in Slots, Reject(s) PROVE Owned'
    BY <1>7, RejectOwned
  <1>8. ASSUME NEW p \in Senders, Sends(p) PROVE Owned'
    BY <1>8, QuietOwned DEF Sends, tabVars, routeVars, SendGated, SendStored,
       SendRefused, SendCharged, SendUncharged
  <1>9. ASSUME NEW p \in Senders, Published(p) PROVE Owned'
    BY <1>9, QuietOwned DEF Published, routeVars
  <1>10. ASSUME NEW i \in 1..Sources, Streams(i) PROVE Owned'
    BY <1>10, QuietOwned DEF Streams, routeVars
  <1>11. ASSUME Others PROVE Owned'
    BY <1>11, QuietOwned, ExpiryOwned DEF Others, OtherSaves, OtherClientSaves, tabVars,
       routeVars
  <1>12. ASSUME UNCHANGED vars PROVE Owned'
    BY <1>12, QuietOwned DEF vars, state, tabVars, routeVars
  <1> QED
    BY <1>1, <1>2, <1>3, <1>4, <1>5, <1>6, <1>7, <1>8, <1>9, <1>10, <1>11, <1>12
       DEF Next, UserStep

\* No answer ever reaches a page that is not on screen, and the layout has one
\* probe in flight at most: what the effects' cleanups and React's dropping of
\* updates of unmounted components are for (layout.tsx:73, quiet-hours/page.tsx:49).
THEOREM AnswersReachTheirPage == Spec => []Owned
  <1>1. Init => Owned
    BY InitOwned
  <1>2. Owned /\ [Next]_vars => Owned'
    BY OwnedStep
  <1> QED
    BY <1>1, <1>2, PTL DEF Spec

-----------------------------------------------------------------------------
(* Event sources: at most one, and the page holds it.                      *)

States4 == {"none", "connecting", "open", "closed"}

\* What the argument needs of the variables' types.
StreamShape ==
    /\ source = [i \in 1..Sources |-> source[i]]
    /\ \A i \in 1..Sources :
          "readyState" \in DOMAIN source[i] /\ source[i].readyState \in States4
    /\ {"conn", "ref"} \subseteq DOMAIN messagesPage
    /\ messagesPage.ref \in 0..Sources

\* OneStream and DotIsTrue hold because the reference is kept in step with the
\* sources: it is set when one is made, dropped when that one is closed, and off
\* the page there is none.
StreamHeld ==
    LET ref == messagesPage.ref IN
    /\ \A i \in 1..Sources : Exists(i) => ref = i
    /\ ref # NoRef => Exists(ref)
    /\ messagesPage.conn = "idle" <=> ref = NoRef
    /\ messagesPage.conn = "open" <=> (ref # NoRef /\ IsOpen(ref))
    /\ Page # "messages" => ref = NoRef

StreamInv == StreamShape /\ StreamHeld

\* The number of sources is not zero.
LEMMA SourcesNat == Sources \in Nat \ {0} /\ NoRef \notin 1..Sources
  BY MessagesAssumption DEF NoRef

\* A source that was never made has no connection.
LEMMA NoSourceState ==
    /\ NoSource.readyState = "none" /\ "readyState" \in DOMAIN NoSource
    /\ \A ok : /\ NewSource(ok).readyState = "connecting"
               /\ "readyState" \in DOMAIN NewSource(ok)
  BY DEF NoSource, NewSource

\* Closing the page's source leaves none.
LEMMA ClosedRefHasNone ==
    ASSUME StreamInv
    PROVE  /\ ClosedRef = [i \in 1..Sources |-> ClosedRef[i]]
           /\ \A i \in 1..Sources : /\ "readyState" \in DOMAIN ClosedRef[i]
                                    /\ ClosedRef[i].readyState = "none"
  <1>1. CASE messagesPage.ref = NoRef
    <2>1. ClosedRef = source
      BY <1>1 DEF ClosedRef
    <2>2. \A i \in 1..Sources : ~Exists(i)
      BY <1>1, SourcesNat DEF StreamInv, StreamHeld
    <2> QED
      BY <2>1, <2>2 DEF Exists, StreamInv, StreamShape
  <1>2. CASE messagesPage.ref # NoRef
    <2> DEFINE r == messagesPage.ref
    <2>1. ClosedRef = [source EXCEPT ![r] = NoSource]
      BY <1>2 DEF ClosedRef
    <2>2. \A i \in 1..Sources : i # r => ~Exists(i)
      BY DEF StreamInv, StreamHeld
    <2> HIDE DEF r
    <2>3. \A i \in 1..Sources : ClosedRef[i] = IF i = r THEN NoSource ELSE source[i]
      BY <2>1 DEF StreamInv, StreamShape
    <2>4. ClosedRef = [i \in 1..Sources |-> ClosedRef[i]]
      BY <2>1 DEF StreamInv, StreamShape
    <2> QED
      BY <2>2, <2>3, <2>4, NoSourceState DEF Exists, StreamInv, StreamShape
  <1> QED
    BY <1>1, <1>2

\* No source and no reference: the state after Disconnect and after every mount.
LEMMA EmptyStreams ==
    ASSUME StreamInv, source' = ClosedRef, {"conn", "ref"} \subseteq DOMAIN messagesPage',
           messagesPage'.ref = NoRef, messagesPage'.conn = "idle"
    PROVE  StreamInv'
  <1>1. /\ source' = [i \in 1..Sources |-> source'[i]]
        /\ \A i \in 1..Sources : "readyState" \in DOMAIN source'[i]
                                 /\ source'[i].readyState = "none"
    BY ClosedRefHasNone
  <1>2. StreamShape'
    BY <1>1, SourcesNat DEF StreamShape, States4, NoRef
  <1>3. \A i \in 1..Sources : ~Exists(i)'
    BY <1>1 DEF Exists
  <1> QED
    BY <1>2, <1>3 DEF StreamInv, StreamHeld

\* The page keeps its state and its source, whatever else it shows.
LEMMA SameStreams ==
    ASSUME StreamInv, Page' = Page,
           source' = [i \in 1..Sources |-> source'[i]],
           \A i \in 1..Sources : /\ "readyState" \in DOMAIN source'[i]
                                 /\ source'[i].readyState = source[i].readyState,
           {"conn", "ref"} \subseteq DOMAIN messagesPage',
           messagesPage'.ref = messagesPage.ref, messagesPage'.conn = messagesPage.conn
    PROVE  StreamInv'
  <1>1. StreamShape'
    BY DEF StreamInv, StreamShape
  <1>2. \A i \in 1..Sources : Exists(i)' = Exists(i) /\ IsOpen(i)' = IsOpen(i)
    BY DEF Exists, IsOpen
  <1>3. messagesPage.ref # NoRef => messagesPage.ref \in 1..Sources
    BY SourcesNat DEF StreamInv, StreamShape, NoRef
  <1> QED
    BY <1>1, <1>2, <1>3 DEF StreamInv, StreamHeld

\* The source the page holds changes its state, and the dot with it.
LEMMA HeldStreamMoves ==
    ASSUME StreamInv, Page' = Page, NEW i \in 1..Sources, Exists(i),
           NEW x \in {"connecting", "open", "closed"},
           source' = [j \in 1..Sources |-> source'[j]],
           \A j \in 1..Sources : j # i => source'[j] = source[j],
           "readyState" \in DOMAIN source'[i], source'[i].readyState = x,
           {"conn", "ref"} \subseteq DOMAIN messagesPage',
           messagesPage'.ref = messagesPage.ref,
           messagesPage'.conn # "idle", messagesPage'.conn = "open" <=> x = "open"
    PROVE  StreamInv'
  <1>1. messagesPage.ref = i /\ i # NoRef
    BY SourcesNat DEF StreamInv, StreamHeld
  <1>2. StreamShape'
    BY DEF StreamInv, StreamShape, States4
  <1>3. \A j \in 1..Sources : Exists(j)' <=> j = i
    BY <1>1 DEF Exists, StreamInv, StreamHeld
  <1>4. IsOpen(i)' <=> x = "open"
    BY DEF IsOpen
  <1> QED
    BY <1>1, <1>2, <1>3, <1>4 DEF StreamInv, StreamHeld

\* A page that mounts finds no source: the one of the old page was closed.
LEMMA MountStreams ==
    ASSUME StreamInv, NEW n, NEW old, NEW new, NEW calls, Mount(n, old, new, calls),
           old = "messages" \/ messagesPage.ref = NoRef
    PROVE  StreamInv'
  <1>1. source' = ClosedRef
    BY DEF Mount, MessagesUnmounted, ClosedRef
  <1>2. /\ {"conn", "ref"} \subseteq DOMAIN messagesPage'
        /\ messagesPage'.ref = NoRef /\ messagesPage'.conn = "idle"
    BY DEF Mount, MessagesFresh
  <1> QED
    BY <1>1, <1>2, EmptyStreams

\* The router unmounts the page on screen.
LEMMA NavigateStreams ==
    ASSUME StreamInv, NEW n, NEW r, Navigate(n, r)
    PROVE  StreamInv'
  <1>1. Page = "messages" \/ messagesPage.ref = NoRef
    BY DEF StreamInv, StreamHeld
  <1> QED
    BY <1>1, MountStreams DEF Navigate

\* Neither the sources nor the page's state change.
LEMMA UnchangedStreams ==
    ASSUME StreamInv, Page' = Page, UNCHANGED <<messagesPage, source>>
    PROVE  StreamInv'
  BY SameStreams DEF StreamInv, StreamShape

\* The buttons of the page.
LEMMA MessagesUserStreams ==
    ASSUME StreamInv, Page = "messages", Page' = Page, MessagesUser
    PROVE  StreamInv'
  <1>1. CASE RegisterViewer \/ \E cred \in {"valid", "wrong"} : PasteCredentials(cred)
    BY <1>1, SameStreams DEF RegisterViewer, PasteCredentials, StreamInv, StreamShape
  <1>2. CASE Disconnect
    BY <1>2, EmptyStreams DEF Disconnect, StreamInv, StreamShape
  <1>3. CASE Connect
    <2>1. PICK i \in 1..Sources :
             /\ source' = [ClosedRef EXCEPT ![i] = NewSource(messagesPage.cred = "valid")]
             /\ messagesPage' = [messagesPage EXCEPT !.ref = i, !.conn = "connecting",
                                                     !.fresh = 0]
      BY <1>3 DEF Connect, ConnectOver
    <2>2. /\ messagesPage'.ref = i /\ messagesPage'.conn = "connecting"
          /\ {"conn", "ref"} \subseteq DOMAIN messagesPage'
      BY <2>1 DEF StreamInv, StreamShape
    <2> DEFINE new == NewSource(messagesPage.cred = "valid")
    <2>3. new.readyState = "connecting" /\ "readyState" \in DOMAIN new
      BY NoSourceState
    <2> HIDE DEF new
    <2>4. /\ source' = [j \in 1..Sources |-> source'[j]]
          /\ \A j \in 1..Sources : source'[j] = IF j = i THEN new ELSE ClosedRef[j]
      BY <2>1, ClosedRefHasNone DEF new
    <2>5. \A j \in 1..Sources :
             /\ "readyState" \in DOMAIN source'[j]
             /\ source'[j].readyState = IF j = i THEN "connecting" ELSE "none"
      BY <2>3, <2>4, ClosedRefHasNone
    <2>6. StreamShape'
      BY <2>2, <2>4, <2>5 DEF StreamShape, States4
    <2>7. \A j \in 1..Sources : (Exists(j)' <=> j = i) /\ ~IsOpen(j)'
      BY <2>5 DEF Exists, IsOpen
    <2> QED
      BY <2>2, <2>6, <2>7, SourcesNat DEF StreamInv, StreamHeld
  <1> QED
    BY <1>1, <1>2, <1>3 DEF MessagesUser

\* The browser and the server's handler move the source the page holds.
LEMMA StreamStepStreams ==
    ASSUME StreamInv, Page' = Page, NEW i \in 1..Sources, StreamStep(i) \/ StreamFault(i)
    PROVE  StreamInv'
  <1> DEFINE same == /\ \A j \in 1..Sources : j # i => source'[j] = source[j]
                     /\ source' = [j \in 1..Sources |-> source'[j]]
                     /\ "readyState" \in DOMAIN source'[i]
             kept == /\ {"conn", "ref"} \subseteq DOMAIN messagesPage'
                     /\ messagesPage'.ref = messagesPage.ref
  <1> USE DEF StreamInv, StreamShape
  <1>1. CASE Accept(i)
    <2>1. same /\ source'[i].readyState = "open"
      BY <1>1 DEF Accept, NewSource
    <2>2. kept /\ messagesPage'.conn = "open" /\ Exists(i)
      BY <1>1 DEF Accept, Exists
    <2> QED
      BY <2>1, <2>2, HeldStreamMoves
  <1>2. CASE Refuse(i) \/ Refused(i)
    <2>1. same /\ source'[i].readyState = "closed"
      BY <1>2 DEF Refuse, Refused
    <2>2. kept /\ messagesPage'.conn = "error" /\ Exists(i)
      BY <1>2 DEF Refuse, Refused, Exists
    <2> QED
      BY <2>1, <2>2, HeldStreamMoves
  <1>3. CASE LoseConnection(i)
    <2>1. same /\ source'[i].readyState = "connecting"
      BY <1>3, NoSourceState DEF LoseConnection
    <2>2. kept /\ messagesPage'.conn = "error" /\ Exists(i)
      BY <1>3 DEF LoseConnection, Exists
    <2> QED
      BY <2>1, <2>2, HeldStreamMoves
  <1>4. CASE Subscribe(i) \/ Replay(i) \/ ReplayFails(i) \/ Forward(i)
    <2>1. same /\ source'[i].readyState = source[i].readyState
      <3>1. CASE Subscribe(i)
        BY <3>1 DEF Subscribe
      <3>2. CASE ReplayFails(i)
        BY <3>2 DEF ReplayFails
      <3>3. CASE Replay(i)
        BY <3>3 DEF Replay
      <3>4. CASE Forward(i)
        BY <3>4 DEF Forward
      <3> QED
        BY <1>4, <3>1, <3>2, <3>3, <3>4
    <2>2. messagesPage' = messagesPage
      BY <1>4 DEF Subscribe, Replay, ReplayFails, Forward
    <2> QED
      BY <2>1, <2>2, SameStreams
  <1>5. CASE ReceiveEvent(i)
    <2>1. same /\ source'[i].readyState = source[i].readyState
      BY <1>5 DEF ReceiveEvent
    <2>2. kept /\ messagesPage'.conn = messagesPage.conn
      BY <1>5 DEF ReceiveEvent
    <2> QED
      BY <2>1, <2>2, SameStreams
  <1> QED
    BY <1>1, <1>2, <1>3, <1>4, <1>5 DEF StreamStep, StreamFault

\* A publication fills inboxes and takes subscriptions out of the map.
LEMMA PublishStreams ==
    ASSUME StreamInv, Page' = Page, messagesPage' = messagesPage,
           NEW p \in Senders, Publish(p)
    PROVE  StreamInv'
  <1>1. source' = [i \in 1..Sources |-> source'[i]]
    BY DEF Publish
  <1>2. ASSUME NEW i \in 1..Sources
        PROVE  /\ "readyState" \in DOMAIN source'[i]
               /\ source'[i].readyState = source[i].readyState
    <2>1. "readyState" \in DOMAIN source[i]
      BY DEF StreamInv, StreamShape
    <2>2. \/ source'[i] = source[i]
          \/ source'[i] = [source[i] EXCEPT !.listed = FALSE]
          \/ source'[i] = [source[i] EXCEPT !.inbox = Append(source[i].inbox, posting[p])]
      BY DEF Publish
    <2> QED
      BY <2>1, <2>2
  <1> QED
    BY <1>1, <1>2, SameStreams DEF StreamInv, StreamShape

\* The tab opens without a stream.
LEMMA InitStreams == Init => StreamInv
  <1> SUFFICES ASSUME Init PROVE StreamInv
    OBVIOUS
  <1>1. /\ messagesPage.ref = NoRef /\ messagesPage.conn = "idle"
        /\ {"conn", "ref"} \subseteq DOMAIN messagesPage
    BY DEF Init, MessagesInit, MessagesFresh
  <1>2. /\ source = [i \in 1..Sources |-> source[i]]
        /\ \A i \in 1..Sources : source[i] = NoSource
    BY DEF Init, MessagesInit, NoSources
  <1>3. StreamShape
    BY <1>1, <1>2, NoSourceState, SourcesNat DEF StreamShape, States4, NoRef
  <1>4. \A i \in 1..Sources : ~Exists(i)
    BY <1>2, NoSourceState DEF Exists
  <1> QED
    BY <1>1, <1>3, <1>4 DEF StreamInv, StreamHeld

\* The probe of a layout that is loading, hence with no page on screen.
LEMMA LayoutProbedStreams ==
    ASSUME Owned, StreamInv, NEW s \in Slots, LayoutProbed(s)
    PROVE  StreamInv'
  <1>1. FromPage(s, "layout")
    BY DEF LayoutProbed
  <1>2. layout = "loading"
    BY <1>1 DEF Owned, OwnedBy, FromPage, Vacant
  <1>3. Page = "blank"
    BY <1>2 DEF Owned, Routed, Page, PageAt, Pages
  <1>4. messagesPage.ref = NoRef
    BY <1>3 DEF StreamInv, StreamHeld
  <1>5. CASE net[s].answer.status = 200
    BY <1>4, <1>5, MountStreams DEF LayoutProbed
  <1>6. CASE net[s].answer.status # 200
    BY <1>6, NavigateStreams DEF LayoutProbed
  <1> QED
    BY <1>5, <1>6

\* A rejected fetch leaves the page on screen where it is.
LEMMA RejectStreams ==
    ASSUME Owned, StreamInv, NEW s \in Slots, Reject(s)
    PROVE  StreamInv'
  <1>1. UNCHANGED <<route, messagesPage, source>>
    BY DEF Reject, pageVars
  <1>2. Page' = Page
    <2>1. CASE FromPage(s, "layout")
      <3>1. layout = "loading" /\ layout' = "error"
        BY <2>1 DEF Reject, Owned, OwnedBy, FromPage, Vacant
      <3> QED
        BY <1>1, <3>1 DEF Page, PageAt
    <2>2. CASE ~FromPage(s, "layout")
      BY <1>1, <2>2 DEF Reject, Page
    <2> QED
      BY <2>1, <2>2
  <1> QED
    BY <1>1, <1>2, UnchangedStreams

\* The answers of the login page navigate or leave everything as it is.
LEMMA LoginAnsweredStreams ==
    ASSUME StreamInv, NEW s \in Slots, LoginAnswered(s)
    PROVE  StreamInv'
  <1>1. CASE \E r : Navigate(Done(s), r)
    BY <1>1, NavigateStreams
  <1>2. CASE UNCHANGED <<route, layout, messagesPage, source>>
    <2>1. Page' = Page
      BY <1>2 DEF Page
    <2> QED
      BY <1>2, <2>1, UnchangedStreams
  <1> QED
    BY <1>1, <1>2 DEF LoginAnswered, LoginProbed, CookieStored, LoggedIn, ToDashboard, Stay,
       pageVars, routeVars

\* No step of the tab, the server or the others loses hold of a stream.
LEMMA StreamsStep == Owned /\ StreamInv /\ [Next]_vars => StreamInv'
  <1> SUFFICES ASSUME Owned, StreamInv, [Next]_vars PROVE StreamInv'
    OBVIOUS
  <1> DEFINE still == UNCHANGED <<route, layout, messagesPage, source>>
  <1>1. ASSUME still PROVE StreamInv'
    <2>1. Page' = Page
      BY <1>1 DEF Page
    <2> QED
      BY <1>1, <2>1, UnchangedStreams
  <1>2. ASSUME NEW r \in Pages, GoTo(r) PROVE StreamInv'
    BY <1>2, NavigateStreams DEF GoTo
  <1>3. ASSUME UserActs PROVE StreamInv'
    <2>1. UNCHANGED <<route, layout>> /\ Page' = Page
      BY <1>3 DEF UserActs, routeVars, Page
    <2>2. CASE Page = "messages" /\ MessagesUser
      BY <2>1, <2>2, MessagesUserStreams
    <2>3. CASE UNCHANGED <<messagesPage, source>>
      BY <2>1, <2>3, UnchangedStreams
    <2> QED
      BY <1>3, <2>2, <2>3 DEF UserActs
  <1>4. ASSUME HomeReplaced PROVE StreamInv'
    BY <1>4, NavigateStreams DEF HomeReplaced
  <1>5. ASSUME NEW s \in Slots, Settle(s) PROVE StreamInv'
    <2>1. CASE LoginAnswered(s)
      BY <2>1, LoginAnsweredStreams
    <2>2. CASE LayoutProbed(s)
      BY <2>2, LayoutProbedStreams
    <2>3. CASE PageAnswered(s)
      <3>1. UNCHANGED <<route, layout>> /\ Page' = Page
        BY <2>3 DEF PageAnswered, routeVars, Page
      <3>2. CASE Registered(s)
        <4>1. /\ {"conn", "ref"} \subseteq DOMAIN messagesPage'
              /\ messagesPage'.ref = messagesPage.ref
              /\ messagesPage'.conn = messagesPage.conn
              /\ source' = source
          BY <3>2 DEF Registered, StreamInv, StreamShape
        <4> QED
          BY <3>1, <4>1, SameStreams DEF StreamInv, StreamShape
      <3>3. CASE UNCHANGED <<messagesPage, source>>
        BY <3>1, <3>3, UnchangedStreams
      <3> QED
        BY <2>3, <3>2, <3>3 DEF PageAnswered
    <2>4. CASE Unheard(s)
      BY <1>1, <2>4 DEF Unheard, Stay, pageVars, routeVars
    <2> QED
      BY <1>5, <2>1, <2>2, <2>3, <2>4 DEF Settle
  <1>6. ASSUME NEW s \in Slots, Reject(s) PROVE StreamInv'
    BY <1>6, RejectStreams
  <1>7. ASSUME NEW p \in Senders, Published(p) PROVE StreamInv'
    BY <1>7, PublishStreams DEF Published, routeVars, Page
  <1>8. ASSUME NEW i \in 1..Sources, Streams(i) PROVE StreamInv'
    BY <1>8, StreamStepStreams DEF Streams, routeVars, Page
  <1>9. ASSUME NEW valid \in BOOLEAN, OnSubmit(valid) PROVE StreamInv'
    BY <1>1, <1>9 DEF OnSubmit, pageVars
  <1>10. ASSUME NEW s \in Slots, Served(s) PROVE StreamInv'
    BY <1>1, <1>10 DEF Served, routeVars
  <1>11. ASSUME NEW p \in Senders, Sends(p) PROVE StreamInv'
    BY <1>1, <1>11 DEF Sends, tabVars, pageVars, routeVars
  <1>12. ASSUME Others PROVE StreamInv'
    BY <1>1, <1>12 DEF Others, OtherSaves, tabVars, pageVars, routeVars
  <1>13. ASSUME UNCHANGED vars PROVE StreamInv'
    BY <1>1, <1>13 DEF vars, state, tabVars, pageVars, routeVars
  <1> QED
    BY <1>2, <1>3, <1>4, <1>5, <1>6, <1>7, <1>8, <1>9, <1>10, <1>11, <1>12, <1>13
       DEF Next, UserStep

\* With any number of reconnections, Connects and visits, the page never has a
\* second EventSource, nor one it could not close (messages/page.tsx:81, :125).
THEOREM OneStreamAlways == Spec => []OneStream
  <1>1. Init => Owned /\ StreamInv
    BY InitOwned, InitStreams
  <1>2. Owned /\ StreamInv /\ [Next]_vars => (Owned /\ StreamInv)'
    BY OwnedStep, StreamsStep
  <1>3. StreamInv => OneStream
    BY DEF StreamInv, StreamHeld, OneStream
  <1> QED
    BY <1>1, <1>2, <1>3, PTL DEF Spec

\* What the page says of its connection is true of the EventSource it holds, in
\* every interleaving of its callbacks with the buttons (messages/page.tsx:87-99).
THEOREM DotIsAlwaysTrue == Spec => []DotIsTrue
  <1>1. Init => Owned /\ StreamInv
    BY InitOwned, InitStreams
  <1>2. Owned /\ StreamInv /\ [Next]_vars => (Owned /\ StreamInv)'
    BY OwnedStep, StreamsStep
  <1>3. StreamInv => DotIsTrue
    <2> SUFFICES ASSUME StreamInv PROVE DotIsTrue
      OBVIOUS
    <2>1. messagesPage.ref # NoRef => messagesPage.ref \in 1..Sources
      BY SourcesNat DEF StreamInv, StreamShape, NoRef
    <2>2. \A i \in 1..Sources : IsOpen(i) => Exists(i)
      BY DEF IsOpen, Exists
    <2> QED
      BY <2>1, <2>2, SourcesNat DEF StreamInv, StreamHeld, DotIsTrue
  <1> QED
    BY <1>1, <1>2, <1>3, PTL DEF Spec
=============================================================================
