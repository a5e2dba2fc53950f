----------------------------- MODULE Dashboard -----------------------------
(***************************************************************************)
(* The dashboard in one browser tab, with the server it talks to: the      *)
(* router, the login page, the layout that guards /dashboard, and the      *)
(* pages of the four other modules under it.                               *)
(***************************************************************************)
EXTENDS AppsPage, QuotaPage, QuietHoursPage, MessagesPage

\* Bound: what one behaviour combines.  pages: those visited under /dashboard;
\* senders, messages, recipients, months, windows: what others do to the account
\* meanwhile.
CONSTANT Visits

\* The sidebar's links, and the tiles of the overview.
Pages == {"overview", "apps", "messages", "quota", "quiet-hours"}
Tiles == {"apps", "messages", "quota", "quiet-hours"}

ASSUME DashboardAssumption ==
    \A v \in Visits :
        /\ "overview" \in v.pages /\ v.pages \subseteq Pages
        /\ v.senders \subseteq Senders /\ v.windows \subseteq Windows
        /\ v.messages \in 0..MaxMessages /\ v.months \in 0..MaxPeriod

VARIABLES
    visit,          \* the bounds of this behaviour, fixed
    route,          \* usePathname
    layout,         \* the layout's state, "none" while it is not mounted
    loginPage       \* the login page's useState values

pageVars   == <<appsPage, quotaPage, quietPage, messagesPage, source>>
routeVars  == <<route, layout, loginPage>>
tabVars    == <<pageVars, routeVars>>
serverVars == <<apiVars, quotaVars, posting>>
state      == <<net, cookie, faults, tabVars, serverVars>>
vars       == <<visit, state>>

LoginFresh == [busy |-> FALSE]

\* The page on screen at route r: the layout renders its children once authed.
PageAt(r, l) == IF r = "login" THEN "login" ELSE IF l = "authed" THEN r ELSE "blank"
Page == PageAt(route, layout)

MeCall(page) == [page |-> page, op |-> "me"]

\* The call of a page's mount effect.
MountCalls(page) ==
    CASE page = "apps"        -> {ListCall("mount", NoApp)}
      [] page = "quota"       -> {QuotaListCall}
      [] page = "quiet-hours" -> {QuietMeCall}
      [] page = "login"       -> {MeCall("login")}
      [] OTHER                -> {}

\* Page old makes room for page new, with `calls`, while n is in flight.
Mount(n, old, new, calls) ==
    LET left == Abandon(n, {old} \cup (IF new = "login" THEN {"layout"} ELSE {}))
    IN  /\ net' = Send(left, calls)
        /\ appsPage' = IF new = "apps" THEN AppsMounted(left) ELSE AppsFresh
        /\ quotaPage' = QuotaFresh
        /\ quietPage' = QuietFresh
        /\ messagesPage' = MessagesFresh
        /\ source' = IF old = "messages" THEN MessagesUnmounted ELSE source
        /\ loginPage' = LoginFresh

\* The router shows r.  /dashboard and what is below it share the layout; it
\* stays mounted from page to page, and checks the session when it mounts.
Navigate(n, r) ==
    /\ route' = r
    /\ IF r # "login" /\ layout = "none"
       THEN /\ layout' = "loading"
            /\ Mount(n, Page, "blank", {MeCall("layout")})
       ELSE /\ layout' = IF r = "login" THEN "none" ELSE layout
            /\ Mount(n, Page, PageAt(r, layout'), MountCalls(PageAt(r, layout')))

Stay(n) ==
    /\ net' = n
    /\ UNCHANGED <<pageVars, routeVars>>

\* router.replace('/dashboard'), also when it is shown already.
ToDashboard(n) == IF route = "overview" THEN Stay(n) ELSE Navigate(n, "overview")

Deaf == UNCHANGED <<cookie, faults, serverVars>>

-----------------------------------------------------------------------------
(* The login page.                                                         *)

\* valid: the email and the password typed are an account's.
LoginCall(valid) == [page |-> "login", op |-> "login", valid |-> valid]

OnSubmit(valid) ==
    /\ Page = "login" /\ ~loginPage.busy /\ HasRoom
    /\ loginPage' = [busy |-> TRUE]
    /\ net' = Send(net, {LoginCall(valid)})
    /\ UNCHANGED <<route, layout, pageVars>> /\ Deaf

\* Mutant: the probe takes any answer but 200 for a session.
LoginProbedInverted(s) ==
    /\ net[s].call.op = "me"
    /\ IF net[s].answer.status # 200 THEN ToDashboard(Done(s)) ELSE Stay(Done(s))
    /\ UNCHANGED cookie

\* The effect is not canceled when the page unmounts, so its answer moves the
\* router from wherever the user is by then.
LoginProbed(s) ==
    /\ net[s].call.op = "me"
    /\ IF net[s].answer.status = 200 THEN ToDashboard(Done(s)) ELSE Stay(Done(s))
    /\ UNCHANGED cookie

\* The browser stores the cookie before the page hears the answer, even when the
\* page is gone.
CookieStored(s) ==
    /\ net[s].call.op = "login" /\ net[s].answer.status = 200 /\ ~cookie
    /\ cookie' = TRUE
    /\ Stay(net)

LoggedIn(s) ==
    /\ net[s].call.op = "login"
    /\ IF net[s].answer.status = 200
       THEN cookie /\ ToDashboard(Done(s))
       ELSE /\ net' = Done(s)
            /\ loginPage' = IF FromPage(s, "login") THEN [busy |-> FALSE]
                            ELSE loginPage
            /\ UNCHANGED <<route, layout, pageVars>>
    /\ UNCHANGED cookie

LoginAnswered(s) ==
    /\ FromPage(s, "login") \/ FromPage(s, "left")
    /\ Answered(s)
    /\ LoginProbed(s) \/ CookieStored(s) \/ LoggedIn(s)
    /\ UNCHANGED <<faults, serverVars>>

-----------------------------------------------------------------------------
(* The layout and its links.                                               *)

\* Anything but 200 is taken for a missing session.
LayoutProbed(s) ==
    /\ FromPage(s, "layout") /\ Answered(s)
    /\ IF net[s].answer.status = 200
       THEN /\ layout' = "authed"
            /\ Mount(Done(s), "blank", route, MountCalls(route))
            /\ UNCHANGED route
       ELSE Navigate(Done(s), "login")
    /\ Deaf

Links == Pages \cup IF Page = "overview" THEN Tiles ELSE {}

GoTo(r) ==
    /\ layout = "authed" /\ r \in (Links \cap visit.pages) \ {route}
    /\ HasRoom
    /\ Navigate(net, r)
    /\ Deaf

\* The page at / replaces itself.
HomeReplaced ==
    /\ route = "home"
    /\ Navigate(net, "overview")
    /\ Deaf

-----------------------------------------------------------------------------
(* Pages under the layout.                                                 *)

UserActs ==
    /\ \/ /\ Page = "apps" /\ AppsUser
          /\ UNCHANGED <<quotaPage, quietPage, messagesPage, source>>
       \/ /\ Page = "quota" /\ QuotaUser
          /\ UNCHANGED <<appsPage, quietPage, messagesPage, source>>
       \/ /\ Page = "quiet-hours" /\ QuietUser
          /\ UNCHANGED <<appsPage, quotaPage, messagesPage, source>>
       \/ /\ Page = "messages" /\ MessagesUser
          /\ UNCHANGED <<appsPage, quotaPage, quietPage>>
    /\ UNCHANGED routeVars /\ Deaf

PageAnswered(s) ==
    /\ \/ AppsAnswered(s) /\ UNCHANGED <<quotaPage, quietPage, messagesPage, source>>
       \/ QuotaAnswered(s) /\ UNCHANGED <<appsPage, quietPage, messagesPage, source>>
       \/ QuietAnswered(s) /\ UNCHANGED <<appsPage, quotaPage, messagesPage, source>>
       \/ Registered(s) /\ UNCHANGED <<appsPage, quotaPage, quietPage>>
    /\ UNCHANGED routeVars /\ Deaf

\* An answer nobody waits for any more.
Unheard(s) ==
    /\ FromPage(s, "gone") /\ Answered(s)
    /\ Stay(Done(s)) /\ Deaf

Settle(s) == LoginAnswered(s) \/ LayoutProbed(s) \/ PageAnswered(s) \/ Unheard(s)

\* fetch rejects.  The server may still handle a request that has left.
Reject(s) ==
    /\ InFlight(s) /\ MayFail
    /\ faults' = faults + 1
    /\ \/ net' = Done(s)
       \/ /\ Waits(s) /\ Outlives(net[s].call) /\ ~FromPage(s, "login")
          /\ ~FromPage(s, "left")
          /\ net' = [net EXCEPT ![s].call.page = "gone"]
    /\ loginPage' = IF FromPage(s, "login") /\ net[s].call.op = "login"
                    THEN [busy |-> FALSE] ELSE loginPage
    /\ layout' = IF FromPage(s, "layout") THEN "error" ELSE layout
    /\ UNCHANGED <<cookie, route, pageVars, serverVars>>

-----------------------------------------------------------------------------
(* The server and the others.                                              *)

Watching == Page = "quiet-hours"

Served(s) ==
    /\ Serve(s)
    /\ IF Watching THEN QuietServed(s) ELSE UNCHANGED quietPage
    /\ UNCHANGED <<quotaVars, posting, routeVars, appsPage, quotaPage, messagesPage,
                   source>>

OtherSaves(w) ==
    /\ w \in visit.windows
    /\ OtherClientSaves(w)
    /\ IF Watching THEN QuietOvertaken ELSE UNCHANGED quietPage
    /\ UNCHANGED <<quotaVars, posting, routeVars, appsPage, quotaPage, messagesPage,
                   source>>

Sends(p) ==
    /\ p \in visit.senders
    /\ \/ \E a \in Apps, n \in 1..MaxRecipients :
             /\ log < visit.messages /\ n <= visit.recipients
             /\ SendGated(p, a, n) /\ UNCHANGED posting
       \/ log < visit.messages /\ SendStored(p) /\ posting' = [posting EXCEPT ![p] = log']
       \/ SendRefused(p) /\ UNCHANGED posting
       \/ posting[p] = 0 /\ (SendCharged(p) \/ SendUncharged(p)) /\ UNCHANGED posting
    /\ UNCHANGED tabVars

Published(p) ==
    /\ Publish(p)
    /\ UNCHANGED <<net, cookie, faults, apiVars, quotaVars, routeVars, messagesPage,
                   appsPage, quotaPage, quietPage>>

Streams(i) ==
    /\ \/ StreamStep(i) /\ UNCHANGED faults
       \/ StreamFault(i) /\ MayFail /\ faults' = faults + 1
    /\ UNCHANGED <<net, cookie, serverVars, routeVars, appsPage, quotaPage, quietPage>>

Others ==
    \/ SessionExpires /\ UNCHANGED <<tabVars, quotaVars, posting>>
    \/ \E w \in Windows : OtherSaves(w)
    \/ period < visit.months /\ MonthEnds /\ UNCHANGED <<net, cookie, faults, apiVars, tabVars, posting>>

\* The tab opens at any address, with an old session or none.
Init ==
    /\ ApiInit /\ MessagesInit
    /\ appsPage = AppsFresh /\ quotaPage = QuotaFresh /\ quietPage = QuietFresh
    /\ loginPage = LoginFresh
    /\ visit \in Visits
    /\ route \in {"home", "login"} \cup visit.pages
    /\ layout = IF route \in Pages THEN "loading" ELSE "none"
    /\ net = Send([s \in Slots |-> Vacant],
                  CASE route = "home"  -> {}
                    [] route = "login" -> {MeCall("login")}
                    [] OTHER           -> {MeCall("layout")})

UserStep ==
    \/ \E valid \in BOOLEAN : OnSubmit(valid)
    \/ \E r \in Pages : GoTo(r)
    \/ UserActs

Next ==
    /\ \/ UserStep \/ HomeReplaced
       \/ \E s \in Slots : Served(s) \/ Settle(s) \/ Reject(s)
       \/ \E p \in Senders : Sends(p) \/ Published(p)
       \/ \E i \in 1..Sources : Streams(i)
       \/ Others
    /\ UNCHANGED visit

\* The server answers what reaches it, the browser delivers the answers and runs
\* effects; users, senders and faults owe nothing.
Fairness ==
    /\ WF_state(HomeReplaced)
    /\ \A s \in Slots : WF_state(Served(s)) /\ WF_state(Settle(s))

Spec == Init /\ [][Next]_vars /\ Fairness

-----------------------------------------------------------------------------
NetTypeOK ==
    \A s \in Slots : InFlight(s) =>
        /\ net[s].cookie \in BOOLEAN
        /\ net[s].answer.status \in {0, 200, 201, 400, 401, 404, 500}
        /\ net[s].call.page \in {"login", "left", "layout", "gone"} \cup Pages

TypeOK ==
    /\ NetTypeOK /\ cookie \in BOOLEAN /\ faults \in 0..MaxFaults
    /\ QuotaTypeOK
    /\ tokens \subseteq 1..made /\ made \in Apps \cup {NoApp} /\ used \subseteq 1..made
    /\ log \in 0..MaxMessages /\ window \in Windows
    /\ route \in {"home", "login"} \cup Pages
    /\ layout \in {"none", "loading", "authed", "error"}
    /\ loginPage \in [busy: BOOLEAN]
    /\ appsPage \in AppsState /\ quotaPage \in QuotaState
    /\ quietPage \in QuietState /\ messagesPage \in MessagesState
    /\ posting \in [Senders -> 0..MaxMessages]

\* The header is read before the body.  While the month both name still runs, the
\* header counts no more than the body; a reset that has passed may stand beside
\* the counter of a later month, in either, and then nothing is promised.
HeadersNotAhead ==
    /\ PanelShown => NotAhead(appsPage.limitHeaders, appsPage.limits)
    /\ QuotaShown => NotAhead(quotaPage.headers, quotaPage.limits)

Underway(page, ops) ==
    \E s \in Slots : FromPage(s, page) /\ net[s].call.op \in ops

\* A button that says "busy" is waiting for an answer.  The login page's always
\* is; another page's may be stuck, but only after a request has failed.
BusyIsBacked ==
    /\ loginPage.busy <=> Underway("login", {"login"})
    /\ faults = 0 =>
        /\ appsPage.busy => Underway("apps", {"create"})
        /\ quotaPage.busy => Underway("quota", {"limits"})
        /\ quietPage.busy => Underway("quiet-hours", {"save"})
        /\ messagesPage.busy => Underway("messages", {"register"})

Settled ==
    /\ \A s \in Slots : ~InFlight(s)
    /\ route = "login" \/ layout \in {"authed", "error"}

\* Once the user stops, the tab comes to rest: every request is answered and
\* either the login form, a page, or the error of the layout is on screen.  The
\* redirects between the login page and the layout do not go on for ever.
EventuallySettled == <>[][~UserStep]_state => <>[]Settled
=============================================================================
