----------------------------- MODULE AppsPage -----------------------------
(***************************************************************************)
(* The Apps page: list, create, revoke, and the quota of the selected app. *)
(* Each handler is an async function; the steps between two awaits are one *)
(* action, and a call in flight names the handler that awaits it and holds *)
(* the values that handler has captured.                                   *)
(***************************************************************************)
EXTENDS AccountApi

VARIABLE appsPage   \* the component's useState values

\* The name field and the two messages (error, flash) are left out: they are only
\* shown.  waited is history: since the page is mounted the user has started
\* nothing while an operation of this page, or of an earlier visit, was underway.
AppsState ==
    [apps: SUBSET Apps, busy: BOOLEAN, selected: Apps \cup {NoApp},
     limits: [app: Apps \cup {NoApp}, count: Nat, reset: 0..MaxPeriod],
     limitHeaders: [count: Nat, reset: 0..MaxPeriod],
     loadState: {"loading", "ready", "error"}, waited: BOOLEAN]

AppsFresh ==
    [apps |-> {}, busy |-> FALSE, selected |-> NoApp, limits |-> NoLimits,
     limitHeaders |-> NoHeaders, loadState |-> "loading", waited |-> FALSE]

AppsCall(op, awaits, a, sel) ==
    [page |-> "apps", op |-> op, awaits |-> awaits, app |-> a, selected |-> sel]

\* load, awaited by the effect, by onCreate or by onDelete, for app a.
ListCall(awaits, a)   == AppsCall("list", awaits, a, NoApp)
LimitsCall(awaits, a) == AppsCall("limits", awaits, a, NoApp)

AppsIdle == ~\E s \in Slots : FromPage(s, "apps")

\* The page at its mount, when n is in flight.
AppsMounted(n) ==
    [AppsFresh EXCEPT !.waited = ~\E s \in Slots : n[s].call.page = "gone"]

Awaits(s, op, awaits) ==
    FromPage(s, "apps") /\ net[s].call.op = op /\ net[s].call.awaits = awaits

\* A click of the user, which starts the call c.
AppsClick(page, c) ==
    /\ HasRoom
    /\ appsPage' = [page EXCEPT !.waited = @ /\ AppsIdle]
    /\ net' = Send(net, {c})

-----------------------------------------------------------------------------
(* What the handlers do between two awaits.                                *)

\* load, after its answer a.
Loaded(page, a) ==
    IF a.status = 200 THEN [page EXCEPT !.apps = a.apps, !.loadState = "ready"]
    ELSE [page EXCEPT !.loadState = "error"]

Loading(page) == [page EXCEPT !.loadState = "loading"]

\* showLimits, before and after its answer.
Selected(page, a) ==
    [page EXCEPT !.selected = a, !.limits = NoLimits,
                 !.limitHeaders = NoHeaders]

LimitsShown(page, a) ==
    IF a.status = 200
    THEN [page EXCEPT !.limits = a.limits, !.limitHeaders = a.headers]
    ELSE page

Deselected(page) ==
    [page EXCEPT !.selected = NoApp, !.limits = NoLimits,
                 !.limitHeaders = NoHeaders]

-----------------------------------------------------------------------------
ShowLimits(a) ==
    /\ a \in appsPage.apps
    /\ AppsClick(Selected(appsPage, a), LimitsCall("click", a))

\* Bound: ids are left for every create that is underway.
IdsLeft == made + Cardinality({s \in Slots : Is(s, "create")}) + 1 \in Apps

OnCreate ==
    /\ ~appsPage.busy
    /\ IdsLeft
    /\ AppsClick([appsPage EXCEPT !.busy = TRUE],
                 AppsCall("create", "onCreate", NoApp, NoApp))

\* The user confirms; the handler keeps the selection of the last render.
OnDelete(a) ==
    /\ a \in appsPage.apps
    /\ AppsClick(appsPage,
                 AppsCall("delete", "onDelete", a, appsPage.selected))

\* The answer to the load of the mount effect.
AppsLoaded(s) ==
    /\ Awaits(s, "list", "mount")
    /\ appsPage' = Loaded(appsPage, net[s].answer)
    /\ net' = Done(s)

LimitsRead(s) ==
    /\ Awaits(s, "limits", "click")
    /\ appsPage' = LimitsShown(appsPage, net[s].answer)
    /\ net' = Done(s)

Created(s) ==
    /\ Awaits(s, "create", "onCreate")
    /\ LET a    == net[s].answer
           page == [appsPage EXCEPT !.busy = FALSE]
       IN  IF a.status = 201
           THEN /\ appsPage' = Loading(page)
                /\ net' = Follow(s, ListCall("onCreate", a.app))
           ELSE /\ appsPage' = page
                /\ net' = Done(s)

\* The list is on screen; the handler asks for it again to find the new row.
CreatedListed(s) ==
    /\ Awaits(s, "list", "onCreate")
    /\ appsPage' = Loaded(appsPage, net[s].answer)
    /\ net' = Follow(s, ListCall("fresh", net[s].call.app))

CreatedFound(s) ==
    /\ Awaits(s, "list", "fresh")
    /\ LET r == net[s]
       IN  IF r.answer.status = 200 /\ r.call.app \in r.answer.apps
           THEN /\ appsPage' = Selected(appsPage, r.call.app)
                /\ net' = Follow(s, LimitsCall("onCreate", r.call.app))
           ELSE /\ UNCHANGED appsPage
                /\ net' = Done(s)

CreatedShown(s) ==
    /\ Awaits(s, "limits", "onCreate")
    /\ appsPage' = LimitsShown(appsPage, net[s].answer)
    /\ net' = Done(s)

\* Mutant: the list is not loaded again after a revocation.
DeletedNoReload(s) ==
    /\ Awaits(s, "delete", "onDelete")
    /\ LET r == net[s]
           page == IF r.call.selected = r.call.app THEN Deselected(appsPage)
                   ELSE appsPage
       IN  IF r.answer.status = 200
           THEN /\ appsPage' = page
                /\ net' = Done(s)
           ELSE /\ UNCHANGED appsPage
                /\ net' = Done(s)

Deleted(s) ==
    /\ Awaits(s, "delete", "onDelete")
    /\ LET r == net[s]
           page == IF r.call.selected = r.call.app THEN Deselected(appsPage)
                   ELSE appsPage
       IN  IF r.answer.status = 200
           THEN /\ appsPage' = Loading(page)
                /\ net' = Follow(s, ListCall("onDelete", r.call.app))
           ELSE /\ UNCHANGED appsPage
                /\ net' = Done(s)

DeletedListed(s) ==
    /\ Awaits(s, "list", "onDelete")
    /\ appsPage' = Loaded(appsPage, net[s].answer)
    /\ net' = Done(s)

AppsAnswered(s) ==
    /\ Answered(s)
    /\ \/ AppsLoaded(s) \/ LimitsRead(s)
       \/ Created(s) \/ CreatedListed(s) \/ CreatedFound(s) \/ CreatedShown(s)
       \/ Deleted(s) \/ DeletedListed(s)

AppsUser ==
    \/ OnCreate
    \/ \E a \in Apps : ShowLimits(a) \/ OnDelete(a)

-----------------------------------------------------------------------------
\* What the page renders of the selected app.
PanelShown == appsPage.selected # NoApp /\ appsPage.limits # NoLimits

\* Without a fault, a user who waits for each operation before starting the
\* next sees the truth when nothing is underway: the list is the table, the
\* buttons are usable, the panel is of an app that exists and shows the answer
\* of that app.
WaitingUserSeesServer ==
    appsPage.waited /\ AppsIdle /\ faults = 0 =>
        /\ appsPage.loadState # "loading" /\ ~appsPage.busy
        /\ appsPage.apps = tokens
        /\ appsPage.selected \in tokens \cup {NoApp}
        /\ PanelShown => appsPage.limits.app = appsPage.selected
=============================================================================
