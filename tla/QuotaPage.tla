----------------------------- MODULE QuotaPage -----------------------------
(***************************************************************************)
(* The Quota page: the monthly quota behind a token that is typed or       *)
(* picked from the account's apps.                                         *)
(***************************************************************************)
EXTENDS AccountApi

VARIABLE quotaPage  \* the component's useState values

\* The error message is left out: it is only shown.  asked is history: the token
\* of the last submission.
QuotaState ==
    [apps: SUBSET Apps, token: Apps \cup {NoApp}, busy: BOOLEAN,
     limits: [app: Apps \cup {NoApp}, count: Nat, reset: 0..MaxPeriod],
     headers: [count: Nat, reset: 0..MaxPeriod], asked: Apps \cup {NoApp}]

QuotaFresh ==
    [apps |-> {}, token |-> NoApp, busy |-> FALSE,
     limits |-> NoLimits, headers |-> NoHeaders, asked |-> NoApp]

QuotaListCall      == [page |-> "quota", op |-> "list"]
QuotaLimitsCall(a) == [page |-> "quota", op |-> "limits", app |-> a]

\* The field may be edited at any time, the select offers the apps listed.
TypeToken(a) ==
    /\ quotaPage.token # a
    /\ quotaPage' = [quotaPage EXCEPT !.token = a]
    /\ UNCHANGED net

\* The handler up to its await.
Reading(a) ==
    [quotaPage EXCEPT !.busy = TRUE, !.limits = NoLimits,
                      !.headers = NoHeaders, !.asked = a]

\* Mutant: the button stays enabled while a read is underway.
LoadLimitsAnytime ==
    /\ quotaPage.token # NoApp /\ HasRoom
    /\ quotaPage' = Reading(quotaPage.token)
    /\ net' = Send(net, {QuotaLimitsCall(quotaPage.token)})

LoadLimits ==
    /\ ~quotaPage.busy
    /\ quotaPage.token # NoApp /\ HasRoom
    /\ quotaPage' = Reading(quotaPage.token)
    /\ net' = Send(net, {QuotaLimitsCall(quotaPage.token)})

QuotaListed(s) ==
    /\ net[s].call.op = "list"
    /\ quotaPage' = IF net[s].answer.status = 200
                    THEN [quotaPage EXCEPT !.apps = net[s].answer.apps]
                    ELSE quotaPage

\* Mutant: a refused read leaves the button disabled.
LimitsLoadedStuck(s) ==
    /\ net[s].call.op = "limits"
    /\ LET a == net[s].answer
       IN  quotaPage' = IF a.status = 200
                        THEN [quotaPage EXCEPT !.busy = FALSE, !.limits = a.limits,
                                               !.headers = a.headers]
                        ELSE quotaPage

LimitsLoaded(s) ==
    /\ net[s].call.op = "limits"
    /\ LET page == [quotaPage EXCEPT !.busy = FALSE]
           a    == net[s].answer
       IN  quotaPage' = IF a.status = 200
                        THEN [page EXCEPT !.limits = a.limits,
                                          !.headers = a.headers]
                        ELSE page

QuotaAnswered(s) ==
    /\ FromPage(s, "quota") /\ Answered(s)
    /\ QuotaListed(s) \/ LimitsLoaded(s)
    /\ net' = Done(s)

QuotaUser == LoadLimits \/ \E a \in Apps \cup {NoApp} : TypeToken(a)

-----------------------------------------------------------------------------
QuotaShown == quotaPage.limits # NoLimits

\* The badge next to "Remaining".
Badge ==
    LET remaining == Remaining(quotaPage.limits.count)
    IN  CASE remaining = 0          -> "exhausted"
          [] 0 < remaining /\ remaining * 10 < Limit -> "low"
          [] OTHER                  -> "ok"

\* The card has no name on it; it always belongs to the token last submitted,
\* however the field was edited while the answer was underway.
ShowsTokenAsked == QuotaShown => quotaPage.limits.app = quotaPage.asked

\* A card may be old, but "exhausted" stays true until the month it was read
\* in ends: every later send is refused by the gate.
ExhaustedIsFinal ==
    QuotaShown /\ Badge = "exhausted" /\ quotaPage.limits.reset = period
        => Remaining(count) = 0
=============================================================================
