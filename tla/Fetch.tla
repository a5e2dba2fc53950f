------------------------------- MODULE Fetch -------------------------------
(***************************************************************************)
(* The dashboard's requests: what lib/api.ts and the browser do for every  *)
(* page.  A call leaves with the session cookie of that moment; the server *)
(* handles it at some later moment; its answer reaches the page later      *)
(* still, in any order with other answers, or the promise rejects, before  *)
(* or after the server did its part.                                       *)
(*                                                                         *)
(* When a page unmounts, React drops the state updates of what it started. *)
(* Requests that change the server are still handled ("gone"), answers to  *)
(* the login page still move the router ("left"), the rest is forgotten.   *)
(***************************************************************************)
EXTENDS Naturals, FiniteSets

CONSTANTS
    MaxInFlight,    \* bound: requests of the tab in flight at a time
    MaxFaults       \* bound: failed requests, failed handlers, lost
                    \* connections and session expiries, together

ASSUME FetchAssumption == MaxInFlight \in Nat \ {0} /\ MaxFaults \in Nat

VARIABLES
    net,            \* the requests in flight
    cookie,         \* the browser holds a session cookie that is still valid
    faults          \* history: faults so far

Slots == 1..MaxInFlight

\* A slot of net that holds no request.
Vacant == [call |-> [page |-> "none"]]

Status(n)  == [status |-> n]
Pending    == Status(0)
InFlight(s) == net[s] # Vacant
FromPage(s, page) == net[s].call.page = page
Waits(s)   == InFlight(s) /\ net[s].answer.status = 0
Answered(s) == InFlight(s) /\ net[s].answer.status # 0

\* fetch with credentials:'include': the cookie travels with the request.
Request(call) == [call |-> call, cookie |-> cookie, answer |-> Pending]

\* The requests in `calls`, each in a free slot of n; calls has at most one.
Send(n, calls) ==
    IF calls = {} THEN n
    ELSE [n EXCEPT ![CHOOSE s \in Slots : n[s] = Vacant] =
            Request(CHOOSE c \in calls : TRUE)]

HasRoom == \E s \in Slots : ~InFlight(s)

\* The next call of a handler, in the place of the one just answered.
Follow(s, call) == [net EXCEPT ![s] = Request(call)]
Done(s)         == [net EXCEPT ![s] = Vacant]
Reply(s, a)     == [net EXCEPT ![s].answer = a]

\* Calls that change the server, or that use the router, which outlives pages.
Outlives(call) ==
    call.page = "login" \/ call.op \in {"create", "delete", "save", "register"}

\* What is left of n when the pages in `leaving` unmount.
Abandon(n, leaving) ==
    [s \in Slots |->
        IF n[s].call.page \notin leaving THEN n[s]
        ELSE IF ~Outlives(n[s].call) THEN Vacant
        ELSE [n[s] EXCEPT !.call.page = IF @ = "login" THEN "left" ELSE "gone"]]

MayFail == faults < MaxFaults
=============================================================================
