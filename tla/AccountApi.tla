---------------------------- MODULE AccountApi ----------------------------
(***************************************************************************)
(* The server as the dashboard sees it: the handlers behind the session    *)
(* cookie, the limits of a token, and the account's rows they work on.     *)
(* Other programs use the same account meanwhile: sends by app token,      *)
(* another client that saves quiet hours.                                  *)
(*                                                                         *)
(* A handler is one action, at the statement that decides its answer.  The *)
(* limits of a token are four: header and body each take the reset from    *)
(* the clock first, and then the counter of the month the clock says next. *)
(***************************************************************************)
EXTENDS Fetch, QuotaGate

CONSTANTS
    Windows,        \* quiet-hours settings the server accepts
    Off,            \* the setting with empty start and end
    Malformed,      \* a form the server refuses: one bound, or no tz
    ForeignKeys,    \* REFERENCES enforced: TRUE on Postgres, FALSE on SQLite
    MaxMessages     \* bound: messages stored for the account

\* Ids of the apps created so far are 1..made.
ASSUME ApiAssumption ==
    /\ IsFiniteSet(Apps) /\ Apps = 1..Cardinality(Apps) /\ Apps # {}
    /\ Off \in Windows /\ Malformed \notin Windows
    /\ ForeignKeys \in BOOLEAN
    /\ MaxMessages \in Nat

VARIABLES
    tokens,         \* table apps: ids of the rows
    made,           \* its last id
    used,           \* apps some row of sends refers to
    log,            \* table messages: the rows are 1..log
    window          \* users.quiet_start, quiet_end, quiet_tz

apiVars == <<tokens, made, used, log, window>>

NoApp      == 0
NoLimits   == [app |-> NoApp, count |-> 0, reset |-> 0]
NoHeaders  == [count |-> 0, reset |-> 0]

\* The three X-Limit-App headers and the body of limits.json: the counter, which
\* determines remaining, and the month that ends at the reset.
HeadersOf(c, m)   == [count |-> c, reset |-> m]
LimitsOf(a, c, m) == [app |-> a, count |-> c, reset |-> m]

\* Of the month that runs, the header h counts no more than the body b.
NotAhead(h, b) == h.reset = period /\ b.reset = period => h.count <= b.count

Is(s, op) == Waits(s) /\ net[s].call.op = op

\* An answer for limits, as far as it goes: the header is written, and the clock
\* was read for the part underway.
HeaderWritten(s) == "headers" \in DOMAIN net[s].answer
ResetTaken(s)    == "reset" \in DOMAIN net[s].answer

-----------------------------------------------------------------------------
(* Handlers.  Each but the limits and the login asks for the session.      *)

Unauthorized(s) ==
    /\ Waits(s) /\ ~net[s].cookie
    /\ net[s].call.op \notin {"login", "limits"}
    /\ net' = Reply(s, Status(401))
    /\ UNCHANGED <<cookie, faults, apiVars>>

\* A database call fails in a handler past its session check.
ServerError(s) ==
    /\ Waits(s) /\ MayFail
    /\ IF net[s].call.op = "limits" THEN HeaderWritten(s) /\ ResetTaken(s)
       ELSE net[s].cookie /\ net[s].call.op # "login"
    /\ faults' = faults + 1
    /\ net' = Reply(s, Status(500))
    /\ UNCHANGED <<cookie, apiVars>>

Login(s) ==
    /\ Is(s, "login")
    /\ net' = Reply(s, Status(IF net[s].call.valid THEN 200 ELSE 401))
    /\ UNCHANGED <<cookie, faults, apiVars>>

\* A failed lookup of the user is answered like a wrong password.
LoginFails(s) ==
    /\ Is(s, "login") /\ MayFail
    /\ faults' = faults + 1
    /\ net' = Reply(s, Status(401))
    /\ UNCHANGED <<cookie, apiVars>>

Me(s) ==
    /\ Is(s, "me") /\ net[s].cookie
    /\ net' = Reply(s, [status |-> 200, window |-> window])
    /\ UNCHANGED <<cookie, faults, apiVars>>

ListApps(s) ==
    /\ Is(s, "list") /\ net[s].cookie
    /\ net' = Reply(s, [status |-> 200, apps |-> tokens])
    /\ UNCHANGED <<cookie, faults, apiVars>>

CreateApp(s) ==
    /\ Is(s, "create") /\ net[s].cookie
    /\ made' = made + 1
    /\ tokens' = tokens \cup {made'}
    /\ net' = Reply(s, [status |-> 201, app |-> made'])
    /\ UNCHANGED <<cookie, faults, used, log, window>>

\* Rows of sends refer to the app: where references are enforced its row
\* cannot go, and the handler answers 500.
DeleteApp(s) ==
    /\ Is(s, "delete") /\ net[s].cookie
    /\ LET a == net[s].call.app
           held == ForeignKeys /\ a \in used
       IN  /\ tokens' = IF held THEN tokens ELSE tokens \ {a}
           /\ net' = Reply(s, Status(IF a \notin tokens THEN 404
                                     ELSE IF held THEN 500 ELSE 200))
    /\ UNCHANGED <<cookie, faults, made, used, log, window>>

\* limitWrap: an unknown token reads as an untouched quota.
HeaderReset(s) ==
    /\ Is(s, "limits") /\ ~HeaderWritten(s) /\ ~ResetTaken(s)
    /\ net' = Reply(s, IF net[s].call.app \in tokens
                       THEN [status |-> 0, reset |-> period]
                       ELSE [status |-> 0, headers |-> HeadersOf(0, period)])
    /\ UNCHANGED <<cookie, faults, apiVars>>

\* Mutant: the header counts the request itself, as the send path does.
HeaderCountCharging(s) ==
    /\ Is(s, "limits") /\ ~HeaderWritten(s) /\ ResetTaken(s)
    /\ net' = Reply(s, [status |-> 0,
                        headers |-> HeadersOf(count + 1, net[s].answer.reset)])
    /\ UNCHANGED <<cookie, faults, apiVars>>

\* quotaSnapshot: the counter of the month that runs by now.
HeaderCount(s) ==
    /\ Is(s, "limits") /\ ~HeaderWritten(s) /\ ResetTaken(s)
    /\ net' = Reply(s, [status |-> 0,
                        headers |-> HeadersOf(count, net[s].answer.reset)])
    /\ UNCHANGED <<cookie, faults, apiVars>>

\* A read that fails, of the token or of the counter, leaves the header at the
\* full quota.
HeaderFailsOpen(s) ==
    /\ Is(s, "limits") /\ ~HeaderWritten(s) /\ ResetTaken(s)
    /\ MayFail /\ faults' = faults + 1
    /\ net' = Reply(s, [status |-> 0, headers |-> HeadersOf(0, net[s].answer.reset)])
    /\ UNCHANGED <<cookie, apiVars>>

\* limitsHandler: the token again, and Manager.Snapshot takes the reset.
LimitsReset(s) ==
    /\ Is(s, "limits") /\ HeaderWritten(s) /\ ~ResetTaken(s)
    /\ net' = Reply(s, IF net[s].call.app \in tokens
                       THEN [status |-> 0, headers |-> net[s].answer.headers,
                             reset |-> period]
                       ELSE Status(400))
    /\ UNCHANGED <<cookie, faults, apiVars>>

\* A token that cannot be looked up is answered like an unknown one.
LimitsTokenFails(s) ==
    /\ Is(s, "limits") /\ HeaderWritten(s) /\ ~ResetTaken(s)
    /\ MayFail /\ faults' = faults + 1
    /\ net' = Reply(s, Status(400))
    /\ UNCHANGED <<cookie, apiVars>>

\* Mutant: the body counts the request itself.
LimitsCharging(s) ==
    /\ Is(s, "limits") /\ HeaderWritten(s) /\ ResetTaken(s)
    /\ net' = Reply(s, [status |-> 200, headers |-> net[s].answer.headers,
                        limits |-> LimitsOf(net[s].call.app, count + 1,
                                            net[s].answer.reset)])
    /\ UNCHANGED <<cookie, faults, apiVars>>

\* Manager.Snapshot: the counter of the month that runs by now.
Limits(s) ==
    /\ Is(s, "limits") /\ HeaderWritten(s) /\ ResetTaken(s)
    /\ net' = Reply(s, [status |-> 200, headers |-> net[s].answer.headers,
                        limits |-> LimitsOf(net[s].call.app, count,
                                            net[s].answer.reset)])
    /\ UNCHANGED <<cookie, faults, apiVars>>

ServeLimits(s) ==
    \/ HeaderReset(s) \/ HeaderCount(s) \/ HeaderFailsOpen(s)
    \/ LimitsReset(s) \/ LimitsTokenFails(s) \/ Limits(s)

QuietHours(s) ==
    /\ Is(s, "save") /\ net[s].cookie
    /\ LET w == net[s].call.window
       IN  IF w \in Windows
           THEN /\ window' = w
                /\ net' = Reply(s, [status |-> 200, window |-> w])
           ELSE /\ net' = Reply(s, Status(400))
                /\ UNCHANGED window
    /\ UNCHANGED <<cookie, faults, tokens, made, used, log>>

\* POST /1/devices/login.json: a new device each time.
DeviceLogin(s) ==
    /\ Is(s, "register") /\ net[s].cookie
    /\ net' = Reply(s, Status(200))
    /\ UNCHANGED <<cookie, faults, apiVars>>

Serve(s) ==
    \/ Unauthorized(s) \/ ServerError(s)
    \/ Login(s) \/ LoginFails(s) \/ Me(s)
    \/ ListApps(s) \/ CreateApp(s) \/ DeleteApp(s)
    \/ ServeLimits(s) \/ QuietHours(s) \/ DeviceLogin(s)

-----------------------------------------------------------------------------
(* What others do with the account.                                        *)

\* The cookie's expiry passes: requests on their way carry it in vain.
SessionExpires ==
    /\ cookie /\ MayFail
    /\ faults' = faults + 1
    /\ cookie' = FALSE
    /\ net' = [s \in Slots |->
            IF Waits(s) THEN [net[s] EXCEPT !.cookie = FALSE] ELSE net[s]]
    /\ UNCHANGED apiVars

\* Another client of the account: a second tab, curl, the mobile app.
OtherClientSaves(w) ==
    /\ window # w
    /\ window' = w
    /\ UNCHANGED <<net, cookie, faults, tokens, made, used, log>>

\* A send is validated by its token, then gated.
SendGated(p, a, n) ==
    /\ a \in tokens
    /\ log < MaxMessages
    /\ Gate(p, a, n)
    /\ UNCHANGED <<net, cookie, faults, apiVars>>

\* The row of sends refers to the app.
SendStored(p) ==
    /\ log < MaxMessages
    /\ Ingest(p)
    /\ ForeignKeys => sender[p].app \in tokens
    /\ used' = used \cup {sender[p].app}
    /\ log' = log + 1
    /\ UNCHANGED <<net, cookie, faults, tokens, made, window>>

\* A store error, or the app's row is gone.
SendRefused(p) ==
    /\ IngestFails(p)
    /\ IF ForeignKeys /\ sender[p].app \notin tokens
       THEN UNCHANGED faults
       ELSE MayFail /\ faults' = faults + 1
    /\ UNCHANGED <<net, cookie, apiVars>>

SendCharged(p) ==
    /\ Charge(p)
    /\ UNCHANGED <<net, cookie, faults, apiVars>>

SendUncharged(p) ==
    /\ MayFail /\ faults' = faults + 1
    /\ ChargeFails(p)
    /\ UNCHANGED <<net, cookie, apiVars>>

ApiInit ==
    /\ QuotaInit
    /\ cookie \in BOOLEAN
    /\ faults = 0
    /\ made \in {0, 1} /\ tokens = 1..made
    /\ used = {} /\ log = 0
    /\ window = Off
=============================================================================
