---------------------------- MODULE MessagesPage ----------------------------
(***************************************************************************)
(* The Live messages page: an EventSource on GET /1/sse, the handler that  *)
(* serves it, and the publications that reach it.  A message is its id.    *)
(* A lost connection is opened again by the browser with the same URL, so  *)
(* without a cursor: the handler replays from the first message again.     *)
(***************************************************************************)
EXTENDS AccountApi, Sequences

CONSTANTS
    EventCap,       \* events kept on screen (200)
    PageLimit,      \* messages of one replay page (hub: 100)
    InboxCap,       \* buffered publications per subscription (hub: 64)
    Sources         \* bound: EventSource objects at a time

ASSUME MessagesAssumption ==
    /\ {EventCap, PageLimit, InboxCap, Sources} \subseteq Nat \ {0}

VARIABLES
    messagesPage,   \* the component's useState values, and esRef
    source,         \* the EventSource objects, with the handler each talks to
    posting         \* per sender: its stored message still to be published

liveVars == <<messagesPage, source, posting>>

Ids     == 1..MaxMessages
NoRef   == 0

\* cred: device id and secret together; the error message is left out, it is only
\* shown.  fresh is history: how many of the
\* events came over the connection that is open.
MessagesState ==
    [cred: {"blank", "valid", "wrong"}, busy: BOOLEAN,
     conn: {"idle", "connecting", "open", "error"}, ref: 0..Sources,
     events: UNION {[1..n -> Ids] : n \in 0..EventCap}, fresh: 0..EventCap]

MessagesFresh ==
    [cred |-> "blank", busy |-> FALSE, conn |-> "idle",
     ref |-> NoRef, events |-> <<>>, fresh |-> 0]

\* readyState and the credentials in the URL; the handler's phase and lastSent,
\* whether the hub has its subscription, and its inbox; frames on their way.
\* whole is history: the replay read every message there was.
NewSource(ok) ==
    [readyState |-> "connecting", ok |-> ok, phase |-> "none", lastSent |-> 0,
     listed |-> FALSE, inbox |-> <<>>, wire |-> <<>>, whole |-> TRUE]
NoSource   == [NewSource(FALSE) EXCEPT !.readyState = "none"]
NoSources  == [i \in 1..Sources |-> NoSource]

Exists(i)  == source[i].readyState # "none"
IsOpen(i)  == source[i].readyState = "open"
Listed(i) == IsOpen(i) /\ source[i].listed

FrontOf(seq, n) == SubSeq(seq, 1, IF Len(seq) < n THEN Len(seq) ELSE n)

RegisterCall == [page |-> "messages", op |-> "register"]

-----------------------------------------------------------------------------
(* The page.                                                               *)

PasteCredentials(cred) ==
    /\ messagesPage.cred # cred
    /\ messagesPage' = [messagesPage EXCEPT !.cred = cred]
    /\ UNCHANGED <<source, net>>

RegisterViewer ==
    /\ ~messagesPage.busy /\ HasRoom
    /\ messagesPage' = [messagesPage EXCEPT !.busy = TRUE]
    /\ net' = Send(net, {RegisterCall})
    /\ UNCHANGED source

\* An open stream keeps the credentials it was opened with.
Registered(s) ==
    /\ FromPage(s, "messages") /\ Answered(s)
    /\ LET page == [messagesPage EXCEPT !.busy = FALSE]
       IN  messagesPage' = IF net[s].answer.status = 200
                           THEN [page EXCEPT !.cred = "valid"]
                           ELSE page
    /\ net' = Done(s)
    /\ UNCHANGED source

\* esRef.current?.close()
ClosedRef == IF messagesPage.ref = NoRef THEN source
             ELSE [source EXCEPT ![messagesPage.ref] = NoSource]

\* Mutant: the reference is dropped and the stream not closed.
DisconnectForgets ==
    /\ messagesPage.conn \in {"connecting", "open"}
    /\ messagesPage' = [messagesPage EXCEPT !.ref = NoRef, !.conn = "idle", !.fresh = 0]
    /\ UNCHANGED <<source, net>>

Disconnect ==
    /\ messagesPage.conn \in {"connecting", "open"}
    /\ messagesPage' = [messagesPage EXCEPT !.ref = NoRef, !.conn = "idle", !.fresh = 0]
    /\ source' = ClosedRef
    /\ UNCHANGED net

\* connect with what becomes of the stream it replaces.
ConnectOver(rest) ==
    /\ messagesPage.conn \in {"idle", "error"}
    /\ messagesPage.cred # "blank"
    /\ \E i \in 1..Sources :
          /\ rest[i] = NoSource
          /\ \A j \in 1..(i - 1) : rest[j] # NoSource
          /\ source' = [rest EXCEPT ![i] = NewSource(messagesPage.cred = "valid")]
          /\ messagesPage' = [messagesPage EXCEPT !.ref = i, !.conn = "connecting",
                                                  !.fresh = 0]
    /\ UNCHANGED net

\* Mutant: the stream that is reconnecting is not closed first.
ConnectBeside == ConnectOver(source)

Connect == ConnectOver(ClosedRef)

-----------------------------------------------------------------------------
(* The stream.  onopen, onerror and the message listener belong to every   *)
(* EventSource the page ever made that is not closed.                      *)

\* 200 and its headers are flushed before anything else.
Accept(i) ==
    /\ source[i].readyState = "connecting" /\ source[i].ok
    /\ source' = [source EXCEPT ![i] = [NewSource(TRUE) EXCEPT
                      !.readyState = "open", !.phase = "accepted"]]
    /\ messagesPage' = [messagesPage EXCEPT !.conn = "open"]

\* 401: the browser closes the source for good and fires onerror.
Refused(i) ==
    /\ source[i].readyState = "connecting"
    /\ source' = [source EXCEPT ![i].readyState = "closed"]
    /\ messagesPage' = [messagesPage EXCEPT !.conn = "error"]

Refuse(i) == ~source[i].ok /\ Refused(i)

Subscribe(i) ==
    /\ IsOpen(i) /\ source[i].phase = "accepted"
    /\ source' = [source EXCEPT ![i].phase = "subscribed",
                                 ![i].listed = TRUE]
    /\ UNCHANGED messagesPage

\* ListMessages(since = 0): the oldest page of the log.
Replay(i) ==
    /\ IsOpen(i) /\ source[i].phase = "subscribed"
    /\ LET n == IF log < PageLimit THEN log ELSE PageLimit
       IN  source' = [source EXCEPT ![i].phase = "live", ![i].lastSent = n,
                          ![i].wire = [k \in 1..n |-> k],
                          ![i].whole = n = log]
    /\ UNCHANGED messagesPage

\* The page cannot be read: the handler goes on without it.
ReplayFails(i) ==
    /\ IsOpen(i) /\ source[i].phase = "subscribed"
    /\ source' = [source EXCEPT ![i].phase = "live", ![i].whole = FALSE]
    /\ UNCHANGED messagesPage

\* Mutant: the live loop forwards what the replay has sent already.
ForwardAll(i) ==
    /\ IsOpen(i) /\ source[i].phase = "live"
    /\ source[i].inbox # <<>>
    /\ LET m == Head(source[i].inbox)
       IN  source' = [source EXCEPT ![i].inbox = Tail(@), ![i].lastSent = m,
                                    ![i].wire = Append(@, m)]
    /\ UNCHANGED messagesPage

Forward(i) ==
    /\ IsOpen(i) /\ source[i].phase = "live"
    /\ source[i].inbox # <<>>
    /\ LET m == Head(source[i].inbox)
       IN  source' = IF m <= source[i].lastSent
                     THEN [source EXCEPT ![i].inbox = Tail(@)]
                     ELSE [source EXCEPT ![i].inbox = Tail(@), ![i].lastSent = m,
                                         ![i].wire = Append(@, m)]
    /\ UNCHANGED messagesPage

\* Mutant: the list grows without bound.
ReceiveAll(i) ==
    /\ IsOpen(i) /\ source[i].wire # <<>>
    /\ source' = [source EXCEPT ![i].wire = Tail(@)]
    /\ messagesPage' = [messagesPage EXCEPT
            !.events = <<Head(source[i].wire)>> \o @,
            !.fresh = IF @ < EventCap THEN @ + 1 ELSE @]

\* Mutant: the newest last.
ReceiveLast(i) ==
    /\ IsOpen(i) /\ source[i].wire # <<>>
    /\ source' = [source EXCEPT ![i].wire = Tail(@)]
    /\ messagesPage' = [messagesPage EXCEPT
            !.events = FrontOf(Append(@, Head(source[i].wire)), EventCap),
            !.fresh = IF @ < EventCap THEN @ + 1 ELSE @]

\* The message listener: the newest first, and no more than EventCap.
ReceiveEvent(i) ==
    /\ IsOpen(i) /\ source[i].wire # <<>>
    /\ source' = [source EXCEPT ![i].wire = Tail(@)]
    /\ messagesPage' = [messagesPage EXCEPT
            !.events = FrontOf(<<Head(source[i].wire)>> \o @, EventCap),
            !.fresh = IF @ < EventCap THEN @ + 1 ELSE @]

\* The connection is lost, with what was on its way; the browser tries again.
LoseConnection(i) ==
    /\ source[i].readyState \in {"connecting", "open"}
    /\ source' = [source EXCEPT ![i] = NewSource(source[i].ok)]
    /\ messagesPage' = [messagesPage EXCEPT !.conn = "error", !.fresh = 0]

\* Hub.Publish: to every subscription of the user, without blocking; one whose
\* inbox is full is taken out of the map.
Publish(p) ==
    /\ posting[p] # 0
    /\ posting' = [posting EXCEPT ![p] = 0]
    /\ source' = [i \in 1..Sources |->
           IF ~Listed(i) THEN source[i]
           ELSE IF Len(source[i].inbox) < InboxCap
           THEN [source[i] EXCEPT !.inbox = Append(@, posting[p])]
           ELSE [source[i] EXCEPT !.listed = FALSE]]

MessagesUser ==
    \/ RegisterViewer \/ Connect \/ Disconnect
    \/ \E cred \in {"valid", "wrong"} : PasteCredentials(cred)

StreamStep(i) ==
    \/ Accept(i) \/ Refuse(i) \/ Subscribe(i)
    \/ Replay(i) \/ Forward(i) \/ ReceiveEvent(i)

\* A lost connection, a device that cannot be read (401), a failed replay.
StreamFault(i) == LoseConnection(i) \/ Refused(i) \/ ReplayFails(i)

\* The effect's cleanup.
MessagesUnmounted == ClosedRef

MessagesInit ==
    /\ messagesPage = MessagesFresh
    /\ source = NoSources
    /\ posting = [p \in Senders |-> 0]

-----------------------------------------------------------------------------
\* The page holds at most one stream, the one it can close: reconnecting, a new
\* Connect and leaving the page never leave one behind.
OneStream == \A i \in 1..Sources : Exists(i) => messagesPage.ref = i

\* The dot tells the truth: "live" exactly while the stream is open,
\* "disconnected" exactly when there is none.
DotIsTrue ==
    /\ messagesPage.conn = "open" <=> \E i \in 1..Sources : IsOpen(i)
    /\ messagesPage.conn = "idle" <=> \A i \in 1..Sources : ~Exists(i)

\* What one connection has brought stands newest first and without repetition,
\* however publications race with the replay or with each other.
StreamInOrder ==
    \A j, k \in 1..messagesPage.fresh :
        j < k => messagesPage.events[j] > messagesPage.events[k]

\* Once the sends are published and the stream has nothing left to bring, the
\* top of the list is the latest message of the account; unless the replay did not
\* read it all or the inbox overflowed.
LatestOnTop ==
    \A i \in 1..Sources :
        /\ IsOpen(i) /\ source[i].phase = "live"
        /\ source[i].whole /\ source[i].listed
        /\ source[i].inbox = <<>> /\ source[i].wire = <<>>
        /\ \A p \in Senders : posting[p] = 0
        /\ log > 0
        => messagesPage.fresh > 0 /\ messagesPage.events[1] = log
=============================================================================
