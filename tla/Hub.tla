-------------------------------- MODULE Hub --------------------------------
(***************************************************************************)
(* Real-time delivery to the devices of one user: request handlers that    *)
(* commit a message and then publish it, the in-process hub with its       *)
(* bounded mailboxes, one connection goroutine per WebSocket or SSE client *)
(* (subscribe, replay one page, then the live loop), and the desktop       *)
(* client that reconnects with the highest id it has observed as "since".  *)
(*                                                                         *)
(* One action is one transaction, one locked section of the hub, one       *)
(* channel operation or one frame.  The process restarts as it crashes.    *)
(***************************************************************************)
EXTENDS Naturals, Sequences

CONSTANTS
    Devices,        \* devices of the user
    Conns,          \* bound: connections the server holds at a time
    Senders,        \* goroutines that publish: requests and the retry engine
    PageLimit,      \* hub.messagePageLimit (100)
    InboxCap,       \* hub.inboxCap (256)
    WireCap,        \* bound: frames the transport buffers before a write blocks
    MaxMessages,    \* bound: messages sent to the user
    MaxRedeliveries, \* bound: publications of the retry engine
    MaxFaults       \* bound: connections lost, client restarts, failed calls
                    \* and crashes of the server, together

ASSUME HubAssumption ==
    /\ PageLimit \in Nat \ {0}
    /\ InboxCap \in Nat \ {0}
    /\ WireCap \in Nat \ {0}
    /\ MaxMessages \in Nat /\ MaxRedeliveries \in Nat /\ MaxFaults \in Nat

Ids == 1..MaxMessages

VARIABLES
    last_id,        \* table messages: the rows are 1..last_id
    delivered,      \* the rows whose delivered_at is set
    redeliveries,   \* history: publications of the retry engine so far
    sender,         \* publishing goroutines
    users,          \* Hub.users: the connections registered
    conn,           \* connection goroutines
    wire,           \* per connection: frames written and not read yet
    link,           \* per device: its connection, if it has one
    cursor,         \* desktop Cursor, in memory
    stored,         \* desktop Cursor, in its file
    breaks,         \* history: connections lost and client restarts so far
    errors,         \* history: failed page reads, hooks and cursor writes
    crashes,        \* history: crashes of the server
    received,       \* history: per device, times each id was observed
    missed          \* history: per device, ids the server passed over

rowVars    == <<last_id, delivered, redeliveries>>
clientVars == <<link, cursor, stored, received>>
faultVars  == <<breaks, errors, crashes>>
vars == <<rowVars, sender, users, conn, wire, clientVars, faultVars, missed>>

-----------------------------------------------------------------------------
NoConn == [step |-> "none"]
Idle   == [step |-> "idle"]

SenderState ==
    {Idle} \cup [step: {"publish"}, msg: Ids]
           \cup [step: {"offer"}, msg: Ids, targets: SUBSET Conns]

\* peer: the client is still there.  rest: ids of the page still to be written.
ConnState ==
    {NoConn} \cup [step: {"open", "live"}, device: Devices,
                   peer: BOOLEAN, last_sent: 0..MaxMessages, rest: Seq(Ids),
                   inbox: Seq(Ids)]

Connected(c) == conn[c].step # "none"
Disconnected == [step |-> "down"]
Live(c)      == conn[c].step = "live" /\ conn[c].rest = <<>>
OnConn(c)    == [step |-> "up", conn |-> c]

\* Ids in (from, to], ascending.
After(from, to) == [i \in 1..(to - from) |-> from + i]

\* Messages a publisher holds that connection c may still be offered.
Underway(c) == {sender[p].msg : p \in {q \in Senders :
                    \/ sender[q].step = "publish"
                    \/ sender[q].step = "offer" /\ c \in sender[q].targets}}

MayFail == breaks + errors + crashes < MaxFaults

PassOver(d, ids) == missed' = [missed EXCEPT ![d] = @ \cup ids]

-----------------------------------------------------------------------------
(* Publishing: POST /1/messages.json and the engine's redelivery.          *)

\* The transaction commits; ids ascend in commit order.
Ingest(p) ==
    /\ sender[p] = Idle /\ last_id < MaxMessages
    /\ last_id' = last_id + 1
    /\ sender' = [sender EXCEPT ![p] =
            [step |-> "publish", msg |-> last_id + 1]]
    /\ UNCHANGED <<delivered, redeliveries, users, conn, wire, clientVars,
                   faultVars, missed>>

\* The retry handler publishes a stored emergency message again.
Redeliver(p, m) ==
    /\ sender[p] = Idle /\ m <= last_id
    /\ redeliveries < MaxRedeliveries /\ redeliveries' = redeliveries + 1
    /\ sender' = [sender EXCEPT ![p] = [step |-> "publish", msg |-> m]]
    /\ UNCHANGED <<last_id, delivered, users, conn, wire, clientVars, faultVars,
                   missed>>

\* What a publisher does once it has still to offer m to the connections T.
Offering(m, T) ==
    IF T = {} THEN Idle ELSE [step |-> "offer", msg |-> m, targets |-> T]

\* Publish copies the set of connections under the read lock ...
Snapshot(p) ==
    /\ sender[p].step = "publish"
    /\ sender' = [sender EXCEPT ![p] = Offering(sender[p].msg, users)]
    /\ UNCHANGED <<rowVars, users, conn, wire, clientVars, faultVars, missed>>

\* ... then offers the message to each without it.  A lower id that is still
\* underway to the same connection is overtaken; so is everything published
\* since to a connection that was unregistered in the meantime.
Offer(p, c) ==
    /\ sender[p].step = "offer" /\ c \in sender[p].targets
    /\ LET m == sender[p].msg
           d == conn[c].device
       IN  /\ sender' = [sender EXCEPT ![p] = Offering(m, @.targets \ {c})]
           /\ \/ /\ Len(conn[c].inbox) < InboxCap
                 /\ conn' = [conn EXCEPT ![c].inbox = Append(@, m)]
                 /\ PassOver(d, {l \in 1..(m - 1) : l \in Underway(c)
                                                     \/ c \notin users})
                 /\ UNCHANGED users
              \/ /\ Len(conn[c].inbox) >= InboxCap
                 /\ users' = users \ {c}
                 /\ PassOver(d, {m})
                 /\ UNCHANGED conn
    /\ UNCHANGED <<rowVars, wire, clientVars, faultVars>>

-----------------------------------------------------------------------------
(* A connection: ServeWS and ServeSSE.                                     *)

\* Mutant: the server takes its own high-water mark for the client's since.
ConnectFromLatest(d, c) ==
    /\ link[d] = Disconnected /\ ~Connected(c)
    /\ conn' = [conn EXCEPT ![c] =
            [step |-> "open", device |-> d, peer |-> TRUE,
             last_sent |-> last_id, rest |-> <<>>, inbox |-> <<>>]]
    /\ users' = users \cup {c}
    /\ link' = [link EXCEPT ![d] = OnConn(c)]
    /\ UNCHANGED <<rowVars, sender, wire, cursor, stored, received, faultVars,
                   missed>>

\* The client connects with its cursor as since; after the login the handler
\* subscribes, before it writes anything.
Connect(d, c) ==
    /\ link[d] = Disconnected /\ ~Connected(c)
    /\ conn' = [conn EXCEPT ![c] =
            [step |-> "open", device |-> d, peer |-> TRUE,
             last_sent |-> cursor[d], rest |-> <<>>, inbox |-> <<>>]]
    /\ users' = users \cup {c}
    /\ link' = [link EXCEPT ![d] = OnConn(c)]
    /\ UNCHANGED <<rowVars, sender, wire, cursor, stored, received,
                   faultVars, missed>>

\* Mutant: the newest page instead of the oldest.
ReadPageNewest(c) ==
    /\ conn[c].step = "open"
    /\ LET since == conn[c].last_sent
           end   == IF since + PageLimit < last_id THEN since + PageLimit
                    ELSE last_id
       IN  /\ conn' = [conn EXCEPT ![c].step = "live",
                        ![c].rest = After(last_id - (end - since), last_id)]
           /\ PassOver(conn[c].device, (end + 1)..last_id)
    /\ UNCHANGED <<rowVars, sender, users, wire, clientVars, faultVars>>

\* The open frame, then ListMessages: one page of ids above since, oldest first.
ReadPage(c) ==
    /\ conn[c].step = "open"
    /\ LET since == conn[c].last_sent
           end   == IF since + PageLimit < last_id THEN since + PageLimit
                    ELSE last_id
       IN  /\ conn' = [conn EXCEPT ![c].step = "live",
                                   ![c].rest = After(since, end)]
           /\ PassOver(conn[c].device, (end + 1)..last_id)
    /\ UNCHANGED <<rowVars, sender, users, wire, clientVars, faultVars>>

\* A read that fails is ignored: the connection goes live without a replay.
ReadPageFails(c) ==
    /\ conn[c].step = "open"
    /\ MayFail /\ errors' = errors + 1
    /\ conn' = [conn EXCEPT ![c].step = "live"]
    /\ PassOver(conn[c].device, (conn[c].last_sent + 1)..last_id)
    /\ UNCHANGED <<rowVars, sender, users, wire, clientVars, breaks,
                   crashes>>

\* A frame is written, then the delivery hook stamps the row; the hook's error
\* is only logged.  A frame for a client that has left is lost.
Write(c, m) ==
    /\ Len(wire[c]) < WireCap
    /\ wire' = IF conn[c].peer THEN [wire EXCEPT ![c] = Append(@, m)] ELSE wire
    /\ \/ delivered' = delivered \cup {m} /\ UNCHANGED errors
       \/ MayFail /\ errors' = errors + 1 /\ UNCHANGED delivered
    /\ UNCHANGED <<last_id, sender, redeliveries, users, clientVars, breaks,
                   crashes, missed>>

WriteReplay(c) ==
    /\ conn[c].step = "live" /\ conn[c].rest # <<>>
    /\ Write(c, Head(conn[c].rest))
    /\ conn' = [conn EXCEPT ![c].rest = Tail(@),
                            ![c].last_sent = Head(conn[c].rest)]

\* Mutant: what the inbox holds is written whatever was replayed.
WriteLiveTwice(c) ==
    /\ Live(c) /\ conn[c].inbox # <<>>
    /\ Write(c, Head(conn[c].inbox))
    /\ conn' = [conn EXCEPT ![c].inbox = Tail(@),
                            ![c].last_sent = Head(conn[c].inbox)]

WriteLive(c) ==
    /\ Live(c) /\ conn[c].inbox # <<>>
    /\ Head(conn[c].inbox) > conn[c].last_sent
    /\ Write(c, Head(conn[c].inbox))
    /\ conn' = [conn EXCEPT ![c].inbox = Tail(@),
                            ![c].last_sent = Head(conn[c].inbox)]

\* De-duplication against the replay and earlier frames.
SkipLive(c) ==
    /\ Live(c) /\ conn[c].inbox # <<>>
    /\ Head(conn[c].inbox) <= conn[c].last_sent
    /\ conn' = [conn EXCEPT ![c].inbox = Tail(@)]
    /\ UNCHANGED <<rowVars, sender, users, wire, clientVars, faultVars,
                   missed>>

\* Mutant: a return path that does not unsubscribe.
LeaveRegistered(c) ==
    /\ Connected(c) /\ ~conn[c].peer
    /\ conn' = [conn EXCEPT ![c] = NoConn]
    /\ sender' = [p \in Senders |->
                    IF sender[p].step = "offer"
                    THEN Offering(sender[p].msg, sender[p].targets \ {c})
                    ELSE sender[p]]
    /\ UNCHANGED <<rowVars, users, wire, clientVars, faultVars, missed>>

\* A write fails or the reader sees the client gone: return, unsubscribe.  An
\* offer underway to its mailbox is made to nobody.
Leave(c) ==
    /\ Connected(c) /\ ~conn[c].peer
    /\ conn' = [conn EXCEPT ![c] = NoConn]
    /\ users' = users \ {c}
    /\ sender' = [p \in Senders |->
                    IF sender[p].step = "offer"
                    THEN Offering(sender[p].msg, sender[p].targets \ {c})
                    ELSE sender[p]]
    /\ UNCHANGED <<rowVars, wire, clientVars, faultVars, missed>>

-----------------------------------------------------------------------------
(* The client.                                                             *)

\* handle_frame: Cursor::observe raises the cursor and rewrites its file.
Receive(d) ==
    /\ link[d].step = "up" /\ wire[link[d].conn] # <<>>
    /\ LET m == Head(wire[link[d].conn]) IN
        /\ received' = [received EXCEPT ![d][m] = @ + 1]
        /\ IF m > cursor[d]
           THEN /\ cursor' = [cursor EXCEPT ![d] = m]
                /\ \/ stored' = [stored EXCEPT ![d] = m] /\ UNCHANGED errors
                   \/ /\ MayFail /\ errors' = errors + 1
                      /\ UNCHANGED stored   \* the failed write is ignored
           ELSE UNCHANGED <<cursor, stored, errors>>
    /\ wire' = [wire EXCEPT ![link[d].conn] = Tail(@)]
    /\ UNCHANGED <<rowVars, sender, users, conn, link, breaks, crashes,
                   missed>>

\* The connection is lost on the client's side with what was on the wire.
Lose(d) ==
    /\ link[d].step = "up"
    /\ MayFail /\ breaks' = breaks + 1
    /\ conn' = [conn EXCEPT ![link[d].conn].peer = FALSE]
    /\ wire' = [wire EXCEPT ![link[d].conn] = <<>>]
    /\ link' = [link EXCEPT ![d] = Disconnected]
    /\ UNCHANGED <<rowVars, sender, users, stored, received, errors,
                   crashes, missed>>

Break(d) == Lose(d) /\ UNCHANGED cursor

\* The client's process restarts and reads its cursor from the file.
RestartClient(d) == Lose(d) /\ cursor' = [cursor EXCEPT ![d] = stored[d]]

\* The server's process dies: mailboxes, publishers and connections with it.
Crash ==
    /\ MayFail /\ crashes' = crashes + 1
    /\ sender' = [p \in Senders |-> Idle]
    /\ users' = {}
    /\ conn' = [c \in Conns |-> NoConn]
    /\ wire' = [c \in Conns |-> <<>>]
    /\ link' = [d \in Devices |-> Disconnected]
    /\ UNCHANGED <<rowVars, cursor, stored, received, breaks, errors,
                   missed>>

-----------------------------------------------------------------------------
Init ==
    /\ last_id = 0 /\ delivered = {}
    /\ sender = [p \in Senders |-> Idle] /\ redeliveries = 0
    /\ users = {}
    /\ conn = [c \in Conns |-> NoConn]
    /\ wire = [c \in Conns |-> <<>>]
    /\ link = [d \in Devices |-> Disconnected]
    /\ cursor = [d \in Devices |-> 0] /\ stored = [d \in Devices |-> 0]
    /\ breaks = 0 /\ errors = 0 /\ crashes = 0
    /\ received = [d \in Devices |-> [m \in Ids |-> 0]]
    /\ missed = [d \in Devices |-> {}]

Publishing(p) == Snapshot(p) \/ \E c \in Conns : Offer(p, c)

Serving(c) == \/ ReadPage(c) \/ WriteReplay(c)
              \/ WriteLive(c) \/ SkipLive(c) \/ Leave(c)

Following(d) == Receive(d) \/ \E c \in Conns : Connect(d, c)

Next ==
    \/ \E p \in Senders : \/ Ingest(p) \/ Publishing(p)
                          \/ \E m \in Ids : Redeliver(p, m)
    \/ \E c \in Conns : Serving(c) \/ ReadPageFails(c)
    \/ \E d \in Devices : Following(d) \/ Break(d) \/ RestartClient(d)
    \/ Crash

Spec == Init /\ [][Next]_vars

\* Goroutines are scheduled; the client reads and always reconnects.
FairSpec == Spec /\ WF_vars(\E p \in Senders : Publishing(p))
                 /\ WF_vars(\E c \in Conns : Serving(c))
                 /\ WF_vars(\E d \in Devices : Following(d))

-----------------------------------------------------------------------------
(* Properties.                                                             *)

\* Every variable has its type; a device and its connection agree, and only
\* connections that exist are registered (hub/hub.go, hub/ws.go).
TypeOK ==
    /\ last_id \in 0..MaxMessages /\ delivered \subseteq 1..last_id
    /\ sender \in [Senders -> SenderState] /\ redeliveries \in Nat
    /\ conn \in [Conns -> ConnState]
    /\ users \subseteq {c \in Conns : Connected(c)}
    /\ wire \in [Conns -> Seq(Ids)]
    /\ link \in [Devices -> {Disconnected} \cup {OnConn(c) : c \in Conns}]
    /\ cursor \in [Devices -> 0..last_id] /\ stored \in [Devices -> 0..last_id]
    /\ \A d \in Devices, c \in Conns :
        link[d] = OnConn(c)
            <=> Connected(c) /\ conn[c].device = d /\ conn[c].peer
    /\ breaks \in Nat /\ errors \in Nat /\ crashes \in Nat
    /\ received \in [Devices -> [Ids -> Nat]]
    /\ missed \in [Devices -> SUBSET Ids]

\* A device observes a message again only after its process restarted from a
\* cursor file it failed to write: never on one connection, and never over a
\* reconnect (ws.go lastSent, Cursor::observe).
ReceivedOnce ==
    \A d \in Devices, m \in Ids : received[d][m] > 1 => errors > 0 /\ breaks > 0

\* The cursor of a device passes a message it has not observed only where the
\* server passed over it: a page cut short or not read, a full inbox, or a
\* higher id published first.  Subscribing before the replay leaves no other gap
\* (hub/hub.go subscribe, ws.go ServeWS).
GapsAreExplained ==
    \A d \in Devices : \A m \in 1..cursor[d] :
        received[d][m] = 0 => m \in missed[d]

Stalled(d) == \E c \in Conns : /\ link[d] = OnConn(c)
                               /\ c \notin users

\* Every message that is committed reaches every device, over lost connections
\* and crashes, unless the server passed over it or the device sits on a
\* connection whose inbox was full once (hub/hub.go Publish).
EveryMessageArrives ==
    \A d \in Devices : []<>(\A m \in 1..last_id :
        received[d][m] > 0 \/ m \in missed[d] \/ Stalled(d))

-----------------------------------------------------------------------------
(* What the documentation says and the program does not do.                *)

\* hub/hub.go subscribe: "no lost, no duplicate messages": what the cursor of a
\* device has passed was observed.
NoneLost == \A d \in Devices : \A m \in 1..cursor[d] : received[d][m] > 0

\* hub/hub.go Publish: a connection whose inbox is full "is force-closed (it
\* will reconnect and replay via since)".
FullInboxIsClosed == \A d \in Devices : Stalled(d) ~> ~Stalled(d)
=============================================================================
