------------------------------ MODULE HubProofs ------------------------------
(***************************************************************************)
(* Theorems about Hub, for every value of its constants.                   *)
(***************************************************************************)
EXTENDS Hub, TLAPS, SequenceTheorems

-----------------------------------------------------------------------------
(* Typing.                                                                 *)

\* A connection that is there.
OpenConn == [step: {"open", "live"}, device: Devices, peer: BOOLEAN,
             last_sent: 0..MaxMessages, rest: Seq(Ids), inbox: Seq(Ids)]

\* Connected tells which connections these are.
LEMMA ConnType ==
    ASSUME TypeOK, NEW c \in Conns
    PROVE  Connected(c) <=> conn[c] \in OpenConn
BY DEF TypeOK, ConnState, NoConn, OpenConn, Connected

\* What a publisher holds while it publishes.
LEMMA SenderType ==
    ASSUME TypeOK, NEW p \in Senders
    PROVE  /\ sender[p].step \in {"idle", "publish", "offer"}
           /\ sender[p].step = "idle" => sender[p] = Idle
           /\ sender[p].step # "idle" => sender[p].msg \in Ids
           /\ sender[p].step = "offer" => sender[p].targets \subseteq Conns
BY DEF TypeOK, SenderState, Idle

\* A publisher goes on while it has someone left to offer its message to.
LEMMA OfferingType ==
    ASSUME NEW m \in Ids, NEW T \in SUBSET Conns
    PROVE  /\ Offering(m, T) \in SenderState
           /\ Offering(m, T).step = "offer" <=> T # {}
           /\ Offering(m, T).step \in {"idle", "offer"}
           /\ T # {} => Offering(m, T).msg = m /\ Offering(m, T).targets = T
BY DEF Offering, SenderState, Idle

\* The ids in (from, to], in order.
LEMMA AfterType ==
    ASSUME NEW from \in 0..MaxMessages, NEW to \in from..MaxMessages
    PROVE  /\ After(from, to) \in Seq(Ids)
           /\ Len(After(from, to)) = to - from
           /\ \A i \in 1..(to - from) : After(from, to)[i] = from + i
<1>1. to - from \in Nat /\ \A i \in 1..(to - from) : from + i \in Ids
  BY HubAssumption DEF Ids
<1>2. After(from, to) \in [1..(to - from) -> Ids]
  BY <1>1 DEF After
<1>3. After(from, to) \in Seq(Ids)
  BY <1>1, <1>2
<1> QED
  BY <1>1, <1>3 DEF After

-----------------------------------------------------------------------------
(* What each step does to the connection it is about.                      *)

\* An offer fills the inbox or gives the connection up.
LEMMA OfferEffect ==
    ASSUME TypeOK, NEW p \in Senders, NEW c \in Conns, Connected(c), Offer(p, c)
    PROVE  LET m == sender[p].msg
               d == conn[c].device
           IN  /\ m \in Ids /\ d \in Devices
               /\ sender' = [sender EXCEPT ![p] = Offering(m, sender[p].targets \ {c})]
               /\ \/ /\ \E k \in OpenConn :
                          /\ conn' = [conn EXCEPT ![c] = k]
                          /\ k.step = conn[c].step /\ k.device = d
                          /\ k.peer = conn[c].peer /\ k.last_sent = conn[c].last_sent
                          /\ k.rest = conn[c].rest /\ k.inbox = Append(conn[c].inbox, m)
                     /\ missed' = [missed EXCEPT ![d] = @ \cup
                            {l \in 1..(m - 1) : l \in Underway(c) \/ c \notin users}]
                     /\ users' = users
                  \/ /\ conn' = conn /\ users' = users \ {c}
                     /\ missed' = [missed EXCEPT ![d] = @ \cup {m}]
               /\ UNCHANGED <<rowVars, wire, clientVars, faultVars>>
<1> DEFINE m == sender[p].msg
           k == [conn[c] EXCEPT !.inbox = Append(conn[c].inbox, m)]
<1>1. m \in Ids /\ conn[c] \in OpenConn /\ conn \in [Conns -> ConnState]
  BY SenderType, ConnType DEF Offer, TypeOK
<1>2. conn[c].inbox \in Seq(Ids) /\ Append(conn[c].inbox, m) \in Seq(Ids)
  BY <1>1 DEF OpenConn
<1>3. /\ k \in OpenConn
      /\ k.step = conn[c].step /\ k.device = conn[c].device
      /\ k.peer = conn[c].peer /\ k.last_sent = conn[c].last_sent
      /\ k.rest = conn[c].rest /\ k.inbox = Append(conn[c].inbox, m)
  BY <1>1, <1>2 DEF OpenConn
<1>4. [conn EXCEPT ![c].inbox = Append(@, m)] = [conn EXCEPT ![c] = k]
  BY <1>1
<1>5. conn[c].device \in Devices
  BY <1>1 DEF OpenConn
<1> HIDE DEF k
<1> QED
  BY <1>1, <1>3, <1>4, <1>5, Zenon DEF Offer, PassOver

\* The page is the rest of what ids there are above since.
LEMMA ReadPageEffect ==
    ASSUME TypeOK, NEW c \in Conns, ReadPage(c), conn[c].last_sent <= last_id
    PROVE  \E k \in OpenConn, end \in conn[c].last_sent..last_id :
             /\ conn' = [conn EXCEPT ![c] = k]
             /\ k.step = "live" /\ k.device = conn[c].device
             /\ k.peer = conn[c].peer /\ k.last_sent = conn[c].last_sent
             /\ k.rest = After(conn[c].last_sent, end) /\ k.inbox = conn[c].inbox
             /\ missed' = [missed EXCEPT ![conn[c].device] = @ \cup (end + 1)..last_id]
<1> DEFINE since == conn[c].last_sent
           end   == IF since + PageLimit < last_id THEN since + PageLimit ELSE last_id
           k     == [conn[c] EXCEPT !.step = "live", !.rest = After(since, end)]
<1>1. conn[c] \in OpenConn /\ conn \in [Conns -> ConnState] /\ last_id \in 0..MaxMessages
  BY ConnType DEF ReadPage, TypeOK, Connected
<1>2. since \in 0..MaxMessages /\ end \in since..last_id /\ end \in since..MaxMessages
  BY <1>1, HubAssumption DEF OpenConn
<1>3. After(since, end) \in Seq(Ids)
  BY <1>2, AfterType
<1>4. conn' = [conn EXCEPT ![c].step = "live", ![c].rest = After(since, end)]
      /\ missed' = [missed EXCEPT ![conn[c].device] = @ \cup (end + 1)..last_id]
  BY Zenon DEF ReadPage, PassOver
<1> HIDE DEF end
<1>5. /\ k \in OpenConn
      /\ k.step = "live" /\ k.device = conn[c].device
      /\ k.peer = conn[c].peer /\ k.last_sent = conn[c].last_sent
      /\ k.rest = After(since, end) /\ k.inbox = conn[c].inbox
  BY <1>1, <1>3 DEF OpenConn
<1>6. conn' = [conn EXCEPT ![c] = k]
  BY <1>1, <1>4
<1> HIDE DEF k
<1> QED
  BY <1>2, <1>4, <1>5, <1>6

\* A failed read leaves an empty page.
LEMMA ReadPageFailsEffect ==
    ASSUME TypeOK, NEW c \in Conns, ReadPageFails(c)
    PROVE  \E k \in OpenConn :
             /\ conn' = [conn EXCEPT ![c] = k]
             /\ k.step = "live" /\ k.device = conn[c].device
             /\ k.peer = conn[c].peer /\ k.last_sent = conn[c].last_sent
             /\ k.rest = conn[c].rest /\ k.inbox = conn[c].inbox
             /\ missed' = [missed EXCEPT ![conn[c].device] =
                                @ \cup (conn[c].last_sent + 1)..last_id]
<1> DEFINE k == [conn[c] EXCEPT !.step = "live"]
<1>1. conn[c] \in OpenConn /\ conn \in [Conns -> ConnState]
  BY ConnType DEF ReadPageFails, TypeOK, Connected
<1>2. /\ k \in OpenConn
      /\ k.step = "live" /\ k.device = conn[c].device
      /\ k.peer = conn[c].peer /\ k.last_sent = conn[c].last_sent
      /\ k.rest = conn[c].rest /\ k.inbox = conn[c].inbox
  BY <1>1 DEF OpenConn
<1>3. conn' = [conn EXCEPT ![c] = k]
  BY <1>1 DEF ReadPageFails
<1> HIDE DEF k
<1> QED
  BY <1>2, <1>3 DEF ReadPageFails, PassOver

\* A frame goes on the wire to a client that is there.
LEMMA WriteEffect ==
    ASSUME TypeOK, NEW c \in Conns, NEW m \in Ids, Write(c, m)
    PROVE  /\ wire' = [wire EXCEPT ![c] = wire'[c]]
           /\ wire'[c] = IF conn[c].peer THEN Append(wire[c], m) ELSE wire[c]
           /\ wire'[c] \in Seq(Ids)
           /\ delivered' \subseteq delivered \cup {m}
           /\ errors' \in {errors, errors + 1}
           /\ UNCHANGED <<last_id, sender, redeliveries, users, clientVars, breaks,
                          crashes, missed>>
<1>1. wire \in [Conns -> Seq(Ids)]
  BY DEF TypeOK
<1>2. Append(wire[c], m) \in Seq(Ids)
  BY <1>1
<1>3. wire' = IF conn[c].peer THEN [wire EXCEPT ![c] = Append(wire[c], m)] ELSE wire
  BY <1>1 DEF Write
<1>4. /\ delivered' \subseteq delivered \cup {m} /\ errors' \in {errors, errors + 1}
      /\ UNCHANGED <<last_id, sender, redeliveries, users, clientVars, breaks,
                     crashes, missed>>
  BY DEF Write
<1> QED
  BY <1>1, <1>2, <1>3, <1>4

\* The next message of the page is written.
LEMMA WriteReplayEffect ==
    ASSUME TypeOK, NEW c \in Conns, WriteReplay(c)
    PROVE  LET m == Head(conn[c].rest)
           IN  /\ m \in Ids /\ Write(c, m) /\ conn[c] \in OpenConn
               /\ conn[c].step = "live" /\ conn[c].rest # <<>>
               /\ \E k \in OpenConn :
                     /\ conn' = [conn EXCEPT ![c] = k]
                     /\ k.step = "live" /\ k.device = conn[c].device
                     /\ k.peer = conn[c].peer /\ k.last_sent = m
                     /\ k.rest = Tail(conn[c].rest) /\ k.inbox = conn[c].inbox
<1> DEFINE m == Head(conn[c].rest)
           k == [conn[c] EXCEPT !.rest = Tail(conn[c].rest), !.last_sent = m]
<1>1. /\ conn[c] \in OpenConn /\ conn \in [Conns -> ConnState]
      /\ conn[c].step = "live" /\ conn[c].rest # <<>>
  BY ConnType DEF WriteReplay, TypeOK, Connected
<1>2. conn[c].rest \in Seq(Ids)
  BY <1>1 DEF OpenConn
<1>3. m \in Ids /\ Tail(conn[c].rest) \in Seq(Ids)
  BY <1>1, <1>2, HeadTailProperties
<1>4. m \in 0..MaxMessages
  BY <1>3 DEF Ids
<1>5. conn' = [conn EXCEPT ![c].rest = Tail(@), ![c].last_sent = m] /\ Write(c, m)
  BY Zenon DEF WriteReplay
<1> HIDE DEF m
<1>6. /\ k \in OpenConn
      /\ k.step = "live" /\ k.device = conn[c].device
      /\ k.peer = conn[c].peer /\ k.last_sent = m
      /\ k.rest = Tail(conn[c].rest) /\ k.inbox = conn[c].inbox
  BY <1>1, <1>3, <1>4 DEF OpenConn
<1>7. conn' = [conn EXCEPT ![c] = k]
  BY <1>1, <1>5
<1> HIDE DEF k
<1> QED
  BY <1>1, <1>3, <1>5, <1>6, <1>7 DEF m

\* The next message of the inbox is written ...
LEMMA WriteLiveEffect ==
    ASSUME TypeOK, NEW c \in Conns, WriteLive(c)
    PROVE  LET m == Head(conn[c].inbox)
           IN  /\ m \in Ids /\ Write(c, m) /\ conn[c] \in OpenConn
               /\ conn[c].step = "live" /\ conn[c].rest = <<>>
               /\ conn[c].inbox # <<>> /\ m > conn[c].last_sent
               /\ \E k \in OpenConn :
                     /\ conn' = [conn EXCEPT ![c] = k]
                     /\ k.step = "live" /\ k.device = conn[c].device
                     /\ k.peer = conn[c].peer /\ k.last_sent = m
                     /\ k.rest = <<>> /\ k.inbox = Tail(conn[c].inbox)
<1> DEFINE m == Head(conn[c].inbox)
           k == [conn[c] EXCEPT !.inbox = Tail(conn[c].inbox), !.last_sent = m]
<1>1. /\ conn[c] \in OpenConn /\ conn \in [Conns -> ConnState]
      /\ conn[c].step = "live" /\ conn[c].rest = <<>> /\ conn[c].inbox # <<>>
      /\ m > conn[c].last_sent
  BY ConnType DEF WriteLive, Live, TypeOK, Connected
<1>2. conn[c].inbox \in Seq(Ids)
  BY <1>1 DEF OpenConn
<1>3. m \in Ids /\ Tail(conn[c].inbox) \in Seq(Ids)
  BY <1>1, <1>2, HeadTailProperties
<1>4. m \in 0..MaxMessages
  BY <1>3 DEF Ids
<1>5. conn' = [conn EXCEPT ![c].inbox = Tail(@), ![c].last_sent = m] /\ Write(c, m)
  BY Zenon DEF WriteLive
<1> HIDE DEF m
<1>6. /\ k \in OpenConn
      /\ k.step = "live" /\ k.device = conn[c].device
      /\ k.peer = conn[c].peer /\ k.last_sent = m
      /\ k.rest = <<>> /\ k.inbox = Tail(conn[c].inbox)
  BY <1>1, <1>3, <1>4 DEF OpenConn
<1>7. conn' = [conn EXCEPT ![c] = k]
  BY <1>1, <1>5
<1> HIDE DEF k
<1> QED
  BY <1>1, <1>3, <1>5, <1>6, <1>7 DEF m

\* ... or skipped.
LEMMA SkipLiveEffect ==
    ASSUME TypeOK, NEW c \in Conns, SkipLive(c)
    PROVE  /\ conn[c] \in OpenConn /\ conn[c].inbox # <<>>
           /\ conn[c].step = "live" /\ Head(conn[c].inbox) <= conn[c].last_sent
           /\ \E k \in OpenConn :
                 /\ conn' = [conn EXCEPT ![c] = k]
                 /\ k.step = "live" /\ k.device = conn[c].device
                 /\ k.peer = conn[c].peer /\ k.last_sent = conn[c].last_sent
                 /\ k.rest = conn[c].rest /\ k.inbox = Tail(conn[c].inbox)
<1> DEFINE k == [conn[c] EXCEPT !.inbox = Tail(conn[c].inbox)]
<1>1. /\ conn[c] \in OpenConn /\ conn \in [Conns -> ConnState]
      /\ conn[c].step = "live" /\ conn[c].inbox # <<>>
      /\ Head(conn[c].inbox) <= conn[c].last_sent
  BY ConnType DEF SkipLive, Live, TypeOK, Connected
<1>2. conn[c].inbox \in Seq(Ids)
  BY <1>1 DEF OpenConn
<1>3. Tail(conn[c].inbox) \in Seq(Ids)
  BY <1>1, <1>2, HeadTailProperties
<1>4. conn' = [conn EXCEPT ![c].inbox = Tail(@)]
  BY Zenon DEF SkipLive
<1>5. /\ k \in OpenConn
      /\ k.step = "live" /\ k.device = conn[c].device
      /\ k.peer = conn[c].peer /\ k.last_sent = conn[c].last_sent
      /\ k.rest = conn[c].rest /\ k.inbox = Tail(conn[c].inbox)
  BY <1>1, <1>3 DEF OpenConn
<1>6. conn' = [conn EXCEPT ![c] = k]
  BY <1>1, <1>4
<1> HIDE DEF k
<1> QED
  BY <1>1, <1>5, <1>6

\* A connection begins where its client's cursor is.
LEMMA ConnectEffect ==
    ASSUME TypeOK, NEW d \in Devices, NEW c \in Conns, Connect(d, c)
    PROVE  \E k \in OpenConn :
             /\ conn' = [conn EXCEPT ![c] = k]
             /\ k.step = "open" /\ k.device = d /\ k.peer /\ k.last_sent = cursor[d]
             /\ k.rest = <<>> /\ k.inbox = <<>>
<1> DEFINE k == [step |-> "open", device |-> d, peer |-> TRUE,
                 last_sent |-> cursor[d], rest |-> <<>>, inbox |-> <<>>]
<1>1. cursor[d] \in 0..MaxMessages
  BY HubAssumption DEF TypeOK
<1>2. <<>> \in Seq(Ids)
  OBVIOUS
<1>3. k \in OpenConn
  BY <1>1, <1>2 DEF OpenConn
<1>4. /\ k.step = "open" /\ k.device = d /\ k.peer /\ k.last_sent = cursor[d]
      /\ k.rest = <<>> /\ k.inbox = <<>>
  OBVIOUS
<1>5. conn' = [conn EXCEPT ![c] = k]
  BY Zenon DEF Connect
<1> HIDE DEF k
<1> QED
  BY <1>3, <1>4, <1>5

\* A device that is connected has a connection.
LEMMA UpHasConn ==
    ASSUME TypeOK, NEW d \in Devices, link[d].step = "up"
    PROVE  \E c \in Conns : link[d] = OnConn(c) /\ link[d].conn = c
<1>1. link[d] = Disconnected \/ \E c \in Conns : link[d] = OnConn(c)
  BY DEF TypeOK
<1>2. Disconnected.step = "down" /\ \A c \in Conns : OnConn(c).conn = c
  BY DEF Disconnected, OnConn
<1> QED
  BY <1>1, <1>2

\* A client that goes takes what was on the wire with it.
LEMMA LoseEffect ==
    ASSUME TypeOK, NEW d \in Devices, Lose(d)
    PROVE  \E c \in Conns, k \in OpenConn :
             /\ link[d] = OnConn(c)
             /\ Connected(c) /\ conn[c].device = d /\ conn[c].peer
             /\ conn' = [conn EXCEPT ![c] = k]
             /\ k.step = conn[c].step /\ k.device = d
             /\ k.peer = FALSE /\ k.last_sent = conn[c].last_sent
             /\ k.rest = conn[c].rest /\ k.inbox = conn[c].inbox
             /\ wire' = [wire EXCEPT ![c] = <<>>]
<1>1. PICK c \in Conns : link[d] = OnConn(c)
  BY UpHasConn DEF Lose
<1> DEFINE k == [conn[c] EXCEPT !.peer = FALSE]
<1>2. link[d].conn = c
  BY <1>1 DEF OnConn
<1>3. Connected(c) /\ conn[c].device = d /\ conn[c].peer
  BY <1>1 DEF TypeOK
<1>4. conn[c] \in OpenConn /\ conn \in [Conns -> ConnState]
  BY <1>3, ConnType DEF TypeOK
<1>5. /\ k \in OpenConn
      /\ k.step = conn[c].step /\ k.device = conn[c].device
      /\ k.peer = FALSE /\ k.last_sent = conn[c].last_sent
      /\ k.rest = conn[c].rest /\ k.inbox = conn[c].inbox
  BY <1>4 DEF OpenConn
<1>6. conn' = [conn EXCEPT ![c] = k] /\ wire' = [wire EXCEPT ![c] = <<>>]
  BY <1>2, <1>4 DEF Lose
<1> HIDE DEF k
<1> QED
  BY <1>1, <1>3, <1>5, <1>6

-----------------------------------------------------------------------------
(* The inductive invariant, per actor.                                     *)

\* A publisher holds a committed message, for connections that are there.
SenderInv(p) ==
    /\ sender[p].step # "idle" => sender[p].msg <= last_id
    /\ sender[p].step = "offer" =>
           sender[p].targets # {} /\ \A c \in sender[p].targets : Connected(c)

\* What a connection has written or holds in its page ends here.
PageEnd(c) == conn[c].last_sent + Len(conn[c].rest)

\* The page follows the last frame, and ends with a committed message.
PageFollows(c) ==
    /\ \A i \in 1..Len(conn[c].rest) : conn[c].rest[i] = conn[c].last_sent + i
    /\ PageEnd(c) <= last_id
    /\ \A i \in 1..Len(conn[c].inbox) : conn[c].inbox[i] <= last_id
    /\ conn[c].step = "open" => conn[c].rest = <<>>

InInbox(c, l) == \E i \in 1..Len(conn[c].inbox) : conn[c].inbox[i] = l

\* Past the page every committed message is in the inbox, on its way to it, or
\* passed over; or the connection is no longer registered.
Promised(c) ==
    conn[c].step = "live" => \A l \in Ids : l > PageEnd(c) /\ l <= last_id =>
        \/ InInbox(c, l) \/ l \in missed[conn[c].device]
        \/ l \in Underway(c) \/ c \notin users

\* Past the page what the inbox skips is passed over.
InboxOrdered(c) ==
    conn[c].step = "live" =>
        \A i \in 1..Len(conn[c].inbox), l \in Ids :
            l > PageEnd(c) /\ l < conn[c].inbox[i] =>
                \/ \E j \in 1..(i - 1) : conn[c].inbox[j] = l
                \/ l \in missed[conn[c].device]

ConnInv(c) == Connected(c) => PageFollows(c) /\ Promised(c) /\ InboxOrdered(c)

\* Frames are underway to clients that are there, ascending.
WireInv(c) ==
    /\ wire[c] # <<>> => Connected(c) /\ conn[c].peer
    /\ \A i, j \in 1..Len(wire[c]) : i < j => wire[c][i] < wire[c][j]
    /\ \A i \in 1..Len(wire[c]) : wire[c][i] <= conn[c].last_sent

OnWire(c, l) == \E i \in 1..Len(wire[c]) : wire[c][i] = l

\* A connection is ahead of its client's cursor, and up to the last frame every
\* message was observed, is on the wire or was passed over.
FollowInv(c) ==
    Connected(c) /\ conn[c].peer =>
        LET d == conn[c].device
        IN  /\ cursor[d] <= conn[c].last_sent
            /\ \A i \in 1..Len(wire[c]) : cursor[d] < wire[c][i]
            /\ \A l \in Ids : l <= conn[c].last_sent =>
                  received[d][l] > 0 \/ l \in missed[d] \/ OnWire(c, l)

\* The cursor file is behind the cursor only after a failed write, and the
\* cursor behind what was observed only after a restart from such a file.
CursorInv(d) ==
    /\ stored[d] <= cursor[d]
    /\ stored[d] < cursor[d] => errors > 0
    /\ \A m \in Ids : received[d][m] > 0 /\ m > cursor[d] => errors > 0 /\ breaks > 0

HubInv == /\ TypeOK /\ ReceivedOnce /\ GapsAreExplained
          /\ \A p \in Senders : SenderInv(p)
          /\ \A c \in Conns : ConnInv(c) /\ WireInv(c) /\ FollowInv(c)
          /\ \A d \in Devices : CursorInv(d)

\* The invariant holds initially.
LEMMA InitInv == Init => HubInv
<1> SUFFICES ASSUME Init PROVE HubInv
  OBVIOUS
<1>1. TypeOK
  <2>1. \A c \in Conns : ~Connected(c)
    BY DEF Init, Connected, NoConn
  <2>2. \A c \in Conns : Disconnected # OnConn(c)
    BY DEF Disconnected, OnConn
  <2>3. sender \in [Senders -> SenderState] /\ conn \in [Conns -> ConnState]
    BY DEF Init, SenderState, ConnState
  <2>4. wire \in [Conns -> Seq(Ids)]
    BY DEF Init
  <2> QED
    BY <2>1, <2>2, <2>3, <2>4, HubAssumption DEF Init, TypeOK
<1>2. ReceivedOnce /\ GapsAreExplained /\ \A d \in Devices : CursorInv(d)
  BY DEF Init, ReceivedOnce, GapsAreExplained, CursorInv
<1>3. \A p \in Senders : SenderInv(p)
  BY DEF Init, SenderInv, Idle
<1>4. \A c \in Conns : ConnInv(c) /\ WireInv(c) /\ FollowInv(c)
  BY DEF Init, ConnInv, WireInv, FollowInv, Connected, NoConn
<1> QED
  BY <1>1, <1>2, <1>3, <1>4 DEF HubInv

-----------------------------------------------------------------------------
(* Every step keeps the types.                                             *)

\* What a connection has sent or holds is committed.
LEMMA SentCommitted ==
    ASSUME HubInv, NEW c \in Conns, Connected(c)
    PROVE  /\ conn[c] \in OpenConn /\ last_id \in 0..MaxMessages
           /\ conn[c].last_sent \in 0..last_id
           /\ \A i \in 1..Len(conn[c].rest) : conn[c].rest[i] <= last_id
           /\ \A i \in 1..Len(conn[c].inbox) : conn[c].inbox[i] <= last_id
           /\ \A i \in 1..Len(wire[c]) : wire[c][i] <= last_id
<1>1. /\ conn[c] \in OpenConn /\ last_id \in 0..MaxMessages /\ PageFollows(c) /\ WireInv(c)
      /\ wire[c] \in Seq(Ids)
  BY ConnType DEF HubInv, TypeOK, ConnInv
<1>2. conn[c].last_sent \in Nat /\ Len(conn[c].rest) \in Nat /\ conn[c].rest \in Seq(Ids)
      /\ conn[c].inbox \in Seq(Ids)
  BY <1>1, LenProperties DEF OpenConn
<1>3. conn[c].last_sent <= last_id
  BY <1>1, <1>2 DEF PageFollows, PageEnd
<1>4. \A i \in 1..Len(conn[c].rest) : conn[c].rest[i] <= last_id
  BY <1>1, <1>2 DEF PageFollows, PageEnd
<1>5. \A i \in 1..Len(wire[c]) : wire[c][i] <= last_id
  <2> SUFFICES ASSUME NEW i \in 1..Len(wire[c]) PROVE wire[c][i] <= last_id
    OBVIOUS
  <2>1. wire[c][i] <= conn[c].last_sent
    BY <1>1 DEF WireInv
  <2>2. wire[c][i] \in Ids
    BY <1>1, ElementOfSeq
  <2>3. wire[c][i] \in Nat /\ last_id \in Nat
    BY <1>1, <2>2, HubAssumption DEF Ids
  <2> QED
    BY <1>2, <1>3, <2>1, <2>3
<1>6. conn[c].last_sent \in 0..last_id
  BY <1>1, <1>2, <1>3, HubAssumption
<1> QED
  BY <1>1, <1>4, <1>5, <1>6 DEF PageFollows

LinkAgrees ==
    \A d \in Devices, c \in Conns :
        link[d] = OnConn(c) <=> Connected(c) /\ conn[c].device = d /\ conn[c].peer

ConnsTyped == /\ conn \in [Conns -> ConnState]
              /\ users \subseteq {c \in Conns : Connected(c)}
              /\ link \in [Devices -> {Disconnected} \cup {OnConn(c) : c \in Conns}]
              /\ LinkAgrees

\* A connection that goes on with its device and peer keeps these types.
LEMMA ConnsTypedSame ==
    ASSUME TypeOK, NEW c \in Conns, Connected(c), NEW k \in OpenConn,
           conn' = [conn EXCEPT ![c] = k] \/ conn' = conn,
           k.device = conn[c].device, k.peer = conn[c].peer,
           link' = link, users' \subseteq users
    PROVE  ConnsTyped'
<1>1. conn \in [Conns -> ConnState] /\ k.step # "none" /\ k \in ConnState
  BY DEF TypeOK, OpenConn, ConnState
<1>2. conn' \in [Conns -> ConnState]
  BY <1>1
<1>3. \A x \in Conns : /\ Connected(x)' <=> Connected(x)
                       /\ conn'[x].device = conn[x].device /\ conn'[x].peer = conn[x].peer
  BY <1>1 DEF Connected
<1>4. LinkAgrees'
  BY <1>3 DEF LinkAgrees, TypeOK
<1> QED
  BY <1>2, <1>3, <1>4 DEF ConnsTyped, TypeOK

\* Passing over messages leaves sets of ids.
LEMMA PassOverType ==
    ASSUME TypeOK, NEW d \in Devices, NEW S \in SUBSET Ids,
           missed' = [missed EXCEPT ![d] = @ \cup S]
    PROVE  /\ missed' \in [Devices -> SUBSET Ids]
           /\ \A e \in Devices : missed[e] \subseteq missed'[e]
           /\ S \subseteq missed'[d]
BY DEF TypeOK

\* TypeOK of the variables that a step on a connection may change.
RestTyped ==
    /\ last_id \in 0..MaxMessages /\ delivered \subseteq 1..last_id
    /\ sender \in [Senders -> SenderState] /\ redeliveries \in Nat
    /\ wire \in [Conns -> Seq(Ids)]
    /\ cursor \in [Devices -> 0..last_id] /\ stored \in [Devices -> 0..last_id]
    /\ breaks \in Nat /\ errors \in Nat /\ crashes \in Nat
    /\ received \in [Devices -> [Ids -> Nat]]
    /\ missed \in [Devices -> SUBSET Ids]

\* Together the two are TypeOK, before and after a step.
LEMMA TypeSplit ==
    /\ TypeOK <=> ConnsTyped /\ RestTyped
    /\ TypeOK' <=> ConnsTyped' /\ RestTyped'
<1>1. TypeOK <=> ConnsTyped /\ RestTyped
  BY DEF TypeOK, ConnsTyped, RestTyped, LinkAgrees
<1>2. TypeOK' <=> ConnsTyped' /\ RestTyped'
  BY DEF TypeOK, ConnsTyped, RestTyped, LinkAgrees
<1> QED
  BY <1>1, <1>2

\* The publishers' steps.
LEMMA SenderSteps ==
    ASSUME HubInv, NEW p \in Senders,
           Ingest(p) \/ Snapshot(p) \/ \E m \in Ids : Redeliver(p, m)
    PROVE  TypeOK'
<1>0. TypeOK /\ ConnsTyped /\ RestTyped
  BY TypeSplit DEF HubInv
<1>1. UNCHANGED <<delivered, users, conn, wire, clientVars, faultVars, missed>>
  BY DEF Ingest, Snapshot, Redeliver, rowVars
<1>2. ConnsTyped'
  BY <1>0, <1>1 DEF ConnsTyped, LinkAgrees, Connected, clientVars
<1>3. /\ last_id' \in last_id..MaxMessages /\ redeliveries' \in Nat
      /\ sender' \in [Senders -> SenderState]
  <2>1. CASE Ingest(p)
    <3>1. last_id + 1 \in Ids /\ last_id + 1 \in last_id..MaxMessages
      BY <1>0, <2>1, HubAssumption DEF Ingest, RestTyped, Ids
    <3>2. [step |-> "publish", msg |-> last_id + 1] \in SenderState
      BY <3>1 DEF SenderState
    <3>3. sender' = [sender EXCEPT ![p] = [step |-> "publish", msg |-> last_id + 1]]
          /\ last_id' = last_id + 1 /\ redeliveries' = redeliveries
      BY <2>1 DEF Ingest
    <3> QED
      BY <1>0, <3>1, <3>2, <3>3 DEF RestTyped
  <2>2. CASE Snapshot(p)
    <3>1. sender[p].msg \in Ids /\ users \subseteq Conns
      BY <1>0, <2>2, SenderType DEF Snapshot, ConnsTyped
    <3>2. sender' = [sender EXCEPT ![p] = Offering(sender[p].msg, users)]
          /\ UNCHANGED <<last_id, redeliveries>>
      BY <2>2 DEF Snapshot, rowVars
    <3>3. Offering(sender[p].msg, users) \in SenderState
      BY <3>1, OfferingType
    <3> QED
      BY <1>0, <3>2, <3>3, HubAssumption DEF RestTyped
  <2>3. ASSUME NEW m \in Ids, Redeliver(p, m)
        PROVE  /\ last_id' \in last_id..MaxMessages /\ redeliveries' \in Nat
               /\ sender' \in [Senders -> SenderState]
    <3>1. [step |-> "publish", msg |-> m] \in SenderState
      BY DEF SenderState
    <3>2. /\ sender' = [sender EXCEPT ![p] = [step |-> "publish", msg |-> m]]
          /\ last_id' = last_id /\ redeliveries' = redeliveries + 1
      BY <2>3 DEF Redeliver
    <3> QED
      BY <1>0, <3>1, <3>2, HubAssumption DEF RestTyped
  <2> QED
    BY <2>1, <2>2, <2>3
<1>4. RestTyped'
  BY <1>0, <1>1, <1>3, HubAssumption DEF RestTyped, clientVars, faultVars
<1> QED
  BY <1>2, <1>4, TypeSplit

\* An offer.
LEMMA OfferStep ==
    ASSUME HubInv, NEW p \in Senders, NEW c \in Conns, Offer(p, c)
    PROVE  TypeOK' /\ Connected(c)
<1>0. TypeOK /\ ConnsTyped /\ RestTyped /\ Connected(c)
  BY TypeSplit DEF HubInv, SenderInv, Offer
<1> DEFINE m == sender[p].msg
           d == conn[c].device
           S == {l \in 1..(m - 1) : l \in Underway(c) \/ c \notin users}
<1>1. /\ m \in Ids /\ d \in Devices
      /\ sender' = [sender EXCEPT ![p] = Offering(m, sender[p].targets \ {c})]
      /\ UNCHANGED <<rowVars, wire, clientVars, faultVars>>
      /\ users' \subseteq users
      /\ \E k \in OpenConn : /\ conn' = [conn EXCEPT ![c] = k] \/ conn' = conn
                             /\ k.device = d /\ k.peer = conn[c].peer
      /\ missed' = [missed EXCEPT ![d] = @ \cup S] \/ missed' = [missed EXCEPT ![d] = @ \cup {m}]
  <2>1. conn[c] \in OpenConn
    BY <1>0, ConnType
  <2>2. /\ m \in Ids /\ d \in Devices
        /\ sender' = [sender EXCEPT ![p] = Offering(m, sender[p].targets \ {c})]
        /\ \/ /\ \E k \in OpenConn :
                   /\ conn' = [conn EXCEPT ![c] = k]
                   /\ k.device = d /\ k.peer = conn[c].peer
              /\ missed' = [missed EXCEPT ![d] = @ \cup S]
              /\ users' = users
           \/ /\ conn' = conn /\ users' = users \ {c}
              /\ missed' = [missed EXCEPT ![d] = @ \cup {m}]
        /\ UNCHANGED <<rowVars, wire, clientVars, faultVars>>
    BY <1>0, OfferEffect
  <2> HIDE DEF m, S
  <2> QED
    BY <2>1, <2>2
<1>2. sender' \in [Senders -> SenderState]
  <2>1. sender[p].targets \ {c} \in SUBSET Conns
    BY <1>0, SenderType DEF Offer
  <2>2. Offering(m, sender[p].targets \ {c}) \in SenderState
    BY <1>1, <2>1, OfferingType
  <2> QED
    BY <1>0, <1>1, <2>2 DEF RestTyped
<1>3. missed' \in [Devices -> SUBSET Ids]
  <2>1. S \in SUBSET Ids /\ {m} \in SUBSET Ids
    BY <1>1, HubAssumption DEF Ids
  <2> HIDE DEF S, m, d
  <2> QED
    BY <1>0, <1>1, <2>1, PassOverType
<1>4. RestTyped'
  <2> HIDE DEF S, m, d
  <2> QED
    BY <1>0, <1>1, <1>2, <1>3 DEF RestTyped, rowVars, clientVars, faultVars
<1>5. ConnsTyped'
  BY <1>0, <1>1, ConnsTypedSame DEF clientVars
<1> QED
  BY <1>0, <1>4, <1>5, TypeSplit

\* A page, read or not.
LEMMA PageSteps ==
    ASSUME HubInv, NEW c \in Conns, ReadPage(c) \/ ReadPageFails(c)
    PROVE  TypeOK' /\ Connected(c)
<1>0. TypeOK /\ ConnsTyped /\ RestTyped /\ Connected(c)
  BY TypeSplit DEF HubInv, ReadPage, ReadPageFails, Connected
<1>1. conn[c] \in OpenConn /\ last_id \in 0..MaxMessages /\ conn[c].last_sent \in 0..last_id
  BY <1>0, SentCommitted
<1>2. /\ \E k \in OpenConn : /\ conn' = [conn EXCEPT ![c] = k]
                             /\ k.device = conn[c].device /\ k.peer = conn[c].peer
      /\ \E S \in SUBSET Ids : missed' = [missed EXCEPT ![conn[c].device] = @ \cup S]
  <2>1. CASE ReadPage(c)
    <3>1. conn[c].last_sent <= last_id
      BY <1>1
    <3>2. PICK k \in OpenConn, end \in conn[c].last_sent..last_id :
             /\ conn' = [conn EXCEPT ![c] = k]
             /\ k.device = conn[c].device /\ k.peer = conn[c].peer
             /\ missed' = [missed EXCEPT ![conn[c].device] = @ \cup (end + 1)..last_id]
      BY <1>0, <2>1, <3>1, ReadPageEffect
    <3>3. (end + 1)..last_id \in SUBSET Ids
      BY <1>1, HubAssumption DEF Ids
    <3> QED
      BY <3>2, <3>3
  <2>2. CASE ReadPageFails(c)
    <3>1. (conn[c].last_sent + 1)..last_id \in SUBSET Ids
      BY <1>1, HubAssumption DEF Ids
    <3> QED
      BY <1>0, <2>2, <3>1, ReadPageFailsEffect
  <2> QED
    BY <2>1, <2>2
<1>3. /\ UNCHANGED <<rowVars, sender, users, wire, clientVars, breaks, crashes>>
      /\ errors' \in {errors, errors + 1}
  BY DEF ReadPage, ReadPageFails, faultVars
<1>4. missed' \in [Devices -> SUBSET Ids]
  BY <1>0, <1>1, <1>2, PassOverType DEF OpenConn
<1>5. RestTyped'
  BY <1>0, <1>3, <1>4 DEF RestTyped, rowVars, clientVars
<1>6. ConnsTyped'
  BY <1>0, <1>2, <1>3, ConnsTypedSame DEF clientVars
<1> QED
  BY <1>0, <1>5, <1>6, TypeSplit

\* The messages that are written or skipped.
LEMMA FrameSteps ==
    ASSUME HubInv, NEW c \in Conns, WriteReplay(c) \/ WriteLive(c) \/ SkipLive(c)
    PROVE  TypeOK' /\ Connected(c)
<1>0. TypeOK /\ ConnsTyped /\ RestTyped /\ Connected(c)
  BY TypeSplit DEF HubInv, WriteReplay, WriteLive, SkipLive, Live, Connected
<1>1. conn[c] \in OpenConn /\ last_id \in 0..MaxMessages
  BY <1>0, SentCommitted
<1>2. \E k \in OpenConn : /\ conn' = [conn EXCEPT ![c] = k]
                          /\ k.device = conn[c].device /\ k.peer = conn[c].peer
  BY <1>0, WriteReplayEffect, WriteLiveEffect, SkipLiveEffect
<1>3. CASE SkipLive(c)
  <2>1. UNCHANGED <<rowVars, sender, users, wire, clientVars, faultVars, missed>>
    BY <1>3 DEF SkipLive
  <2>2. RestTyped'
    BY <1>0, <2>1 DEF RestTyped, rowVars, clientVars, faultVars
  <2>3. ConnsTyped'
    BY <1>0, <1>2, <2>1, ConnsTypedSame DEF clientVars
  <2> QED
    BY <1>0, <2>2, <2>3, TypeSplit
<1>4. ASSUME NEW m \in Ids, Write(c, m), m <= last_id
      PROVE  TypeOK'
  <2>1. /\ wire' = [wire EXCEPT ![c] = wire'[c]] /\ wire'[c] \in Seq(Ids)
        /\ delivered' \subseteq delivered \cup {m} /\ errors' \in {errors, errors + 1}
        /\ UNCHANGED <<last_id, sender, redeliveries, users, clientVars, breaks,
                       crashes, missed>>
    BY <1>0, <1>4, WriteEffect
  <2>2. delivered' \subseteq 1..last_id
    BY <1>0, <1>1, <1>4, <2>1 DEF RestTyped, Ids
  <2>3. wire' \in [Conns -> Seq(Ids)]
    BY <1>0, <2>1 DEF RestTyped
  <2>4. RestTyped'
    BY <1>0, <2>1, <2>2, <2>3 DEF RestTyped, clientVars
  <2>5. ConnsTyped'
    BY <1>0, <1>2, <2>1, ConnsTypedSame DEF clientVars
  <2> QED
    BY <2>4, <2>5, TypeSplit
<1>5. CASE WriteReplay(c)
  <2> DEFINE m == Head(conn[c].rest)
  <2>1. m \in Ids /\ Write(c, m) /\ conn[c].rest # <<>> /\ conn[c].rest \in Seq(Ids)
    BY <1>0, <1>1, <1>5, WriteReplayEffect DEF OpenConn
  <2>2. m <= last_id
    BY <1>0, <2>1, SentCommitted, HeadTailProperties, EmptySeq
  <2> QED
    BY <1>0, <1>4, <2>1, <2>2
<1>6. CASE WriteLive(c)
  <2> DEFINE m == Head(conn[c].inbox)
  <2>1. m \in Ids /\ Write(c, m) /\ conn[c].inbox # <<>> /\ conn[c].inbox \in Seq(Ids)
    BY <1>0, <1>1, <1>6, WriteLiveEffect DEF OpenConn
  <2>2. m <= last_id
    BY <1>0, <2>1, SentCommitted, HeadTailProperties, EmptySeq
  <2> QED
    BY <1>0, <1>4, <2>1, <2>2
<1> QED
  BY <1>0, <1>3, <1>5, <1>6

\* A connection ends, on the server's side.
LEMMA LeaveStep ==
    ASSUME HubInv, NEW c \in Conns, Leave(c)
    PROVE  /\ TypeOK'
           /\ \A p \in Senders :
                 IF sender[p].step = "offer"
                 THEN sender'[p] = Offering(sender[p].msg, sender[p].targets \ {c})
                 ELSE sender'[p] = sender[p]
<1>0. TypeOK /\ ConnsTyped /\ RestTyped /\ Connected(c) /\ ~conn[c].peer
  BY TypeSplit DEF HubInv, Leave
<1>1. /\ conn' = [conn EXCEPT ![c] = NoConn] /\ users' = users \ {c}
      /\ UNCHANGED <<rowVars, wire, clientVars, faultVars, missed>>
      /\ sender' = [p \in Senders |-> IF sender[p].step = "offer"
                        THEN Offering(sender[p].msg, sender[p].targets \ {c})
                        ELSE sender[p]]
  BY DEF Leave
<1>2. sender' \in [Senders -> SenderState]
  <2> SUFFICES ASSUME NEW p \in Senders
               PROVE  (IF sender[p].step = "offer"
                       THEN Offering(sender[p].msg, sender[p].targets \ {c})
                       ELSE sender[p]) \in SenderState
    BY <1>1
  <2>1. CASE sender[p].step = "offer"
    <3>1. sender[p].targets \ {c} \in SUBSET Conns /\ sender[p].msg \in Ids
      BY <1>0, <2>1, SenderType
    <3> QED
      BY <2>1, <3>1, OfferingType
  <2> QED
    BY <1>0, <2>1 DEF RestTyped
<1>3. RestTyped'
  BY <1>0, <1>1, <1>2 DEF RestTyped, rowVars, clientVars, faultVars
<1>4. conn' \in [Conns -> ConnState] /\ ~Connected(c)'
      /\ \A x \in Conns \ {c} : conn'[x] = conn[x] /\ (Connected(x)' <=> Connected(x))
  BY <1>0, <1>1 DEF ConnsTyped, ConnState, Connected, NoConn
<1>5. LinkAgrees'
  BY <1>0, <1>1, <1>4 DEF ConnsTyped, LinkAgrees, clientVars
<1>6. ConnsTyped'
  BY <1>0, <1>1, <1>4, <1>5 DEF ConnsTyped, clientVars
<1> QED
  BY <1>1, <1>3, <1>6, TypeSplit

\* A client connects.
LEMMA ConnectStep ==
    ASSUME HubInv, NEW d \in Devices, NEW c \in Conns, Connect(d, c)
    PROVE  TypeOK'
<1>0. TypeOK /\ ConnsTyped /\ RestTyped /\ ~Connected(c) /\ link[d] = Disconnected
  BY TypeSplit DEF HubInv, Connect
<1>1. PICK k \in OpenConn : conn' = [conn EXCEPT ![c] = k] /\ k.device = d /\ k.peer
  BY <1>0, ConnectEffect
<1>2. /\ users' = users \cup {c} /\ link' = [link EXCEPT ![d] = OnConn(c)]
      /\ UNCHANGED <<rowVars, sender, wire, cursor, stored, received, faultVars, missed>>
  BY DEF Connect
<1>3. RestTyped'
  BY <1>0, <1>2 DEF RestTyped, rowVars, faultVars
<1>4. k \in ConnState /\ k.step # "none"
  BY DEF OpenConn, ConnState
<1>5. conn' \in [Conns -> ConnState] /\ Connected(c)' /\ conn'[c] = k
      /\ \A x \in Conns \ {c} : conn'[x] = conn[x] /\ (Connected(x)' <=> Connected(x))
  BY <1>0, <1>1, <1>4 DEF ConnsTyped, Connected
<1>6. link' \in [Devices -> {Disconnected} \cup {OnConn(x) : x \in Conns}]
      /\ link'[d] = OnConn(c) /\ \A e \in Devices \ {d} : link'[e] = link[e]
  BY <1>0, <1>2 DEF ConnsTyped
<1>7. LinkAgrees'
  <2> SUFFICES ASSUME NEW e \in Devices, NEW x \in Conns
               PROVE  (link[e] = OnConn(x) <=> Connected(x) /\ conn[x].device = e
                                               /\ conn[x].peer)'
    BY DEF LinkAgrees
  <2>1. Disconnected # OnConn(x) /\ (OnConn(c) = OnConn(x) => c = x)
    BY DEF Disconnected, OnConn
  <2>2. link[e] = OnConn(x) <=> Connected(x) /\ conn[x].device = e /\ conn[x].peer
    BY <1>0 DEF ConnsTyped, LinkAgrees
  <2>3. CASE x = c
    <3>1. link[e] # OnConn(c)
      BY <1>0, <2>2, <2>3
    <3> QED
      BY <1>1, <1>5, <1>6, <2>3, <3>1
  <2>4. CASE x # c
    BY <1>0, <1>5, <1>6, <2>1, <2>2, <2>4
  <2> QED
    BY <2>3, <2>4
<1>8. ConnsTyped'
  BY <1>0, <1>2, <1>5, <1>6, <1>7 DEF ConnsTyped
<1> QED
  BY <1>3, <1>8, TypeSplit

\* What a client receives: the first frame on the wire of its connection, a
\* message above its cursor.
LEMMA ReceiveEffect ==
    ASSUME HubInv, NEW d \in Devices, Receive(d)
    PROVE  \E c \in Conns, m \in Ids :
             /\ link[d] = OnConn(c) /\ Connected(c) /\ conn[c].device = d /\ conn[c].peer
             /\ wire[c] # <<>> /\ m = Head(wire[c]) /\ m > cursor[d]
             /\ received' = [received EXCEPT ![d][m] = @ + 1]
             /\ cursor' = [cursor EXCEPT ![d] = m]
             /\ \/ stored' = [stored EXCEPT ![d] = m] /\ errors' = errors
                \/ stored' = stored /\ errors' = errors + 1
             /\ wire' = [wire EXCEPT ![c] = Tail(wire[c])]
             /\ UNCHANGED <<rowVars, sender, users, conn, link, breaks, crashes, missed>>
<1>0. TypeOK
  BY DEF HubInv
<1>1. PICK c \in Conns : link[d] = OnConn(c) /\ link[d].conn = c
  BY <1>0, UpHasConn DEF Receive
<1>2. Connected(c) /\ conn[c].device = d /\ conn[c].peer
  BY <1>0, <1>1 DEF TypeOK
<1>3. wire[c] # <<>> /\ wire[c] \in Seq(Ids)
  BY <1>0, <1>1 DEF TypeOK, Receive
<1> DEFINE m == Head(wire[c])
<1>4. m \in Ids /\ Len(wire[c]) \in Nat \ {0} /\ m = wire[c][1]
  BY <1>3, HeadTailProperties, EmptySeq, LenProperties
<1>5. m > cursor[d]
  <2>1. \A i \in 1..Len(wire[c]) : cursor[d] < wire[c][i]
    BY <1>2 DEF HubInv, FollowInv
  <2>2. 1 \in 1..Len(wire[c])
    BY <1>4
  <2> QED
    BY <1>4, <2>1, <2>2
<1>6. /\ received' = [received EXCEPT ![d][m] = @ + 1]
      /\ IF m > cursor[d]
         THEN /\ cursor' = [cursor EXCEPT ![d] = m]
              /\ \/ stored' = [stored EXCEPT ![d] = m] /\ UNCHANGED errors
                 \/ /\ MayFail /\ errors' = errors + 1
                    /\ UNCHANGED stored
         ELSE UNCHANGED <<cursor, stored, errors>>
      /\ wire' = [wire EXCEPT ![c] = Tail(@)]
      /\ UNCHANGED <<rowVars, sender, users, conn, link, breaks, crashes, missed>>
  BY <1>1 DEF Receive
<1> HIDE DEF m
<1>7. wire' = [wire EXCEPT ![c] = Tail(wire[c])]
  BY <1>6
<1>8. /\ cursor' = [cursor EXCEPT ![d] = m]
      /\ \/ stored' = [stored EXCEPT ![d] = m] /\ errors' = errors
         \/ stored' = stored /\ errors' = errors + 1
  BY <1>5, <1>6
<1>9. m = Head(wire[c])
  BY DEF m
<1> QED
  BY <1>1, <1>2, <1>3, <1>4, <1>5, <1>6, <1>7, <1>8, <1>9

\* A client receives.
LEMMA ReceiveStep ==
    ASSUME HubInv, NEW d \in Devices, Receive(d)
    PROVE  TypeOK'
<1>0. TypeOK /\ ConnsTyped /\ RestTyped
  BY TypeSplit DEF HubInv
<1>1. PICK c \in Conns, m \in Ids :
             /\ Connected(c) /\ wire[c] # <<>> /\ m = Head(wire[c])
             /\ received' = [received EXCEPT ![d][m] = @ + 1]
             /\ cursor' = [cursor EXCEPT ![d] = m]
             /\ \/ stored' = [stored EXCEPT ![d] = m] /\ errors' = errors
                \/ stored' = stored /\ errors' = errors + 1
             /\ wire' = [wire EXCEPT ![c] = Tail(wire[c])]
             /\ UNCHANGED <<rowVars, sender, users, conn, link, breaks, crashes, missed>>
  BY ReceiveEffect
<1>2. wire[c] \in Seq(Ids) /\ Tail(wire[c]) \in Seq(Ids) /\ m \in 0..last_id
  <2>1. wire[c] \in Seq(Ids) /\ Len(wire[c]) \in Nat \ {0}
    BY <1>0, <1>1, LenProperties, EmptySeq DEF RestTyped
  <2>2. Tail(wire[c]) \in Seq(Ids) /\ m = wire[c][1]
    BY <1>1, <2>1, HeadTailProperties
  <2>3. wire[c][1] <= last_id
    BY <1>1, <2>1, SentCommitted
  <2> QED
    BY <1>0, <2>1, <2>2, <2>3, HubAssumption DEF RestTyped, Ids
<1>3. /\ cursor' \in [Devices -> 0..last_id] /\ stored' \in [Devices -> 0..last_id]
      /\ wire' \in [Conns -> Seq(Ids)] /\ errors' \in Nat
  <2>1. cursor' \in [Devices -> 0..last_id] /\ wire' \in [Conns -> Seq(Ids)]
    BY <1>0, <1>1, <1>2, Zenon DEF RestTyped
  <2>2. stored' \in [Devices -> 0..last_id] /\ errors' \in Nat
    <3>1. CASE stored' = [stored EXCEPT ![d] = m] /\ errors' = errors
      BY <1>0, <1>2, <3>1 DEF RestTyped
    <3>2. CASE stored' = stored /\ errors' = errors + 1
      BY <1>0, <3>2 DEF RestTyped
    <3> QED
      BY <1>1, <3>1, <3>2
  <2> QED
    BY <2>1, <2>2
<1>4. received' \in [Devices -> [Ids -> Nat]]
  BY <1>0, <1>1 DEF RestTyped
<1>5. RestTyped'
  BY <1>0, <1>1, <1>3, <1>4 DEF RestTyped, rowVars
<1>6. ConnsTyped'
  BY <1>0, <1>1 DEF ConnsTyped, LinkAgrees, Connected
<1> QED
  BY <1>5, <1>6, TypeSplit

\* A client goes.
LEMMA LoseStep ==
    ASSUME HubInv, NEW d \in Devices, Break(d) \/ RestartClient(d)
    PROVE  TypeOK'
<1>0. TypeOK /\ ConnsTyped /\ RestTyped /\ Lose(d)
  BY TypeSplit DEF HubInv, Break, RestartClient
<1>1. PICK c \in Conns, k \in OpenConn :
             /\ link[d] = OnConn(c)
             /\ Connected(c) /\ conn[c].device = d /\ conn[c].peer
             /\ conn' = [conn EXCEPT ![c] = k]
             /\ k.step = conn[c].step /\ k.device = d
             /\ k.peer = FALSE /\ k.last_sent = conn[c].last_sent
             /\ k.rest = conn[c].rest /\ k.inbox = conn[c].inbox
             /\ wire' = [wire EXCEPT ![c] = <<>>]
  BY <1>0, LoseEffect
<1>2. /\ link' = [link EXCEPT ![d] = Disconnected] /\ breaks' = breaks + 1
      /\ UNCHANGED <<rowVars, sender, users, stored, received, errors, crashes, missed>>
      /\ cursor' = cursor \/ cursor' = [cursor EXCEPT ![d] = stored[d]]
  BY Zenon DEF Break, RestartClient, Lose
<1>3. wire' \in [Conns -> Seq(Ids)] /\ cursor' \in [Devices -> 0..last_id]
  <2>1. wire' \in [Conns -> Seq(Ids)]
    BY <1>0, <1>1 DEF RestTyped
  <2>2. cursor' \in [Devices -> 0..last_id]
    BY <1>0, <1>2, Zenon DEF RestTyped
  <2> QED
    BY <2>1, <2>2
<1>4. RestTyped'
  BY <1>0, <1>2, <1>3 DEF RestTyped, rowVars
<1>5. k \in ConnState /\ k.step # "none"
  BY DEF OpenConn, ConnState
<1>6. conn' \in [Conns -> ConnState] /\ Connected(c)' /\ conn'[c] = k
      /\ \A x \in Conns \ {c} : conn'[x] = conn[x] /\ (Connected(x)' <=> Connected(x))
  BY <1>0, <1>1, <1>5 DEF ConnsTyped, Connected
<1>7. link' \in [Devices -> {Disconnected} \cup {OnConn(x) : x \in Conns}]
      /\ link'[d] = Disconnected /\ \A e \in Devices \ {d} : link'[e] = link[e]
  BY <1>0, <1>2 DEF ConnsTyped
<1>8. LinkAgrees'
  <2> SUFFICES ASSUME NEW e \in Devices, NEW x \in Conns
               PROVE  (link[e] = OnConn(x) <=> Connected(x) /\ conn[x].device = e
                                               /\ conn[x].peer)'
    BY DEF LinkAgrees
  <2>1. Disconnected # OnConn(x) /\ (OnConn(c) = OnConn(x) => c = x)
    BY DEF Disconnected, OnConn
  <2>2. link[e] = OnConn(x) <=> Connected(x) /\ conn[x].device = e /\ conn[x].peer
    BY <1>0 DEF ConnsTyped, LinkAgrees
  <2>3. CASE x = c
    BY <1>1, <1>6, <1>7, <2>1, <2>2, <2>3
  <2>4. CASE x # c
    BY <1>1, <1>6, <1>7, <2>1, <2>2, <2>4
  <2> QED
    BY <2>3, <2>4
<1>9. ConnsTyped'
  BY <1>0, <1>2, <1>6, <1>7, <1>8 DEF ConnsTyped
<1> QED
  BY <1>4, <1>9, TypeSplit

\* The server dies.
LEMMA CrashStep ==
    ASSUME HubInv, Crash
    PROVE  TypeOK'
<1>0. TypeOK /\ ConnsTyped /\ RestTyped
  BY TypeSplit DEF HubInv
<1>1. sender' \in [Senders -> SenderState] /\ conn' \in [Conns -> ConnState]
  BY DEF Crash, SenderState, ConnState
<1>2. wire' \in [Conns -> Seq(Ids)] /\ crashes' \in Nat
  BY <1>0 DEF Crash, RestTyped
<1>3. RestTyped'
  BY <1>0, <1>1, <1>2 DEF Crash, RestTyped, rowVars
<1>4. \A c \in Conns : ~Connected(c)'
  BY DEF Crash, Connected, NoConn
<1>5. \A c \in Conns : Disconnected # OnConn(c)
  BY DEF Disconnected, OnConn
<1>6. ConnsTyped'
  BY <1>1, <1>4, <1>5 DEF Crash, ConnsTyped, LinkAgrees
<1> QED
  BY <1>3, <1>6, TypeSplit

\* Every step keeps the types.
LEMMA NextType ==
    ASSUME HubInv, Next
    PROVE  TypeOK'
<1>1. ASSUME NEW p \in Senders, Ingest(p) \/ Publishing(p) \/ \E m \in Ids : Redeliver(p, m)
      PROVE  TypeOK'
  BY <1>1, SenderSteps, OfferStep DEF Publishing
<1>2. ASSUME NEW c \in Conns, Serving(c) \/ ReadPageFails(c)
      PROVE  TypeOK'
  BY <1>2, PageSteps, FrameSteps, LeaveStep DEF Serving
<1>3. ASSUME NEW d \in Devices, Following(d) \/ Break(d) \/ RestartClient(d)
      PROVE  TypeOK'
  BY <1>3, ReceiveStep, ConnectStep, LoseStep DEF Following
<1> QED
  BY <1>1, <1>2, <1>3, CrashStep DEF Next

-----------------------------------------------------------------------------
(* What a step leaves alone keeps its part of the invariant.               *)

\* A connection goes on as it was, apart perhaps from its peer.
SameConn(c) ==
    /\ conn'[c].step = conn[c].step
    /\ Connected(c) => /\ conn'[c].device = conn[c].device
                       /\ conn'[c].last_sent = conn[c].last_sent
                       /\ conn'[c].rest = conn[c].rest
                       /\ conn'[c].inbox = conn[c].inbox

MissedGrows == \A d \in Devices : missed[d] \subseteq missed'[d]

\* What is underway to a connection, or was committed by this step, is underway
\* afterwards.
UnderwayKept(c) ==
    \A l \in Ids : (l \in Underway(c) \/ l > last_id) /\ l <= last_id' =>
        l \in Underway(c)' \/ c \notin users'

\* A connection whose messages stay underway keeps its invariant.
LEMMA ConnKept ==
    ASSUME HubInv, TypeOK', NEW c \in Conns, SameConn(c), UnderwayKept(c),
           MissedGrows, last_id' >= last_id, c \in users' => c \in users
    PROVE  ConnInv(c)'
<1> SUFFICES ASSUME Connected(c)'
             PROVE  PageFollows(c)' /\ Promised(c)' /\ InboxOrdered(c)'
  BY DEF ConnInv
<1>1. /\ Connected(c) /\ PageFollows(c) /\ Promised(c) /\ InboxOrdered(c)
      /\ conn'[c].step = conn[c].step /\ conn'[c].device = conn[c].device
      /\ conn'[c].last_sent = conn[c].last_sent
      /\ conn'[c].rest = conn[c].rest /\ conn'[c].inbox = conn[c].inbox
      /\ conn[c].device \in Devices
  BY ConnType DEF SameConn, Connected, HubInv, ConnInv, OpenConn
<1>2. /\ conn[c] \in OpenConn /\ last_id \in Nat /\ last_id' \in Nat
      /\ PageEnd(c) \in Nat /\ PageEnd(c)' = PageEnd(c)
      /\ conn[c].inbox \in Seq(Ids) /\ Len(conn[c].inbox) \in Nat
  <2>1. conn[c] \in OpenConn /\ last_id \in Nat /\ last_id' \in Nat
    BY SMTT(30), <1>1, ConnType DEF HubInv, TypeOK
  <2>2. conn[c].last_sent \in Nat /\ Len(conn[c].rest) \in Nat
        /\ conn[c].inbox \in Seq(Ids) /\ Len(conn[c].inbox) \in Nat
    BY <2>1, LenProperties DEF OpenConn
  <2> QED
    BY <1>1, <2>1, <2>2 DEF PageEnd
<1>3. PageFollows(c)'
  <2>1. \A i \in 1..Len(conn[c].inbox) : conn[c].inbox[i] <= last_id'
    <3> TAKE i \in 1..Len(conn[c].inbox)
    <3>1. conn[c].inbox[i] \in Nat /\ conn[c].inbox[i] <= last_id
      BY SMTT(30), <1>1, <1>2, HubAssumption DEF PageFollows, Ids
    <3> QED
      BY <1>2, <3>1
  <2>2. PageEnd(c) <= last_id'
    BY <1>1, <1>2 DEF PageFollows
  <2> QED
    BY <1>1, <1>2, <2>1, <2>2 DEF PageFollows
<1>4. Promised(c)'
  <2> SUFFICES ASSUME conn[c].step = "live", NEW l \in Ids, l > PageEnd(c), l <= last_id'
               PROVE  \/ InInbox(c, l)' \/ l \in missed'[conn[c].device]
                      \/ l \in Underway(c)' \/ c \notin users'
    BY <1>1, <1>2 DEF Promised
  <2>1. CASE l > last_id
    BY <2>1 DEF UnderwayKept
  <2>2. CASE l <= last_id
    <3>1. \/ InInbox(c, l) \/ l \in missed[conn[c].device]
          \/ l \in Underway(c) \/ c \notin users
      BY <1>1, <2>2 DEF Promised
    <3>2. InInbox(c, l) => InInbox(c, l)'
      BY <1>1 DEF InInbox
    <3> QED
      BY <1>1, <3>1, <3>2 DEF MissedGrows, UnderwayKept
  <2>3. l \in Nat
    BY HubAssumption DEF Ids
  <2> QED
    BY <1>2, <2>1, <2>2, <2>3
<1>5. InboxOrdered(c)'
  <2>1. missed[conn[c].device] \subseteq missed'[conn[c].device]
    BY <1>1 DEF MissedGrows
  <2> QED
    BY <1>1, <1>2, <2>1, Zenon DEF InboxOrdered
<1> QED
  BY <1>3, <1>4, <1>5

\* Publishers that do nothing keep what they hold ...
LEMMA SendersIdle ==
    ASSUME HubInv, sender' = sender, last_id' = last_id,
           \A c \in Conns : Connected(c) => Connected(c)'
    PROVE  \A p \in Senders : SenderInv(p)'
<1> SUFFICES ASSUME NEW p \in Senders PROVE SenderInv(p)'
  OBVIOUS
<1>1. SenderInv(p) /\ (sender[p].step = "offer" => sender[p].targets \subseteq Conns)
  BY SenderType DEF HubInv
<1> QED
  BY <1>1, Zenon DEF SenderInv

\* ... and so what is underway.
LEMMA UnderwaySame ==
    ASSUME HubInv, NEW c \in Conns, sender' = sender, last_id' = last_id
    PROVE  UnderwayKept(c)
<1>1. Underway(c)' = Underway(c)
  BY DEF Underway
<1>2. \A l \in Ids : ~(l > last_id /\ l <= last_id)
  BY HubAssumption DEF Ids, HubInv, TypeOK
<1> QED
  BY <1>1, <1>2 DEF UnderwayKept

\* A connection and its wire go on as they were.
LEMMA WireKept ==
    ASSUME HubInv, TypeOK', NEW c \in Conns, SameConn(c), wire'[c] = wire[c],
           Connected(c) => conn'[c].peer = conn[c].peer
    PROVE  WireInv(c)'
<1>1. WireInv(c) /\ (Connected(c) => Connected(c)')
  BY DEF HubInv, SameConn, Connected
<1>2. CASE Connected(c)
  BY <1>1, <1>2 DEF SameConn, WireInv
<1>3. CASE ~Connected(c)
  <2>1. wire[c] = <<>>
    BY <1>1, <1>3 DEF WireInv
  <2> QED
    BY <2>1 DEF WireInv
<1> QED
  BY <1>2, <1>3

\* ... and so does its client.
LEMMA FollowKept ==
    ASSUME HubInv, NEW c \in Conns, SameConn(c), wire'[c] = wire[c],
           Connected(c)' /\ conn'[c].peer => conn[c].peer /\ cursor'[conn[c].device] = cursor[conn[c].device],
           \A d \in Devices : d = conn[c].device => received'[d] = received[d],
           MissedGrows
    PROVE  FollowInv(c)'
<1> SUFFICES ASSUME Connected(c)', conn'[c].peer PROVE FollowInv(c)'
  BY DEF FollowInv
<1>1. /\ Connected(c) /\ FollowInv(c) /\ conn[c].peer
      /\ conn'[c].device = conn[c].device /\ conn'[c].last_sent = conn[c].last_sent
      /\ conn[c].device \in Devices
  BY ConnType DEF SameConn, Connected, HubInv, OpenConn
<1> DEFINE d == conn[c].device
<1>2. missed[d] \subseteq missed'[d] /\ received'[d] = received[d] /\ cursor'[d] = cursor[d]
  BY <1>1 DEF MissedGrows
<1>3. \A l \in Ids : OnWire(c, l)' <=> OnWire(c, l)
  BY DEF OnWire
<1>4. /\ cursor[d] <= conn[c].last_sent
      /\ \A i \in 1..Len(wire[c]) : cursor[d] < wire[c][i]
      /\ \A l \in Ids : l <= conn[c].last_sent =>
            received[d][l] > 0 \/ l \in missed[d] \/ OnWire(c, l)
  BY <1>1 DEF FollowInv
<1> QED
  BY <1>1, <1>2, <1>3, <1>4 DEF FollowInv

\* The clients go on as they were.
LEMMA DevicesKept ==
    ASSUME HubInv, TypeOK', MissedGrows,
           UNCHANGED <<cursor, stored, received>>,
           errors' >= errors, breaks' >= breaks
    PROVE  ReceivedOnce' /\ GapsAreExplained' /\ \A d \in Devices : CursorInv(d)'
<1>1. errors \in Nat /\ errors' \in Nat /\ breaks \in Nat /\ breaks' \in Nat
  BY DEF HubInv, TypeOK
<1>2. (errors > 0 => errors' > 0) /\ (breaks > 0 => breaks' > 0)
  BY <1>1
<1>3. ReceivedOnce'
  BY <1>2, Zenon DEF HubInv, ReceivedOnce
<1>4. GapsAreExplained'
  <2> SUFFICES ASSUME NEW d \in Devices, NEW m \in 1..cursor[d], received[d][m] = 0
               PROVE  m \in missed'[d]
    BY DEF GapsAreExplained
  <2> QED
    BY DEF HubInv, GapsAreExplained, MissedGrows
<1>5. ASSUME NEW d \in Devices PROVE CursorInv(d)'
  <2>1. CursorInv(d)
    BY DEF HubInv
  <2> QED
    BY <1>2, <2>1, Zenon DEF CursorInv
<1> QED
  BY <1>3, <1>4, <1>5

-----------------------------------------------------------------------------
(* Every step keeps the invariant.                                         *)

\* The message a publisher holds for a connection.
Holds(p, c) == \/ sender[p].step = "publish"
               \/ sender[p].step = "offer" /\ c \in sender[p].targets

\* Underway is what some publisher holds.
LEMMA UnderwayHeld ==
    ASSUME NEW c \in Conns
    PROVE  /\ \A l : l \in Underway(c) <=> \E q \in Senders : Holds(q, c) /\ sender[q].msg = l
           /\ \A l : l \in Underway(c)' <=>
                        \E q \in Senders : Holds(q, c)' /\ sender'[q].msg = l
BY DEF Underway, Holds

\* A publisher that holds the same afterwards keeps its invariant.
LEMMA SenderKept ==
    ASSUME HubInv, NEW p \in Senders, sender'[p] = sender[p], last_id' \in Nat,
           last_id' >= last_id, \A c \in Conns : Connected(c) => Connected(c)'
    PROVE  SenderInv(p)'
<1>1. /\ SenderInv(p) /\ last_id \in Nat
      /\ sender[p].step # "idle" => sender[p].msg \in Nat
      /\ sender[p].step = "offer" => sender[p].targets \subseteq Conns
  BY SMTT(30), SenderType, HubAssumption DEF HubInv, TypeOK, Ids
<1>2. sender[p].step # "idle" => sender[p].msg <= last_id'
  BY <1>1 DEF SenderInv
<1>3. sender[p].step = "offer" =>
         sender[p].targets # {} /\ \A c \in sender[p].targets : Connected(c)'
  BY <1>1 DEF SenderInv
<1> QED
  BY <1>2, <1>3 DEF SenderInv

\* A publisher begins, or takes its copy of the registered connections.
LEMMA PublishInv ==
    ASSUME HubInv, TypeOK', NEW p \in Senders,
           Ingest(p) \/ Snapshot(p) \/ \E m \in Ids : Redeliver(p, m)
    PROVE  HubInv'
<1>0. TypeOK /\ sender \in [Senders -> SenderState] /\ last_id \in Nat /\ last_id' \in Nat
  BY DEF HubInv, TypeOK
<1>1. UNCHANGED <<delivered, users, conn, wire, clientVars, faultVars, missed>>
  BY DEF Ingest, Snapshot, Redeliver, rowVars
<1>2. /\ last_id' >= last_id /\ \A q \in Senders \ {p} : sender'[q] = sender[q]
      /\ \/ /\ sender[p] = Idle /\ sender'[p].step = "publish"
            /\ sender'[p].msg <= last_id'
            /\ last_id' = last_id + 1 => sender'[p].msg = last_id'
            /\ last_id' \in {last_id, last_id + 1}
         \/ /\ sender[p].step = "publish" /\ last_id' = last_id
            /\ sender'[p] = Offering(sender[p].msg, users)
  <2>1. CASE Ingest(p)
    <3>1. sender'[p] = [step |-> "publish", msg |-> last_id + 1]
          /\ \A q \in Senders \ {p} : sender'[q] = sender[q]
      BY <1>0, <2>1 DEF Ingest
    <3>2. last_id' = last_id + 1 /\ sender[p] = Idle
      BY <2>1 DEF Ingest
    <3> QED
      BY <1>0, <3>1, <3>2
  <2>2. CASE Snapshot(p)
    <3>1. sender'[p] = Offering(sender[p].msg, users)
          /\ \A q \in Senders \ {p} : sender'[q] = sender[q]
      BY <1>0, <2>2 DEF Snapshot
    <3>2. last_id' = last_id /\ sender[p].step = "publish"
      BY <2>2 DEF Snapshot, rowVars
    <3> QED
      BY <1>0, <3>1, <3>2
  <2>3. CASE \E m \in Ids : Redeliver(p, m)
    <3>1. PICK m \in Ids : Redeliver(p, m)
      BY <2>3
    <3>2. sender'[p] = [step |-> "publish", msg |-> m]
          /\ \A q \in Senders \ {p} : sender'[q] = sender[q]
      BY <1>0, <3>1 DEF Redeliver
    <3>3. last_id' = last_id /\ sender[p] = Idle /\ m <= last_id
      BY <3>1 DEF Redeliver
    <3> QED
      BY <1>0, <3>2, <3>3
  <2> QED
    BY <2>1, <2>2, <2>3
<1>3. /\ \A c \in Conns : SameConn(c) /\ Connected(c)' = Connected(c)
      /\ MissedGrows
  BY <1>1 DEF SameConn, MissedGrows, Connected
<1>4. \A c \in users : c \in Conns /\ Connected(c)
  BY <1>0 DEF TypeOK
<1>5. ASSUME NEW q \in Senders PROVE SenderInv(q)'
  <2>1. CASE q # p
    BY <1>0, <1>2, <1>3, <2>1, SenderKept
  <2>2. CASE q = p /\ sender'[p].step = "publish" /\ sender'[p].msg <= last_id'
    BY <2>2 DEF SenderInv
  <2>3. CASE /\ q = p /\ sender[p].step = "publish" /\ last_id' = last_id
             /\ sender'[p] = Offering(sender[p].msg, users)
    <3>1. sender[p].msg \in Ids /\ sender[p].msg <= last_id /\ users \in SUBSET Conns
      BY <1>0, <1>4, <2>3, SenderType DEF HubInv, SenderInv
    <3>2. CASE users = {}
      <4>1. sender'[p] = Idle
        BY <2>3, <3>2 DEF Offering
      <4> QED
        BY <2>3, <4>1 DEF SenderInv, Idle
    <3>3. CASE users # {}
      <4>1. sender'[p] = [step |-> "offer", msg |-> sender[p].msg, targets |-> users]
        BY <2>3, <3>3 DEF Offering
      <4>2. \A c \in users : Connected(c)'
        BY <1>3, <1>4
      <4> QED
        BY <2>3, <3>1, <3>3, <4>1, <4>2 DEF SenderInv
    <3> QED
      BY <3>2, <3>3
  <2> QED
    BY <1>2, <2>1, <2>2, <2>3
<1>6. ASSUME NEW c \in Conns PROVE UnderwayKept(c)
  <2> SUFFICES ASSUME NEW l \in Ids, l \in Underway(c) \/ l > last_id, l <= last_id',
                      c \in users'
               PROVE  l \in Underway(c)'
    BY DEF UnderwayKept
  <2>1. CASE l \in Underway(c)
    <3>1. PICK q \in Senders : Holds(q, c) /\ sender[q].msg = l
      BY <2>1, UnderwayHeld
    <3>2. CASE q # p
      <4>1. Holds(q, c)' /\ sender'[q].msg = l
        BY <1>2, <3>1, <3>2 DEF Holds
      <4> QED
        BY <4>1, UnderwayHeld
    <3>3. CASE q = p
      <4>1. sender[p] # Idle
        BY <3>1, <3>3 DEF Holds, Idle
      <4>2. sender'[p] = Offering(l, users) /\ c \in users
        BY <1>1, <1>2, <3>1, <3>3, <4>1
      <4>3. sender'[p] = [step |-> "offer", msg |-> l, targets |-> users]
        BY <4>2 DEF Offering
      <4>4. Holds(p, c)' /\ sender'[p].msg = l
        BY <4>2, <4>3 DEF Holds
      <4> QED
        BY <4>4, UnderwayHeld
    <3> QED
      BY <3>2, <3>3
  <2>2. CASE l > last_id
    <3>1. l \in Nat
      BY HubAssumption DEF Ids
    <3>2. last_id' # last_id
      BY <1>0, <2>2, <3>1
    <3>3. sender'[p].step = "publish" /\ last_id' = last_id + 1 /\ sender'[p].msg = last_id'
      BY <1>0, <1>2, <3>2
    <3>4. l = last_id'
      BY <1>0, <2>2, <3>1, <3>3
    <3>5. Holds(p, c)' /\ sender'[p].msg = l
      BY <3>3, <3>4 DEF Holds
    <3> QED
      BY <3>5, UnderwayHeld
  <2> QED
    BY <2>1, <2>2
<1>7. \A c \in Conns : ConnInv(c)'
  BY <1>1, <1>2, <1>3, <1>6, ConnKept
<1>8. \A c \in Conns : WireInv(c)' /\ FollowInv(c)'
  BY <1>1, <1>3, WireKept, FollowKept DEF clientVars
<1>9. ReceivedOnce' /\ GapsAreExplained' /\ \A d \in Devices : CursorInv(d)'
  <2>1. errors' >= errors /\ breaks' >= breaks
    BY <1>0, <1>1 DEF faultVars, TypeOK
  <2> QED
    BY <1>1, <1>3, <2>1, DevicesKept DEF clientVars
<1> QED
  BY <1>5, <1>7, <1>8, <1>9 DEF HubInv

\* An inbox takes a message: what it now skips is passed over.
LEMMA InboxFilled ==
    ASSUME HubInv, TypeOK', NEW c \in Conns, NEW p \in Senders, NEW k \in OpenConn,
           Connected(c), Holds(p, c), conn' = [conn EXCEPT ![c] = k],
           k.step = conn[c].step, k.device = conn[c].device,
           k.last_sent = conn[c].last_sent, k.rest = conn[c].rest,
           k.inbox = Append(conn[c].inbox, sender[p].msg),
           users' = users, last_id' = last_id, MissedGrows,
           {l \in 1..(sender[p].msg - 1) : l \in Underway(c) \/ c \notin users}
               \subseteq missed'[conn[c].device],
           \A q \in Senders \ {p} : sender'[q] = sender[q]
    PROVE  ConnInv(c)'
<1> DEFINE m == sender[p].msg
           d == conn[c].device
           inbox == conn[c].inbox
<1>1. /\ PageFollows(c) /\ Promised(c) /\ InboxOrdered(c) /\ TypeOK
      /\ conn[c] \in OpenConn /\ last_id \in Nat /\ conn'[c] = k
  <2>1. TypeOK /\ conn \in [Conns -> ConnState] /\ last_id \in Nat
    BY SMTT(30) DEF HubInv, TypeOK
  <2>2. PageFollows(c) /\ Promised(c) /\ InboxOrdered(c)
    BY DEF HubInv, ConnInv
  <2> QED
    BY <2>1, <2>2, ConnType
<1>2. /\ inbox \in Seq(Ids) /\ Len(inbox) \in Nat /\ d \in Devices /\ PageEnd(c) \in Nat
      /\ PageEnd(c)' = PageEnd(c)
  <2>1. conn[c].last_sent \in Nat /\ Len(conn[c].rest) \in Nat /\ inbox \in Seq(Ids)
        /\ Len(inbox) \in Nat /\ d \in Devices
    BY <1>1, LenProperties DEF OpenConn
  <2> QED
    BY <1>1, <2>1 DEF PageEnd
<1>3. m \in Ids /\ m \in Nat /\ m <= last_id
  BY <1>1, SenderType, HubAssumption DEF Holds, HubInv, SenderInv, Ids
<1>4. /\ k.inbox = Append(inbox, m) /\ Len(k.inbox) = Len(inbox) + 1
      /\ k.inbox[Len(inbox) + 1] = m /\ \A i \in 1..Len(inbox) : k.inbox[i] = inbox[i]
  BY <1>2, <1>3, AppendProperties
<1>5. /\ missed[d] \subseteq missed'[d]
      /\ \A l \in Nat : l > 0 /\ l < m /\ (l \in Underway(c) \/ c \notin users)
             => l \in missed'[d]
  BY <1>2, <1>3 DEF MissedGrows
<1> HIDE DEF m, d, inbox
<1>6. PageFollows(c)'
  <2>1. \A i \in 1..Len(k.inbox) : k.inbox[i] <= last_id
    <3> TAKE i \in 1..Len(k.inbox)
    <3>1. i \in 1..Len(inbox) \/ i = Len(inbox) + 1
      BY <1>2, <1>4
    <3>2. i \in 1..Len(inbox) => inbox[i] <= last_id
      BY <1>1 DEF PageFollows, inbox
    <3> QED
      BY <1>3, <1>4, <3>1, <3>2
  <2> QED
    BY <1>1, <1>2, <2>1 DEF PageFollows
<1>7. ASSUME NEW l \in Ids, l > PageEnd(c), l <= last_id, k.step = "live"
      PROVE  \/ \E i \in 1..Len(inbox) : inbox[i] = l
             \/ l \in missed[d] \/ l \in Underway(c) \/ c \notin users
  BY <1>1, <1>7 DEF Promised, InInbox, d, inbox
<1>8. Promised(c)'
  <2> SUFFICES ASSUME k.step = "live", NEW l \in Ids, l > PageEnd(c), l <= last_id
               PROVE  \/ InInbox(c, l)' \/ l \in missed'[d]
                      \/ l \in Underway(c)' \/ c \notin users'
    BY <1>1, <1>2, Zenon DEF Promised, d
  <2>1. CASE \E i \in 1..Len(inbox) : inbox[i] = l
    <3>1. PICK i \in 1..Len(inbox) : inbox[i] = l
      BY <2>1
    <3>2. i \in 1..Len(k.inbox) /\ k.inbox[i] = l
      BY <1>2, <1>4, <3>1
    <3> QED
      BY <1>1, <3>2 DEF InInbox
  <2>2. CASE l \in Underway(c)
    <3>1. PICK q \in Senders : Holds(q, c) /\ sender[q].msg = l
      BY <2>2, UnderwayHeld
    <3>2. CASE q = p
      <4>1. Len(inbox) + 1 \in 1..Len(k.inbox) /\ k.inbox[Len(inbox) + 1] = l
        BY <1>2, <1>4, <3>1, <3>2 DEF m
      <4> QED
        BY <1>1, <4>1 DEF InInbox
    <3>3. CASE q # p
      <4>1. Holds(q, c)' /\ sender'[q].msg = l
        BY <3>1, <3>3 DEF Holds
      <4> QED
        BY <4>1, UnderwayHeld
    <3> QED
      BY <3>2, <3>3
  <2> QED
    BY <1>5, <1>7, <2>1, <2>2
<1>9. InboxOrdered(c)'
  <2> SUFFICES ASSUME conn'[c].step = "live", NEW i \in 1..Len(conn'[c].inbox),
                      NEW l \in Ids, l > PageEnd(c)', l < conn'[c].inbox[i]
               PROVE  \/ \E j \in 1..(i - 1) : conn'[c].inbox[j] = l
                      \/ l \in missed'[conn'[c].device]
    BY DEF InboxOrdered
  <2>0. /\ k.step = "live" /\ i \in 1..Len(k.inbox) /\ l > PageEnd(c) /\ l < k.inbox[i]
        /\ conn'[c].inbox = k.inbox /\ conn'[c].device = d
    BY <1>1, <1>2 DEF d
  <2>1. CASE i \in 1..Len(inbox)
    <3>1. (\E j \in 1..(i - 1) : inbox[j] = l) \/ l \in missed[d]
      BY <1>1, <1>4, <2>0, <2>1 DEF InboxOrdered, inbox, d
    <3>2. \A j \in 1..(i - 1) : k.inbox[j] = inbox[j]
      BY <1>2, <1>4, <2>1
    <3> QED
      BY <1>5, <2>0, <3>1, <3>2
  <2>2. CASE i = Len(inbox) + 1
    <3>1. l < m /\ l \in Nat /\ l > 0 /\ l <= last_id
      BY <1>1, <1>3, <1>4, <2>0, <2>2, HubAssumption DEF Ids
    <3>2. \A j \in 1..Len(inbox) : j \in 1..(i - 1) /\ k.inbox[j] = inbox[j]
      BY <1>2, <1>4, <2>2
    <3>3. (\E j \in 1..Len(inbox) : inbox[j] = l) \/ l \in missed'[d]
      BY <1>5, <1>7, <2>0, <3>1
    <3>4. (\E j \in 1..(i - 1) : k.inbox[j] = l) \/ l \in missed'[d]
      BY <3>2, <3>3
    <3> QED
      BY <2>0, <3>4
  <2> QED
    BY <1>2, <1>4, <2>0, <2>1, <2>2
<1> QED
  BY <1>6, <1>8, <1>9 DEF ConnInv

\* A publisher offers its message to a connection.
LEMMA OfferInv ==
    ASSUME HubInv, TypeOK', NEW p \in Senders, NEW c \in Conns, Offer(p, c)
    PROVE  HubInv'
<1> DEFINE m == sender[p].msg
           d == conn[c].device
           T == sender[p].targets
           S == {l \in 1..(m - 1) : l \in Underway(c) \/ c \notin users}
<1>0. /\ TypeOK /\ Connected(c) /\ Holds(p, c) /\ sender[p].step = "offer" /\ c \in T
      /\ m \in Ids /\ m <= last_id /\ T \in SUBSET Conns /\ \A x \in T : Connected(x)
  <2>1. TypeOK /\ SenderInv(p) /\ sender[p].step = "offer" /\ c \in T
    BY DEF HubInv, Offer
  <2> QED
    BY <2>1, SenderType DEF SenderInv, Holds
<1>1. /\ d \in Devices
      /\ sender' = [sender EXCEPT ![p] = Offering(m, T \ {c})]
      /\ \/ /\ \E k \in OpenConn :
                 /\ conn' = [conn EXCEPT ![c] = k]
                 /\ k.step = conn[c].step /\ k.device = d
                 /\ k.peer = conn[c].peer /\ k.last_sent = conn[c].last_sent
                 /\ k.rest = conn[c].rest /\ k.inbox = Append(conn[c].inbox, m)
            /\ missed' = [missed EXCEPT ![d] = @ \cup S]
            /\ users' = users
         \/ /\ conn' = conn /\ users' = users \ {c}
            /\ missed' = [missed EXCEPT ![d] = @ \cup {m}]
      /\ UNCHANGED <<rowVars, wire, clientVars, faultVars>>
  BY <1>0, OfferEffect
<1>2. /\ UNCHANGED <<last_id, wire, cursor, stored, received, breaks, errors>>
      /\ last_id \in Nat /\ breaks \in Nat /\ errors \in Nat
  BY <1>0, <1>1 DEF rowVars, clientVars, faultVars, TypeOK
<1>3. MissedGrows /\ (conn' = conn \/ S \subseteq missed'[d])
  <2>1. missed \in [Devices -> SUBSET Ids]
    BY <1>0 DEF TypeOK
  <2> HIDE DEF S, d, m
  <2> QED
    BY <1>1, <2>1 DEF MissedGrows
<1>4. sender'[p] = Offering(m, T \ {c}) /\ \A q \in Senders \ {p} : sender'[q] = sender[q]
  BY <1>0, <1>1 DEF TypeOK
<1>5. /\ \A x \in Conns : Connected(x) => Connected(x)'
      /\ \A x \in Conns : conn'[x].step = conn[x].step /\ (Connected(x) => conn'[x].peer = conn[x].peer)
      /\ \A x \in Conns \ {c} : SameConn(x)
      /\ Connected(c) => /\ conn'[c].device = conn[c].device
                         /\ conn'[c].last_sent = conn[c].last_sent
  <2>1. conn \in [Conns -> ConnState]
    BY <1>0 DEF TypeOK
  <2>2. CASE conn' = conn
    BY <2>2 DEF SameConn, Connected
  <2>3. CASE \E k \in OpenConn :
                 /\ conn' = [conn EXCEPT ![c] = k]
                 /\ k.step = conn[c].step /\ k.device = d
                 /\ k.peer = conn[c].peer /\ k.last_sent = conn[c].last_sent
    BY <2>1, <2>3 DEF SameConn, Connected
  <2> QED
    BY <1>1, <2>2, <2>3
<1>6. ASSUME NEW q \in Senders PROVE SenderInv(q)'
  <2>1. CASE q # p
    BY <1>2, <1>4, <1>5, <2>1, SenderKept
  <2>2. CASE q = p /\ T \ {c} = {}
    <3>1. sender'[p] = Idle
      BY <1>4, <2>2 DEF Offering
    <3> QED
      BY <2>2, <3>1 DEF SenderInv, Idle
  <2>3. CASE q = p /\ T \ {c} # {}
    <3>1. sender'[p] = [step |-> "offer", msg |-> m, targets |-> T \ {c}]
      BY <1>4, <2>3 DEF Offering
    <3>2. \A x \in T \ {c} : Connected(x)'
      BY <1>0, <1>5
    <3>3. m <= last_id'
      BY <1>0, <1>2
    <3> QED
      BY <2>3, <3>1, <3>2, <3>3 DEF SenderInv
  <2> QED
    BY <2>1, <2>2, <2>3
<1>7. ASSUME NEW x \in Conns, x # c PROVE UnderwayKept(x)
  <2> SUFFICES ASSUME NEW l \in Ids, l \in Underway(x) \/ l > last_id, l <= last_id
               PROVE  l \in Underway(x)'
    BY <1>2 DEF UnderwayKept
  <2>1. l \in Underway(x)
    BY <1>2, HubAssumption DEF Ids
  <2>2. PICK q \in Senders : Holds(q, x) /\ sender[q].msg = l
    BY <2>1, UnderwayHeld
  <2>3. CASE q # p
    <3>1. Holds(q, x)' /\ sender'[q].msg = l
      BY <1>4, <2>2, <2>3 DEF Holds
    <3> QED
      BY <3>1, UnderwayHeld
  <2>4. CASE q = p
    <3>1. x \in T \ {c} /\ l = m
      BY <1>0, <1>7, <2>2, <2>4 DEF Holds
    <3>2. sender'[p] = [step |-> "offer", msg |-> l, targets |-> T \ {c}]
      BY <1>4, <3>1 DEF Offering
    <3>3. Holds(p, x)' /\ sender'[p].msg = l
      BY <3>1, <3>2 DEF Holds
    <3> QED
      BY <3>3, UnderwayHeld
  <2> QED
    BY <2>3, <2>4
<1>8. \A x \in Conns : ConnInv(x)'
  <2> SUFFICES ASSUME NEW x \in Conns PROVE ConnInv(x)'
    OBVIOUS
  <2>0. last_id' >= last_id /\ (x \in users' => x \in users)
    BY <1>1, <1>2
  <2>1. CASE x # c
    BY <1>3, <1>5, <1>7, <2>0, <2>1, ConnKept
  <2>2. CASE x = c /\ conn' = conn /\ users' = users \ {c}
    <3>1. UnderwayKept(c) /\ SameConn(c)
      BY <2>2 DEF UnderwayKept, SameConn
    <3> QED
      BY <1>3, <2>0, <2>2, <3>1, ConnKept
  <2>3. CASE /\ x = c /\ users' = users
             /\ \E k \in OpenConn :
                 /\ conn' = [conn EXCEPT ![c] = k]
                 /\ k.step = conn[c].step /\ k.device = d
                 /\ k.peer = conn[c].peer /\ k.last_sent = conn[c].last_sent
                 /\ k.rest = conn[c].rest /\ k.inbox = Append(conn[c].inbox, m)
    <3>1. CASE S \subseteq missed'[d]
      BY <1>0, <1>2, <1>3, <1>4, <2>3, <3>1, InboxFilled
    <3>2. CASE conn' = conn
      <4>1. conn[c].inbox \in Seq(Ids)
        BY <1>0, ConnType DEF OpenConn
      <4>2. PICK k \in OpenConn : conn' = [conn EXCEPT ![c] = k]
                                  /\ k.inbox = Append(conn[c].inbox, m)
        BY <2>3
      <4>3. conn[c].inbox = Append(conn[c].inbox, m)
        BY <1>0, <3>2, <4>2 DEF TypeOK
      <4> QED
        BY <1>0, <4>1, <4>3, AppendProperties, LenProperties
    <3> QED
      BY <1>3, <3>1, <3>2
  <2> QED
    BY <1>1, <2>1, <2>2, <2>3
<1>9. \A x \in Conns : WireInv(x)' /\ FollowInv(x)'
  <2> SUFFICES ASSUME NEW x \in Conns PROVE WireInv(x)' /\ FollowInv(x)'
    OBVIOUS
  <2>1. CASE x # c
    <3>1. SameConn(x) /\ (Connected(x) => conn'[x].peer = conn[x].peer)
          /\ (Connected(x)' => Connected(x))
      BY <1>5, <2>1 DEF Connected
    <3>2. wire'[x] = wire[x] /\ cursor' = cursor /\ received' = received
      BY <1>2
    <3>3. WireInv(x)'
      BY <3>1, <3>2, WireKept
    <3>4. FollowInv(x)'
      BY <1>3, <3>1, <3>2, FollowKept
    <3> QED
      BY <3>3, <3>4
  <2>2. CASE x = c
    <3>1. WireInv(c) /\ FollowInv(c) /\ missed[d] \subseteq missed'[d]
      BY <1>1, <1>3 DEF HubInv, MissedGrows
    <3>2. WireInv(c)'
      BY <1>0, <1>2, <1>5, <3>1 DEF WireInv
    <3>3. FollowInv(c)'
      <4>1. \A l \in Ids : OnWire(c, l)' <=> OnWire(c, l)
        BY <1>2 DEF OnWire
      <4> QED
        BY <1>0, <1>2, <1>5, <3>1, <4>1 DEF FollowInv
    <3> QED
      BY <2>2, <3>2, <3>3
  <2> QED
    BY <2>1, <2>2
<1>10. ReceivedOnce' /\ GapsAreExplained' /\ \A x \in Devices : CursorInv(x)'
  BY <1>2, <1>3, DevicesKept
<1> QED
  BY <1>6, <1>8, <1>9, <1>10 DEF HubInv

\* A connection reads its page, or fails to.
LEMMA PageInv ==
    ASSUME HubInv, TypeOK', NEW c \in Conns, ReadPage(c) \/ ReadPageFails(c)
    PROVE  HubInv'
<1> DEFINE d == conn[c].device
           since == conn[c].last_sent
<1>0. /\ TypeOK /\ Connected(c) /\ PageFollows(c) /\ conn[c].step = "open"
      /\ conn[c] \in OpenConn /\ last_id \in Nat /\ last_id \in 0..MaxMessages
      /\ since \in 0..last_id /\ since \in Nat
      /\ conn[c].rest = <<>> /\ d \in Devices /\ conn[c].inbox \in Seq(Ids)
  <2>1. TypeOK /\ Connected(c) /\ PageFollows(c) /\ conn[c].step = "open"
    BY PageSteps DEF HubInv, ConnInv, ReadPage, ReadPageFails
  <2>2. conn[c] \in OpenConn /\ last_id \in 0..MaxMessages /\ since \in 0..last_id
    BY <2>1, SentCommitted
  <2> QED
    BY <2>1, <2>2, HubAssumption DEF PageFollows, OpenConn
<1>1. PICK k \in OpenConn, end \in since..last_id :
         /\ conn' = [conn EXCEPT ![c] = k]
         /\ k.step = "live" /\ k.device = d /\ k.peer = conn[c].peer
         /\ k.last_sent = since /\ k.inbox = conn[c].inbox
         /\ k.rest = After(since, end)
         /\ missed' = [missed EXCEPT ![d] = @ \cup (end + 1)..last_id]
  <2>1. CASE ReadPage(c)
    <3>1. since <= last_id
      BY <1>0
    <3> QED
      BY <1>0, <2>1, <3>1, ReadPageEffect
  <2>2. CASE ReadPageFails(c)
    <3>1. since \in since..last_id /\ since \in 0..MaxMessages /\ since \in since..MaxMessages
      BY <1>0, HubAssumption
    <3>2. After(since, since) = <<>>
      <4>1. After(since, since) \in Seq(Ids) /\ Len(After(since, since)) = since - since
        BY <3>1, AfterType
      <4>2. Len(After(since, since)) = 0
        BY <1>0, <4>1
      <4> QED
        BY <4>1, <4>2, EmptySeq
    <3>3. PICK k \in OpenConn :
         /\ conn' = [conn EXCEPT ![c] = k]
         /\ k.step = "live" /\ k.device = d
         /\ k.peer = conn[c].peer /\ k.last_sent = since
         /\ k.rest = conn[c].rest /\ k.inbox = conn[c].inbox
         /\ missed' = [missed EXCEPT ![d] = @ \cup (since + 1)..last_id]
      BY <1>0, <2>2, ReadPageFailsEffect
    <3> QED
      BY <1>0, <3>1, <3>2, <3>3
  <2> QED
    BY <2>1, <2>2
<1>2. /\ UNCHANGED <<last_id, sender, users, wire, cursor, stored, received, breaks>>
      /\ errors' \in {errors, errors + 1} /\ errors \in Nat /\ breaks \in Nat
  BY <1>0 DEF ReadPage, ReadPageFails, faultVars, rowVars, clientVars, TypeOK
<1>3. MissedGrows /\ (end + 1)..last_id \subseteq missed'[d]
  BY SMTT(30), <1>0, <1>1 DEF MissedGrows, TypeOK
<1>4. /\ conn'[c] = k /\ \A x \in Conns \ {c} : conn'[x] = conn[x]
      /\ Connected(c)' /\ \A x \in Conns : Connected(x) => Connected(x)'
      /\ \A x \in Conns \ {c} : SameConn(x) /\ conn'[x].peer = conn[x].peer
                                /\ (Connected(x)' => Connected(x))
  BY SMTT(30), <1>0, <1>1 DEF TypeOK, Connected, SameConn
<1>5. \A p \in Senders : SenderInv(p)'
  BY <1>2, <1>4, SendersIdle
<1>6. /\ Len(k.rest) = end - since /\ end \in Nat /\ end <= last_id
      /\ \A i \in 1..Len(k.rest) : k.rest[i] = since + i
      /\ PageEnd(c)' = end
  <2>1. end \in since..MaxMessages /\ since \in 0..MaxMessages /\ end \in Nat /\ end <= last_id
    BY <1>0, <1>1, HubAssumption
  <2>2. Len(k.rest) = end - since /\ \A i \in 1..(end - since) : k.rest[i] = since + i
    <3>1. /\ Len(After(since, end)) = end - since
          /\ \A i \in 1..(end - since) : After(since, end)[i] = since + i
      BY <2>1, AfterType
    <3> QED
      BY <1>1, <3>1
  <2> QED
    BY <1>0, <1>1, <1>4, <2>1, <2>2 DEF PageEnd
<1>7. ConnInv(c)'
  <2>1. PageFollows(c)'
    BY SMTT(30), <1>0, <1>1, <1>2, <1>4, <1>6 DEF PageFollows
  <2>2. \A l \in Ids : l > end /\ l <= last_id => l \in missed'[d]
    BY <1>0, <1>3, <1>6, HubAssumption DEF Ids
  <2>3. Promised(c)'
    <3>1. conn'[c].device = d
      BY <1>1, <1>4
    <3> QED
      BY <1>2, <1>6, <2>2, <3>1 DEF Promised
  <2>4. InboxOrdered(c)'
    <3> SUFFICES ASSUME NEW i \in 1..Len(conn'[c].inbox), NEW l \in Ids,
                        l > PageEnd(c)', l < conn'[c].inbox[i]
                 PROVE  l \in missed'[conn'[c].device]
      BY DEF InboxOrdered
    <3>1. conn'[c].inbox = conn[c].inbox /\ conn'[c].device = d
      BY <1>1, <1>4
    <3>2. conn[c].inbox[i] <= last_id /\ conn[c].inbox[i] \in Nat /\ l \in Nat
      BY <1>0, <3>1, HubAssumption DEF PageFollows, Ids
    <3>3. l <= last_id /\ l > end
      BY <1>0, <1>6, <3>1, <3>2
    <3> QED
      BY <2>2, <3>1, <3>3
  <2> QED
    BY <2>1, <2>3, <2>4 DEF ConnInv
<1>8. \A x \in Conns : ConnInv(x)' /\ WireInv(x)' /\ FollowInv(x)'
  <2> SUFFICES ASSUME NEW x \in Conns PROVE ConnInv(x)' /\ WireInv(x)' /\ FollowInv(x)'
    OBVIOUS
  <2>1. CASE x # c
    <3>1. SameConn(x) /\ (Connected(x) => conn'[x].peer = conn[x].peer)
          /\ (Connected(x)' => Connected(x)) /\ UnderwayKept(x)
      <4>1. conn'[x] = conn[x]
        BY <1>4, <2>1
      <4>2. SameConn(x) /\ (Connected(x)' => Connected(x))
        BY <4>1 DEF SameConn, Connected
      <4>3. UnderwayKept(x)
        BY <1>2, UnderwaySame
      <4> QED
        BY <4>1, <4>2, <4>3
    <3>2. wire'[x] = wire[x] /\ cursor' = cursor /\ received' = received
          /\ last_id' >= last_id /\ users' = users
      BY <1>0, <1>2
    <3>3. ConnInv(x)'
      BY <1>3, <3>1, <3>2, ConnKept
    <3>4. WireInv(x)'
      BY <3>1, <3>2, WireKept
    <3>5. FollowInv(x)'
      BY <1>3, <2>1, <3>1, <3>2, <1>4, FollowKept
    <3> QED
      BY <3>3, <3>4, <3>5
  <2>2. CASE x = c
    <3>1. WireInv(c) /\ FollowInv(c) /\ missed[d] \subseteq missed'[d]
      BY <1>0, <1>3 DEF HubInv, MissedGrows
    <3>2. conn'[c].device = d /\ conn'[c].peer = conn[c].peer /\ conn'[c].last_sent = since
      BY <1>1, <1>4
    <3>3. WireInv(c)'
      BY <1>0, <1>2, <1>4, <3>1, <3>2 DEF WireInv
    <3>4. FollowInv(c)'
      <4>1. \A l \in Ids : OnWire(c, l)' <=> OnWire(c, l)
        BY <1>2 DEF OnWire
      <4> QED
        BY <1>0, <1>2, <3>1, <3>2, <4>1 DEF FollowInv
    <3> QED
      BY <1>7, <2>2, <3>3, <3>4
  <2> QED
    BY <2>1, <2>2
<1>9. ReceivedOnce' /\ GapsAreExplained' /\ \A x \in Devices : CursorInv(x)'
  <2>1. errors' >= errors /\ breaks' >= breaks
    BY <1>2
  <2> QED
    BY <1>2, <1>3, <2>1, DevicesKept
<1> QED
  BY <1>5, <1>8, <1>9 DEF HubInv

\* A message leaves the inbox, written or skipped.
LEMMA InboxTaken ==
    ASSUME HubInv, NEW c \in Conns, NEW k \in OpenConn, Connected(c),
           conn' = [conn EXCEPT ![c] = k], k.step = "live", conn[c].step = "live",
           k.device = conn[c].device, k.rest = <<>>, conn[c].rest = <<>>,
           conn[c].inbox # <<>>, k.inbox = Tail(conn[c].inbox),
           k.last_sent >= conn[c].last_sent, k.last_sent <= last_id,
           k.last_sent >= Head(conn[c].inbox),
           UNCHANGED <<sender, users, last_id, missed>>
    PROVE  ConnInv(c)'
<1> DEFINE d == conn[c].device
           inbox == conn[c].inbox
<1>1. /\ PageFollows(c) /\ Promised(c) /\ InboxOrdered(c)
      /\ conn[c] \in OpenConn /\ last_id \in Nat /\ conn'[c] = k
  <2>1. TypeOK /\ conn \in [Conns -> ConnState] /\ last_id \in Nat
    BY DEF HubInv, TypeOK
  <2>2. PageFollows(c) /\ Promised(c) /\ InboxOrdered(c)
    BY DEF HubInv, ConnInv
  <2> QED
    BY <2>1, <2>2, ConnType
<1>2. /\ inbox \in Seq(Ids) /\ Len(inbox) \in Nat \ {0} /\ d \in Devices
      /\ conn[c].last_sent \in Nat /\ k.last_sent \in Nat
      /\ PageEnd(c) = conn[c].last_sent /\ PageEnd(c)' = k.last_sent
  <2>1. inbox \in Seq(Ids) /\ d \in Devices
        /\ conn[c].last_sent \in Nat /\ k.last_sent \in Nat
    BY <1>1 DEF OpenConn
  <2>2. Len(inbox) \in Nat \ {0}
    BY <2>1, LenProperties, EmptySeq
  <2>3. PageEnd(c) = conn[c].last_sent /\ PageEnd(c)' = k.last_sent
    BY <1>1, <2>1 DEF PageEnd
  <2> QED
    BY <2>1, <2>2, <2>3
<1>3. /\ Len(k.inbox) = Len(inbox) - 1
      /\ \A i \in 1..(Len(inbox) - 1) : k.inbox[i] = inbox[i + 1]
      /\ inbox[1] <= k.last_sent
  BY <1>2, HeadTailProperties
<1> HIDE DEF d, inbox
<1>4. \A l \in Ids : l \in Nat
  BY HubAssumption DEF Ids
<1>5. \A i \in 1..Len(inbox) : inbox[i] \in Nat /\ inbox[i] <= last_id
  BY <1>1, <1>2, <1>4 DEF PageFollows, inbox
\* What is past the page and in the inbox is not its head.
<1>6. ASSUME NEW l \in Ids, l > k.last_sent, NEW j \in 1..Len(inbox), inbox[j] = l
      PROVE  j - 1 \in 1..Len(k.inbox) /\ k.inbox[j - 1] = l
  <2>1. j # 1
    BY <1>2, <1>3, <1>4, <1>6
  <2>2. j - 1 \in 1..(Len(inbox) - 1)
    BY <1>2, <2>1
  <2>3. k.inbox[j - 1] = inbox[(j - 1) + 1]
    BY <1>3, <2>2
  <2>4. (j - 1) + 1 = j
    BY <1>2
  <2> QED
    BY <1>2, <1>3, <1>6, <2>2, <2>3, <2>4
<1>7. PageFollows(c)'
  <2>1. ASSUME NEW i \in 1..Len(k.inbox) PROVE k.inbox[i] <= last_id
    <3>1. i \in 1..(Len(inbox) - 1) /\ i + 1 \in 1..Len(inbox)
      BY <1>2, <1>3
    <3> QED
      BY <1>3, <1>5, <3>1
  <2>2. \A i \in 1..Len(k.rest) : k.rest[i] = k.last_sent + i
    OBVIOUS
  <2>3. PageEnd(c)' <= last_id' /\ last_id' = last_id
    BY <1>2
  <2>4. conn'[c].step # "open"
    BY <1>1
  <2> QED
    BY <1>1, <2>1, <2>2, <2>3, <2>4 DEF PageFollows
<1>8. Promised(c)'
  <2> SUFFICES ASSUME NEW l \in Ids, l > k.last_sent, l <= last_id
               PROVE  InInbox(c, l)' \/ l \in missed[d] \/ l \in Underway(c)' \/ c \notin users
    BY <1>1, <1>2 DEF Promised, d
  <2>1. Underway(c)' = Underway(c)
    BY DEF Underway
  <2>2. l > PageEnd(c)
    BY <1>2, <1>4
  <2>3. \/ \E j \in 1..Len(inbox) : inbox[j] = l
        \/ l \in missed[d] \/ l \in Underway(c) \/ c \notin users
    BY <1>1, <2>2 DEF Promised, InInbox, d, inbox
  <2>4. ASSUME NEW j \in 1..Len(inbox), inbox[j] = l PROVE InInbox(c, l)'
    <3>1. j - 1 \in 1..Len(k.inbox) /\ k.inbox[j - 1] = l
      BY <1>6, <2>4
    <3> QED
      BY <1>1, <3>1 DEF InInbox
  <2> QED
    BY <2>1, <2>3, <2>4
<1>9. InboxOrdered(c)'
  <2> SUFFICES ASSUME NEW i \in 1..Len(conn'[c].inbox), NEW l \in Ids,
                      l > PageEnd(c)', l < conn'[c].inbox[i]
               PROVE  \/ \E j \in 1..(i - 1) : conn'[c].inbox[j] = l
                      \/ l \in missed'[conn'[c].device]
    BY DEF InboxOrdered
  <2>1. /\ i \in 1..Len(k.inbox) /\ l > k.last_sent /\ l < k.inbox[i]
        /\ conn'[c].inbox = k.inbox /\ missed'[conn'[c].device] = missed[d]
    BY <1>1, <1>2 DEF d
  <2>2. i + 1 \in 1..Len(inbox) /\ k.inbox[i] = inbox[i + 1] /\ (i + 1) - 1 = i
    BY <1>2, <1>3, <2>1
  <2>3. l > PageEnd(c) /\ l < inbox[i + 1]
    <3>1. l > conn[c].last_sent
      <4>1. l \in Nat /\ l > k.last_sent
        BY <1>4, <2>1
      <4> QED
        BY <1>2, <4>1
    <3>2. l < inbox[i + 1]
      BY <2>1, <2>2
    <3> QED
      BY <1>2, <3>1, <3>2
  <2>4. (\E j \in 1..((i + 1) - 1) : inbox[j] = l) \/ l \in missed[d]
    BY <1>1, <2>2, <2>3 DEF InboxOrdered, d, inbox
  <2>5. ASSUME NEW j \in 1..i, inbox[j] = l
        PROVE  j - 1 \in 1..(i - 1) /\ k.inbox[j - 1] = l
    <3>1. j \in 1..Len(inbox)
      BY <1>2, <2>2
    <3>2. j - 1 \in 1..Len(k.inbox) /\ k.inbox[j - 1] = l
      BY <1>6, <2>1, <2>5, <3>1
    <3> QED
      BY <2>1, <3>2
  <2>6. (\E j \in 1..(i - 1) : k.inbox[j] = l) \/ l \in missed[d]
    BY <2>2, <2>4, <2>5
  <2> QED
    BY <2>1, <2>6
<1> QED
  BY <1>7, <1>8, <1>9 DEF ConnInv

\* A frame follows those on the wire, and its message all that was sent or
\* passed over.
LEMMA WireWritten ==
    ASSUME HubInv, TypeOK', NEW c \in Conns, NEW m \in Ids, NEW k \in OpenConn, Connected(c),
           Write(c, m), conn' = [conn EXCEPT ![c] = k],
           k.device = conn[c].device, k.peer = conn[c].peer, k.last_sent = m,
           m > conn[c].last_sent,
           \A l \in Ids : l > conn[c].last_sent /\ l < m => l \in missed[conn[c].device]
    PROVE  WireInv(c)' /\ FollowInv(c)'
<1> DEFINE d == conn[c].device
           w == wire[c]
<1>1. /\ TypeOK /\ WireInv(c) /\ FollowInv(c) /\ conn[c] \in OpenConn
      /\ conn'[c] = k /\ w \in Seq(Ids) /\ Len(w) \in Nat
      /\ Connected(c)' /\ d \in Devices /\ cursor[d] \in Nat /\ conn[c].last_sent \in Nat
  <2>1. TypeOK /\ WireInv(c) /\ FollowInv(c) /\ conn[c] \in OpenConn
    BY ConnType DEF HubInv
  <2>2. conn'[c] = k /\ w \in Seq(Ids) /\ k.step # "none" /\ d \in Devices
        /\ conn[c].last_sent \in Nat
    <3>1. conn \in [Conns -> ConnState] /\ wire \in [Conns -> Seq(Ids)]
      BY <2>1 DEF TypeOK
    <3>2. k.step # "none" /\ d \in Devices /\ conn[c].last_sent \in Nat
      BY <2>1 DEF OpenConn
    <3> QED
      BY <3>1, <3>2
  <2>3. cursor[d] \in Nat
    BY <2>1, <2>2 DEF TypeOK
  <2> QED
    BY <2>1, <2>2, <2>3, LenProperties DEF Connected
<1>2. /\ wire'[c] = IF conn[c].peer THEN Append(w, m) ELSE w
      /\ UNCHANGED <<clientVars, missed>>
  BY <1>1, WriteEffect
<1>3. CASE ~conn[c].peer
  <2>1. wire'[c] = <<>> /\ ~conn'[c].peer
    BY <1>1, <1>2, <1>3 DEF WireInv
  <2> QED
    BY <2>1 DEF WireInv, FollowInv
<1>4. CASE conn[c].peer
  <2> DEFINE v == Append(w, m)
  <2>1. /\ wire'[c] = v /\ conn'[c].peer
        /\ Len(v) = Len(w) + 1 /\ v[Len(w) + 1] = m /\ \A i \in 1..Len(w) : v[i] = w[i]
    <3>1. wire'[c] = v /\ conn'[c].peer
      BY <1>1, <1>2, <1>4
    <3>2. Len(v) = Len(w) + 1 /\ v[Len(w) + 1] = m /\ \A i \in 1..Len(w) : v[i] = w[i]
      BY <1>1, AppendProperties
    <3> QED
      BY <3>1, <3>2
  <2>2. \A i \in 1..Len(w) : w[i] \in Nat /\ w[i] <= conn[c].last_sent
    BY <1>1, HubAssumption DEF WireInv, Ids
  <2>3. m \in Nat
    BY HubAssumption DEF Ids
  <2>4. \A i \in 1..Len(v) : i \in 1..Len(w) \/ i = Len(w) + 1
    BY <1>1, <2>1
  <2>5. \A i, j \in 1..Len(w) : i < j => w[i] < w[j]
    BY <1>1 DEF WireInv
  <2>6. /\ cursor[d] <= conn[c].last_sent
        /\ \A i \in 1..Len(w) : cursor[d] < w[i]
        /\ \A l \in Ids : l <= conn[c].last_sent =>
              \/ received[d][l] > 0 \/ l \in missed[d]
              \/ \E i \in 1..Len(w) : w[i] = l
    BY <1>1, <1>4 DEF FollowInv, OnWire
  <2> HIDE DEF v, w, d
  <2>7. WireInv(c)'
    <3>1. ASSUME NEW i \in 1..Len(v), NEW j \in 1..Len(v), i < j PROVE v[i] < v[j]
      <4>1. i \in 1..Len(w)
        BY <1>1, <2>1, <3>1
      <4>2. CASE j \in 1..Len(w)
        BY <2>1, <2>5, <3>1, <4>1, <4>2
      <4>3. CASE j = Len(w) + 1
        BY <1>1, <2>1, <2>2, <2>3, <4>1, <4>3
      <4> QED
        BY <2>4, <4>2, <4>3
    <3>2. ASSUME NEW i \in 1..Len(v) PROVE v[i] <= m
      BY <1>1, <2>1, <2>2, <2>3, <2>4
    <3> QED
      BY <1>1, <2>1, <3>1, <3>2 DEF WireInv
  <2>8. FollowInv(c)'
    <3>1. cursor[d] <= m /\ \A i \in 1..Len(v) : cursor[d] < v[i]
      BY SMTT(30), <1>1, <2>1, <2>2, <2>3, <2>4, <2>6
    <3>2. ASSUME NEW l \in Ids, l <= m
          PROVE  received[d][l] > 0 \/ l \in missed[d] \/ \E i \in 1..Len(v) : v[i] = l
      <4>0. l \in Nat /\ \A i \in 1..Len(w) : i \in 1..Len(v)
        BY <1>1, <2>1, HubAssumption DEF Ids
      <4>1. CASE l = m
        <5>1. Len(w) + 1 \in 1..Len(v)
          BY <1>1, <2>1
        <5> QED
          BY <2>1, <4>1, <5>1
      <4>2. CASE l <= conn[c].last_sent
        BY <2>1, <2>6, <4>0, <4>2
      <4>3. CASE l > conn[c].last_sent /\ l < m
        BY <4>3 DEF d
      <4> QED
        BY <1>1, <2>3, <3>2, <4>0, <4>1, <4>2, <4>3
    <3>3. /\ conn'[c].device = d /\ conn'[c].last_sent = m
          /\ cursor' = cursor /\ received' = received /\ missed' = missed
      BY <1>1, <1>2 DEF clientVars, d
    <3> QED
      BY <2>1, <3>1, <3>2, <3>3 DEF FollowInv, OnWire
  <2> QED
    BY <2>7, <2>8
<1> QED
  BY <1>3, <1>4

\* A message leaves the page for the wire.
LEMMA PageWritten ==
    ASSUME HubInv, NEW c \in Conns, NEW k \in OpenConn, Connected(c),
           conn' = [conn EXCEPT ![c] = k], k.step = "live", conn[c].step = "live",
           k.device = conn[c].device, conn[c].rest # <<>>, k.rest = Tail(conn[c].rest),
           k.inbox = conn[c].inbox, k.last_sent = Head(conn[c].rest),
           UNCHANGED <<sender, users, last_id, missed>>
    PROVE  ConnInv(c)' /\ k.last_sent = conn[c].last_sent + 1
<1> DEFINE rest == conn[c].rest
<1>1. /\ PageFollows(c) /\ Promised(c) /\ InboxOrdered(c)
      /\ conn[c] \in OpenConn /\ last_id \in Nat /\ conn'[c] = k
  <2>1. TypeOK /\ conn \in [Conns -> ConnState] /\ last_id \in Nat
    BY DEF HubInv, TypeOK
  <2>2. PageFollows(c) /\ Promised(c) /\ InboxOrdered(c)
    BY DEF HubInv, ConnInv
  <2> QED
    BY <2>1, <2>2, ConnType
<1>2. /\ rest \in Seq(Ids) /\ Len(rest) \in Nat \ {0} /\ conn[c].last_sent \in Nat
  BY <1>1, LenProperties, EmptySeq DEF OpenConn
<1>3. /\ Len(k.rest) = Len(rest) - 1 /\ k.last_sent = rest[1]
      /\ \A i \in 1..(Len(rest) - 1) : k.rest[i] = rest[i + 1]
  BY <1>2, HeadTailProperties
<1>4. \A i \in 1..Len(rest) : rest[i] = conn[c].last_sent + i
  BY <1>1 DEF PageFollows
<1> HIDE DEF rest
<1>5. k.last_sent = conn[c].last_sent + 1
  BY <1>2, <1>3, <1>4
<1>6. PageEnd(c)' = PageEnd(c)
  <2>1. PageEnd(c) = conn[c].last_sent + Len(rest) /\ PageEnd(c)' = k.last_sent + Len(k.rest)
    BY <1>1 DEF PageEnd, rest
  <2> QED
    BY <1>2, <1>3, <1>5, <2>1
<1>7. PageFollows(c)'
  <2>1. ASSUME NEW i \in 1..Len(k.rest) PROVE k.rest[i] = k.last_sent + i
    <3>1. i \in 1..(Len(rest) - 1) /\ i + 1 \in 1..Len(rest)
      BY <1>2, <1>3
    <3>2. k.rest[i] = conn[c].last_sent + (i + 1)
      BY <1>3, <1>4, <3>1
    <3> QED
      BY <1>2, <1>5, <3>1, <3>2
  <2>2. PageEnd(c) <= last_id /\ \A i \in 1..Len(k.inbox) : k.inbox[i] <= last_id
    BY <1>1 DEF PageFollows
  <2> QED
    BY <1>1, <1>6, <2>1, <2>2 DEF PageFollows
<1>8. Promised(c)'
  <2>1. Underway(c)' = Underway(c) /\ \A l \in Ids : InInbox(c, l)' <=> InInbox(c, l)
    BY <1>1 DEF Underway, InInbox
  <2>2. \A l \in Ids : l > PageEnd(c) /\ l <= last_id =>
            \/ InInbox(c, l) \/ l \in missed[conn[c].device]
            \/ l \in Underway(c) \/ c \notin users
    BY <1>1 DEF Promised
  <2>3. conn'[c].device = conn[c].device
    BY <1>1
  <2> QED
    BY <1>6, <2>1, <2>2, <2>3 DEF Promised
<1>9. InboxOrdered(c)'
  <2>1. \A i \in 1..Len(conn[c].inbox), l \in Ids :
            l > PageEnd(c) /\ l < conn[c].inbox[i] =>
                \/ \E j \in 1..(i - 1) : conn[c].inbox[j] = l
                \/ l \in missed[conn[c].device]
    BY <1>1 DEF InboxOrdered
  <2>2. conn'[c].device = conn[c].device /\ conn'[c].inbox = conn[c].inbox
    BY <1>1
  <2> QED
    BY <1>6, <2>1, <2>2, Zenon DEF InboxOrdered
<1> QED
  BY <1>5, <1>7, <1>8, <1>9 DEF ConnInv

\* A connection writes or skips a message.
LEMMA FrameInv ==
    ASSUME HubInv, TypeOK', NEW c \in Conns, WriteReplay(c) \/ WriteLive(c) \/ SkipLive(c)
    PROVE  HubInv'
<1> DEFINE d == conn[c].device
<1>0. /\ TypeOK /\ Connected(c) /\ conn[c] \in OpenConn /\ last_id \in Nat
      /\ conn[c].last_sent \in Nat /\ conn[c].inbox \in Seq(Ids)
  <2>1. TypeOK /\ Connected(c)
    BY FrameSteps DEF HubInv
  <2>2. last_id \in Nat
    BY <2>1 DEF TypeOK
  <2> QED
    BY <2>1, <2>2, ConnType DEF OpenConn
<1>1. /\ UNCHANGED <<last_id, sender, users, cursor, stored, received, breaks, missed>>
      /\ errors' \in {errors, errors + 1} /\ errors \in Nat /\ breaks \in Nat
      /\ \A x \in Conns \ {c} : wire'[x] = wire[x]
  <2>1. errors \in Nat /\ breaks \in Nat /\ wire \in [Conns -> Seq(Ids)]
    BY <1>0 DEF TypeOK
  <2>2. CASE SkipLive(c)
    BY <2>1, <2>2 DEF SkipLive, rowVars, clientVars, faultVars
  <2>3. CASE WriteReplay(c) \/ WriteLive(c)
    <3>1. PICK m \in Ids : Write(c, m)
      BY <1>0, <2>3, WriteReplayEffect, WriteLiveEffect
    <3>2. /\ wire' = [wire EXCEPT ![c] = wire'[c]]
          /\ errors' \in {errors, errors + 1}
          /\ UNCHANGED <<last_id, sender, users, clientVars, breaks, missed>>
      BY <1>0, <3>1, WriteEffect
    <3> QED
      BY <2>1, <3>2 DEF clientVars
  <2> QED
    BY <2>2, <2>3
<1>2. \E k \in OpenConn : /\ conn' = [conn EXCEPT ![c] = k]
                          /\ k.device = d /\ k.peer = conn[c].peer
  BY <1>0, WriteReplayEffect, WriteLiveEffect, SkipLiveEffect
<1>3. /\ \A x \in Conns : Connected(x) => Connected(x)'
      /\ \A x \in Conns \ {c} : conn'[x] = conn[x]
  <2>1. PICK k \in OpenConn : conn' = [conn EXCEPT ![c] = k]
    BY <1>2
  <2>2. k.step # "none" /\ conn \in [Conns -> ConnState]
    BY <1>0 DEF OpenConn, TypeOK
  <2> QED
    BY <2>1, <2>2 DEF Connected
<1>4. MissedGrows
  BY <1>1 DEF MissedGrows
<1>5. \A p \in Senders : SenderInv(p)'
  BY <1>1, <1>3, SendersIdle
<1>6. ASSUME NEW x \in Conns, x # c PROVE ConnInv(x)' /\ WireInv(x)' /\ FollowInv(x)'
  <2>1. conn'[x] = conn[x] /\ wire'[x] = wire[x]
    BY <1>1, <1>3, <1>6
  <2>2. SameConn(x) /\ (Connected(x)' => Connected(x)) /\ conn'[x].peer = conn[x].peer
    BY <2>1 DEF SameConn, Connected
  <2>3. last_id' >= last_id /\ users' = users /\ cursor' = cursor /\ received' = received
    BY <1>0, <1>1
  <2>4. UnderwayKept(x)
    BY <1>1, UnderwaySame
  <2> QED
    BY <1>4, <2>1, <2>2, <2>3, <2>4, ConnKept, WireKept, FollowKept
<1>7. ASSUME WriteReplay(c) PROVE ConnInv(c)' /\ WireInv(c)' /\ FollowInv(c)'
  <2> DEFINE m == Head(conn[c].rest)
  <2>1. PICK k \in OpenConn :
          /\ conn' = [conn EXCEPT ![c] = k]
          /\ k.step = "live" /\ k.device = conn[c].device
          /\ k.peer = conn[c].peer /\ k.last_sent = m
          /\ k.rest = Tail(conn[c].rest) /\ k.inbox = conn[c].inbox
    BY <1>0, <1>7, WriteReplayEffect
  <2>2. m \in Ids /\ Write(c, m) /\ conn[c].step = "live" /\ conn[c].rest # <<>>
    BY <1>0, <1>7, WriteReplayEffect
  <2>3. ConnInv(c)' /\ m = conn[c].last_sent + 1
    BY <1>0, <1>1, <2>1, <2>2, PageWritten
  <2>4. m > conn[c].last_sent
        /\ \A l \in Ids : ~(l > conn[c].last_sent /\ l < m)
    BY <1>0, <2>3, HubAssumption DEF Ids
  <2> HIDE DEF m
  <2>5. WireInv(c)' /\ FollowInv(c)'
    BY <1>0, <2>1, <2>2, <2>4, WireWritten
  <2> QED
    BY <2>3, <2>5
<1>8. ASSUME WriteLive(c) PROVE ConnInv(c)' /\ WireInv(c)' /\ FollowInv(c)'
  <2> DEFINE m == Head(conn[c].inbox)
  <2>1. PICK k \in OpenConn :
          /\ conn' = [conn EXCEPT ![c] = k]
          /\ k.step = "live" /\ k.device = conn[c].device
          /\ k.peer = conn[c].peer /\ k.last_sent = m
          /\ k.rest = <<>> /\ k.inbox = Tail(conn[c].inbox)
    BY <1>0, <1>8, WriteLiveEffect
  <2>2. /\ m \in Ids /\ Write(c, m) /\ conn[c].step = "live" /\ conn[c].rest = <<>>
        /\ conn[c].inbox # <<>> /\ m > conn[c].last_sent
    BY <1>0, <1>8, WriteLiveEffect
  <2>3. m = conn[c].inbox[1] /\ 1 \in 1..Len(conn[c].inbox) /\ m \in Nat
    <3>1. Len(conn[c].inbox) \in Nat \ {0}
      BY <1>0, <2>2, LenProperties, EmptySeq
    <3> QED
      BY <1>0, <2>2, <3>1, HeadTailProperties, HubAssumption DEF Ids
  <2>4. PageFollows(c) /\ InboxOrdered(c) /\ PageEnd(c) = conn[c].last_sent
    BY <1>0, <2>2 DEF HubInv, ConnInv, PageEnd
  <2>5. m <= last_id
    BY <2>3, <2>4 DEF PageFollows
  <2>6. \A l \in Ids : l > conn[c].last_sent /\ l < m => l \in missed[d]
    <3> SUFFICES ASSUME NEW l \in Ids, l > conn[c].last_sent, l < m PROVE l \in missed[d]
      OBVIOUS
    <3>1. (\E j \in 1..(1 - 1) : conn[c].inbox[j] = l) \/ l \in missed[d]
      BY <2>2, <2>3, <2>4 DEF InboxOrdered
    <3> QED
      BY <3>1
  <2> HIDE DEF m
  <2>7. WireInv(c)' /\ FollowInv(c)'
    BY <1>0, <2>1, <2>2, <2>6, WireWritten
  <2>8. ConnInv(c)'
    <3>1. k.last_sent >= conn[c].last_sent /\ k.last_sent <= last_id
          /\ k.last_sent >= Head(conn[c].inbox)
      BY <1>0, <2>1, <2>2, <2>3, <2>5 DEF m
    <3> QED
      BY <1>0, <1>1, <2>1, <2>2, <3>1, InboxTaken
  <2> QED
    BY <2>7, <2>8
<1>9. ASSUME SkipLive(c) PROVE ConnInv(c)' /\ WireInv(c)' /\ FollowInv(c)'
  <2>1. PICK k \in OpenConn :
          /\ conn' = [conn EXCEPT ![c] = k]
          /\ k.step = "live" /\ k.device = conn[c].device
          /\ k.peer = conn[c].peer /\ k.last_sent = conn[c].last_sent
          /\ k.rest = conn[c].rest /\ k.inbox = Tail(conn[c].inbox)
    BY <1>0, <1>9, SkipLiveEffect
  <2>2. /\ conn[c].step = "live" /\ conn[c].rest = <<>> /\ conn[c].inbox # <<>>
        /\ Head(conn[c].inbox) <= conn[c].last_sent /\ wire' = wire
    BY <1>9 DEF SkipLive, Live
  <2>3. conn[c].last_sent <= last_id
    BY <1>0, SentCommitted
  <2>4. ConnInv(c)'
    <3>1. k.last_sent >= conn[c].last_sent /\ k.last_sent <= last_id
          /\ k.last_sent >= Head(conn[c].inbox)
      <4>1. Head(conn[c].inbox) \in Nat
        BY <1>0, <2>2, HeadTailProperties, HubAssumption DEF Ids
      <4> QED
        BY <1>0, <2>1, <2>2, <2>3, <4>1
    <3> QED
      BY <1>0, <1>1, <2>1, <2>2, <3>1, InboxTaken
  <2>5. /\ WireInv(c) /\ FollowInv(c) /\ conn'[c].device = d /\ conn'[c].peer = conn[c].peer
        /\ conn'[c].last_sent = conn[c].last_sent /\ Connected(c)'
    BY <1>0, <1>3, <2>1 DEF HubInv, TypeOK
  <2>6. WireInv(c)'
    BY <1>0, <2>2, <2>5 DEF WireInv
  <2>7. FollowInv(c)'
    <3>1. \A l \in Ids : OnWire(c, l)' <=> OnWire(c, l)
      BY <2>2 DEF OnWire
    <3> QED
      BY <1>0, <1>1, <2>2, <2>5, <3>1 DEF FollowInv
  <2> QED
    BY <2>4, <2>6, <2>7
<1>10. ReceivedOnce' /\ GapsAreExplained' /\ \A x \in Devices : CursorInv(x)'
  <2>1. errors' >= errors /\ breaks' >= breaks
    BY <1>1
  <2> QED
    BY <1>1, <1>4, <2>1, DevicesKept
<1>11. \A x \in Conns : ConnInv(x)' /\ WireInv(x)' /\ FollowInv(x)'
  BY <1>6, <1>7, <1>8, <1>9
<1> QED
  BY <1>5, <1>10, <1>11 DEF HubInv

\* A connection ends on the server's side.
LEMMA LeaveInv ==
    ASSUME HubInv, TypeOK', NEW c \in Conns, Leave(c)
    PROVE  HubInv'
<1>0. /\ TypeOK /\ ~conn[c].peer /\ WireInv(c) /\ last_id \in Nat
      /\ errors \in Nat /\ breaks \in Nat
  <2>1. TypeOK /\ ~conn[c].peer /\ WireInv(c)
    BY DEF HubInv, Leave
  <2>2. last_id \in Nat /\ errors \in Nat /\ breaks \in Nat
    BY <2>1 DEF TypeOK
  <2> QED
    BY <2>1, <2>2
<1>1. /\ conn' = [conn EXCEPT ![c] = NoConn] /\ users' = users \ {c}
      /\ UNCHANGED <<last_id, wire, cursor, stored, received, errors, breaks, missed>>
  BY DEF Leave, rowVars, clientVars, faultVars
<1>2. /\ ~Connected(c)' /\ \A x \in Conns \ {c} : conn'[x] = conn[x]
  BY <1>0, <1>1 DEF TypeOK, Connected, NoConn
<1>3. MissedGrows /\ last_id' >= last_id
  BY <1>0, <1>1 DEF MissedGrows
<1>4. \A p \in Senders :
         IF sender[p].step = "offer"
         THEN sender'[p] = Offering(sender[p].msg, sender[p].targets \ {c})
         ELSE sender'[p] = sender[p]
  BY LeaveStep
<1>5. ASSUME NEW p \in Senders PROVE SenderInv(p)'
  <2>1. /\ SenderInv(p)
        /\ sender[p].step = "offer" => sender[p].targets \subseteq Conns
    BY <1>0, SenderType DEF HubInv
  <2>2. CASE sender[p].step # "offer"
    BY <1>1, <1>4, <2>1, <2>2 DEF SenderInv
  <2>3. CASE sender[p].step = "offer" /\ sender[p].targets \ {c} = {}
    <3>1. sender'[p] = Idle
      BY <1>4, <2>3 DEF Offering
    <3> QED
      BY <3>1 DEF SenderInv, Idle
  <2>4. CASE sender[p].step = "offer" /\ sender[p].targets \ {c} # {}
    <3>1. sender'[p] = [step |-> "offer", msg |-> sender[p].msg,
                        targets |-> sender[p].targets \ {c}]
      BY <1>4, <2>4 DEF Offering
    <3>2. \A x \in sender[p].targets \ {c} : Connected(x)'
      BY <1>2, <2>1, <2>4 DEF SenderInv, Connected
    <3>3. sender[p].msg <= last_id'
      BY <1>1, <2>1, <2>4 DEF SenderInv
    <3> QED
      BY <2>4, <3>1, <3>2, <3>3 DEF SenderInv
  <2> QED
    BY <2>2, <2>3, <2>4
<1>6. ASSUME NEW x \in Conns, x # c PROVE UnderwayKept(x)
  <2> SUFFICES ASSUME NEW l \in Ids, l \in Underway(x) \/ l > last_id, l <= last_id
               PROVE  l \in Underway(x)'
    BY <1>1 DEF UnderwayKept
  <2>1. l \in Underway(x)
    BY <1>0, HubAssumption DEF Ids
  <2>2. PICK q \in Senders : Holds(q, x) /\ sender[q].msg = l
    BY <2>1, UnderwayHeld
  <2>3. CASE sender[q].step # "offer"
    <3>1. Holds(q, x)' /\ sender'[q].msg = l
      BY <1>4, <2>2, <2>3 DEF Holds
    <3> QED
      BY <3>1, UnderwayHeld
  <2>4. CASE sender[q].step = "offer"
    <3>1. x \in sender[q].targets \ {c}
      BY <1>6, <2>2, <2>4 DEF Holds
    <3>2. sender'[q] = [step |-> "offer", msg |-> l, targets |-> sender[q].targets \ {c}]
      BY <1>4, <2>2, <2>4, <3>1 DEF Offering
    <3>3. Holds(q, x)' /\ sender'[q].msg = l
      BY <3>1, <3>2 DEF Holds
    <3> QED
      BY <3>3, UnderwayHeld
  <2> QED
    BY <2>3, <2>4
<1>7. ASSUME NEW x \in Conns PROVE ConnInv(x)' /\ WireInv(x)' /\ FollowInv(x)'
  <2>1. CASE x = c
    <3>1. wire'[c] = <<>>
      BY <1>0, <1>1 DEF WireInv
    <3> QED
      BY <1>2, <2>1, <3>1 DEF ConnInv, WireInv, FollowInv
  <2>2. CASE x # c
    <3>1. conn'[x] = conn[x] /\ wire'[x] = wire[x] /\ (x \in users' => x \in users)
      BY <1>1, <1>2, <2>2
    <3>2. SameConn(x) /\ (Connected(x)' => Connected(x)) /\ conn'[x].peer = conn[x].peer
      BY <3>1 DEF SameConn, Connected
    <3>3. UnderwayKept(x)
      BY <1>6, <2>2
    <3>4. cursor' = cursor /\ received' = received
      BY <1>1
    <3> QED
      BY <1>3, <3>1, <3>2, <3>3, <3>4, ConnKept, WireKept, FollowKept
  <2> QED
    BY <2>1, <2>2
<1>8. ReceivedOnce' /\ GapsAreExplained' /\ \A x \in Devices : CursorInv(x)'
  <2>1. errors' >= errors /\ breaks' >= breaks
    BY <1>0, <1>1
  <2> QED
    BY <1>1, <1>3, <2>1, DevicesKept
<1> QED
  BY <1>5, <1>7, <1>8 DEF HubInv

\* A client connects: what its cursor has passed was observed or passed over.
LEMMA ConnectInv ==
    ASSUME HubInv, TypeOK', NEW d \in Devices, NEW c \in Conns, Connect(d, c)
    PROVE  HubInv'
<1>0. /\ TypeOK /\ ~Connected(c) /\ WireInv(c) /\ last_id \in Nat
      /\ errors \in Nat /\ breaks \in Nat
      /\ cursor[d] \in Nat /\ cursor[d] <= last_id
  <2>1. TypeOK /\ ~Connected(c) /\ WireInv(c)
    BY DEF HubInv, Connect
  <2>2. last_id \in Nat /\ cursor[d] \in 0..last_id /\ errors \in Nat /\ breaks \in Nat
    BY <2>1 DEF TypeOK
  <2> QED
    BY <2>1, <2>2
<1>1. PICK k \in OpenConn :
         /\ conn' = [conn EXCEPT ![c] = k]
         /\ k.step = "open" /\ k.device = d /\ k.peer /\ k.last_sent = cursor[d]
         /\ k.rest = <<>> /\ k.inbox = <<>>
  BY <1>0, ConnectEffect
<1>2. /\ users' = users \cup {c}
      /\ UNCHANGED <<last_id, sender, wire, cursor, stored, received, errors, breaks, missed>>
  BY DEF Connect, rowVars, faultVars
<1>3. /\ conn'[c] = k /\ \A x \in Conns \ {c} : conn'[x] = conn[x]
      /\ \A x \in Conns : Connected(x) => Connected(x)'
  <2>1. conn \in [Conns -> ConnState]
    BY <1>0 DEF TypeOK
  <2> QED
    BY <1>0, <1>1, <2>1 DEF Connected
<1>4. MissedGrows /\ last_id' >= last_id
  BY <1>0, <1>2 DEF MissedGrows
<1>5. \A p \in Senders : SenderInv(p)'
  BY <1>2, <1>3, SendersIdle
<1>6. ConnInv(c)'
  <2>1. PageFollows(c)'
    <3>1. PageEnd(c)' = cursor[d]
      BY <1>0, <1>1, <1>3 DEF PageEnd
    <3>2. k.rest = <<>> /\ \A i \in 1..Len(<<>>) : FALSE
      BY <1>1
    <3> QED
      BY <1>0, <1>1, <1>2, <1>3, <3>1, <3>2 DEF PageFollows
  <2>2. Promised(c)' /\ InboxOrdered(c)'
    BY <1>1, <1>3 DEF Promised, InboxOrdered
  <2> QED
    BY <2>1, <2>2 DEF ConnInv
<1>7. WireInv(c)' /\ FollowInv(c)'
  <2>1. wire'[c] = <<>>
    BY <1>0, <1>2 DEF WireInv
  <2>2. WireInv(c)'
    BY <2>1 DEF WireInv
  <2>3. \A l \in Ids : l <= cursor[d] => received[d][l] > 0 \/ l \in missed[d]
    <3> SUFFICES ASSUME NEW l \in Ids, l <= cursor[d], ~(received[d][l] > 0)
                 PROVE  l \in missed[d]
      OBVIOUS
    <3>1. received[d][l] \in Nat
      BY <1>0 DEF TypeOK
    <3>2. l \in 1..cursor[d]
      BY <1>0, HubAssumption DEF Ids
    <3> QED
      BY <3>1, <3>2 DEF HubInv, GapsAreExplained
  <2>4. /\ conn'[c].device = d /\ conn'[c].last_sent = cursor[d]
        /\ cursor' = cursor /\ received' = received /\ missed' = missed
    BY <1>1, <1>2, <1>3
  <2>5. cursor[d] <= cursor[d]
    BY <1>0
  <2>6. FollowInv(c)'
    BY <2>1, <2>3, <2>4, <2>5 DEF FollowInv
  <2> QED
    BY <2>2, <2>6
<1>8. ASSUME NEW x \in Conns, x # c PROVE ConnInv(x)' /\ WireInv(x)' /\ FollowInv(x)'
  <2>1. conn'[x] = conn[x] /\ wire'[x] = wire[x] /\ (x \in users' => x \in users)
    BY <1>2, <1>3, <1>8
  <2>2. SameConn(x) /\ (Connected(x)' => Connected(x)) /\ conn'[x].peer = conn[x].peer
    BY <2>1 DEF SameConn, Connected
  <2>3. UnderwayKept(x)
    BY <1>2, UnderwaySame
  <2>4. cursor' = cursor /\ received' = received
    BY <1>2
  <2> QED
    BY <1>4, <2>1, <2>2, <2>3, <2>4, ConnKept, WireKept, FollowKept
<1>9. ReceivedOnce' /\ GapsAreExplained' /\ \A x \in Devices : CursorInv(x)'
  <2>1. errors' >= errors /\ breaks' >= breaks
    BY <1>0, <1>2
  <2> QED
    BY <1>2, <1>4, <2>1, DevicesKept
<1>10. \A x \in Conns : ConnInv(x)' /\ WireInv(x)' /\ FollowInv(x)'
  BY <1>6, <1>7, <1>8
<1> QED
  BY <1>5, <1>9, <1>10 DEF HubInv

\* A device has one connection whose client is there.
LEMMA OneConn ==
    ASSUME TypeOK, NEW d \in Devices, NEW c \in Conns, link[d] = OnConn(c),
           NEW x \in Conns, Connected(x), conn[x].device = d, conn[x].peer
    PROVE  x = c
<1>1. link[d] = OnConn(x)
  BY DEF TypeOK
<1> QED
  BY <1>1 DEF OnConn

\* The client goes; a client that restarts takes up its cursor file.
LEMMA LoseInv ==
    ASSUME HubInv, TypeOK', NEW d \in Devices, Break(d) \/ RestartClient(d)
    PROVE  HubInv'
<1>0. /\ TypeOK /\ Lose(d) /\ errors \in Nat /\ breaks \in Nat /\ last_id \in Nat
      /\ cursor \in [Devices -> 0..last_id] /\ stored \in [Devices -> 0..last_id]
  <2>1. TypeOK /\ Lose(d)
    BY DEF HubInv, Break, RestartClient
  <2>2. /\ errors \in Nat /\ breaks \in Nat /\ last_id \in Nat
        /\ cursor \in [Devices -> 0..last_id] /\ stored \in [Devices -> 0..last_id]
    BY <2>1 DEF TypeOK
  <2> QED
    BY <2>1, <2>2
<1>1. PICK c \in Conns, k \in OpenConn :
             /\ link[d] = OnConn(c)
             /\ Connected(c) /\ conn[c].device = d /\ conn[c].peer
             /\ conn' = [conn EXCEPT ![c] = k]
             /\ k.step = conn[c].step /\ k.device = d
             /\ k.peer = FALSE /\ k.last_sent = conn[c].last_sent
             /\ k.rest = conn[c].rest /\ k.inbox = conn[c].inbox
             /\ wire' = [wire EXCEPT ![c] = <<>>]
  BY <1>0, LoseEffect
<1>2. /\ breaks' = breaks + 1
      /\ UNCHANGED <<last_id, sender, users, stored, received, errors, missed>>
      /\ cursor' = cursor \/ cursor' = [cursor EXCEPT ![d] = stored[d]]
  BY Zenon DEF Break, RestartClient, Lose, rowVars
<1>3. /\ conn'[c] = k /\ \A x \in Conns \ {c} : conn'[x] = conn[x] /\ wire'[x] = wire[x]
      /\ \A x \in Conns : Connected(x) => Connected(x)'
      /\ wire'[c] = <<>> /\ SameConn(c)
  <2>1. conn \in [Conns -> ConnState] /\ wire \in [Conns -> Seq(Ids)]
    BY <1>0 DEF TypeOK
  <2>2. conn'[c] = k /\ wire'[c] = <<>>
        /\ \A x \in Conns \ {c} : conn'[x] = conn[x] /\ wire'[x] = wire[x]
    BY <1>1, <2>1
  <2> QED
    BY <1>1, <2>2 DEF Connected, SameConn
<1>4. MissedGrows /\ last_id' >= last_id /\ \A p \in Senders : SenderInv(p)'
  BY <1>0, <1>2, <1>3, SendersIdle DEF MissedGrows
<1>5. ASSUME NEW x \in Conns PROVE ConnInv(x)' /\ WireInv(x)' /\ FollowInv(x)'
  <2>1. UnderwayKept(x)
    BY <1>2, UnderwaySame
  <2>2. CASE x = c
    <3>1. ConnInv(c)'
      BY <1>2, <1>3, <1>4, <2>1, <2>2, ConnKept
    <3>2. ~conn'[c].peer
      BY <1>1, <1>3
    <3> QED
      BY <1>3, <2>2, <3>1, <3>2 DEF WireInv, FollowInv
  <2>3. CASE x # c
    <3>1. conn'[x] = conn[x] /\ wire'[x] = wire[x]
      BY <1>3, <2>3
    <3>2. SameConn(x) /\ (Connected(x)' => Connected(x)) /\ conn'[x].peer = conn[x].peer
      BY <3>1 DEF SameConn, Connected
    <3>3. Connected(x) /\ conn[x].peer => cursor'[conn[x].device] = cursor[conn[x].device]
      <4> SUFFICES ASSUME Connected(x), conn[x].peer
                   PROVE  cursor'[conn[x].device] = cursor[conn[x].device]
        OBVIOUS
      <4>1. conn[x].device # d
        BY <1>0, <1>1, <2>3, OneConn
      <4>2. conn[x].device \in Devices
        BY <1>0, ConnType DEF OpenConn
      <4> QED
        BY <1>0, <1>2, <4>1, <4>2
    <3>4. received' = received /\ users' = users
      BY <1>2
    <3>5. ConnInv(x)'
      BY <1>4, <2>1, <3>2, <3>4, ConnKept
    <3>6. WireInv(x)'
      BY <3>1, <3>2, WireKept
    <3>7. FollowInv(x)'
      BY <1>4, <3>1, <3>2, <3>3, <3>4, FollowKept
    <3> QED
      BY <3>5, <3>6, <3>7
  <2> QED
    BY <2>2, <2>3
<1>6. ReceivedOnce' /\ GapsAreExplained' /\ \A e \in Devices : CursorInv(e)'
  <2>1. CASE cursor' = cursor
    <3>1. errors' >= errors /\ breaks' >= breaks
      BY <1>0, <1>2
    <3> QED
      BY <1>2, <1>4, <2>1, <3>1, DevicesKept
  <2>2. CASE cursor' = [cursor EXCEPT ![d] = stored[d]]
    <3>1. /\ \A e \in Devices \ {d} : cursor'[e] = cursor[e]
          /\ cursor'[d] = stored[d] /\ breaks' > 0 /\ \A e \in Devices : CursorInv(e)
      BY <1>0, <1>2, <2>2 DEF HubInv
    <3>2. \A e \in Devices : cursor[e] \in Nat /\ stored[e] \in Nat /\ cursor'[e] \in Nat
                             /\ cursor'[e] <= cursor[e]
      BY <1>0, <3>1 DEF CursorInv
    <3>3. ReceivedOnce'
      BY <1>2, <3>1 DEF HubInv, ReceivedOnce
    <3>4. GapsAreExplained'
      <4> SUFFICES ASSUME NEW e \in Devices, NEW m \in 1..cursor'[e], received[e][m] = 0
                   PROVE  m \in missed[e]
        BY <1>2 DEF GapsAreExplained
      <4>1. m \in 1..cursor[e]
        BY <3>2
      <4> QED
        BY <4>1 DEF HubInv, GapsAreExplained
    <3>5. ASSUME NEW e \in Devices PROVE CursorInv(e)'
      <4>1. /\ stored[e] <= cursor[e] /\ (stored[e] < cursor[e] => errors > 0)
            /\ \A m \in Ids : received[e][m] > 0 /\ m > cursor[e] => errors > 0
        BY <3>1 DEF CursorInv
      <4>2. stored[e] <= cursor'[e] /\ (stored[e] < cursor'[e] => errors > 0)
        BY <3>1, <3>2, <4>1
      <4>3. ASSUME NEW m \in Ids, received[e][m] > 0, m > cursor'[e] PROVE errors > 0
        <5>1. m \in Nat
          BY HubAssumption DEF Ids
        <5>2. CASE m > cursor[e]
          BY <4>1, <4>3, <5>2
        <5>3. CASE m <= cursor[e]
          <6>1. cursor'[e] # cursor[e]
            BY <3>2, <4>3, <5>1, <5>3
          <6>2. cursor'[e] = stored[e]
            BY <3>1, <6>1
          <6> QED
            BY <3>2, <4>1, <6>1, <6>2
        <5> QED
          BY <3>2, <5>1, <5>2, <5>3
      <4> QED
        BY <1>2, <3>1, <4>2, <4>3 DEF CursorInv
    <3> QED
      BY <3>3, <3>4, <3>5
  <2> QED
    BY <1>2, <2>1, <2>2
<1> QED
  BY <1>4, <1>5, <1>6 DEF HubInv

\* The client receives a message above its cursor.  It observed that message
\* before only if it restarted from a file it had failed to write.
LEMMA ReceiveInv ==
    ASSUME HubInv, TypeOK', NEW d \in Devices, Receive(d)
    PROVE  HubInv'
<1>1. PICK c \in Conns, m \in Ids :
             /\ link[d] = OnConn(c) /\ Connected(c) /\ conn[c].device = d /\ conn[c].peer
             /\ wire[c] # <<>> /\ m = Head(wire[c]) /\ m > cursor[d]
             /\ received' = [received EXCEPT ![d][m] = @ + 1]
             /\ cursor' = [cursor EXCEPT ![d] = m]
             /\ \/ stored' = [stored EXCEPT ![d] = m] /\ errors' = errors
                \/ stored' = stored /\ errors' = errors + 1
             /\ wire' = [wire EXCEPT ![c] = Tail(wire[c])]
             /\ UNCHANGED <<rowVars, sender, users, conn, link, breaks, crashes, missed>>
  BY ReceiveEffect
<1>2. /\ UNCHANGED <<last_id, sender, users, conn, breaks, missed>>
  BY <1>1 DEF rowVars
<1> DEFINE w == wire[c]
<1>0. /\ TypeOK /\ WireInv(c) /\ FollowInv(c) /\ errors \in Nat /\ breaks \in Nat
      /\ last_id \in Nat /\ w \in Seq(Ids) /\ Len(w) \in Nat \ {0} /\ conn[c].last_sent \in Nat
  <2>1. TypeOK /\ WireInv(c) /\ FollowInv(c)
    BY DEF HubInv
  <2>2. /\ errors \in Nat /\ breaks \in Nat /\ last_id \in Nat /\ w \in Seq(Ids)
    BY <2>1 DEF TypeOK
  <2>3. conn[c].last_sent \in Nat
    BY <1>1, <2>1, ConnType DEF OpenConn
  <2> QED
    BY <1>1, <2>1, <2>2, <2>3, LenProperties, EmptySeq
<1>3. /\ wire'[c] = Tail(w) /\ \A x \in Conns \ {c} : wire'[x] = wire[x]
      /\ cursor'[d] = m /\ \A e \in Devices \ {d} : cursor'[e] = cursor[e]
      /\ \A e \in Devices \ {d} : stored'[e] = stored[e]
      /\ \/ stored'[d] = m /\ errors' = errors
         \/ stored'[d] = stored[d] /\ errors' = errors + 1
  <2>1. cursor \in [Devices -> 0..last_id] /\ wire \in [Conns -> Seq(Ids)]
        /\ stored \in [Devices -> 0..last_id]
    BY <1>0 DEF TypeOK
  <2>2. wire'[c] = Tail(w) /\ \A x \in Conns \ {c} : wire'[x] = wire[x]
    BY <1>1, <2>1
  <2>3. cursor'[d] = m /\ \A e \in Devices \ {d} : cursor'[e] = cursor[e]
    BY <1>1, <2>1
  <2>4. CASE stored' = [stored EXCEPT ![d] = m] /\ errors' = errors
    BY <2>1, <2>2, <2>3, <2>4
  <2>5. CASE stored' = stored /\ errors' = errors + 1
    BY <2>2, <2>3, <2>5
  <2> QED
    BY <1>1, <2>4, <2>5
<1>4. /\ \A e \in Devices \ {d} : received'[e] = received[e]
      /\ received'[d][m] = received[d][m] + 1
      /\ \A l \in Ids \ {m} : received'[d][l] = received[d][l]
      /\ \A e \in Devices, l \in Ids : received[e][l] \in Nat
  <2>1. received \in [Devices -> [Ids -> Nat]]
    BY <1>0 DEF TypeOK
  <2>2. received' = [received EXCEPT ![d][m] = @ + 1]
    BY <1>1
  <2>3. received'[d] = [received[d] EXCEPT ![m] = @ + 1]
        /\ \A e \in Devices \ {d} : received'[e] = received[e]
    BY <2>1, <2>2
  <2> QED
    BY <2>1, <2>3
<1>5. /\ \A l \in Ids : l \in Nat
      /\ \A e \in Devices : cursor[e] \in Nat /\ stored[e] \in Nat /\ CursorInv(e)
      /\ (errors > 0 => errors' > 0) /\ breaks' = breaks
  <2>1. \A l \in Ids : l \in Nat
    BY HubAssumption DEF Ids
  <2>2. \A e \in Devices : cursor[e] \in Nat /\ stored[e] \in Nat /\ CursorInv(e)
    <3>1. cursor \in [Devices -> 0..last_id] /\ stored \in [Devices -> 0..last_id]
      BY <1>0 DEF TypeOK
    <3> QED
      BY <1>0, <3>1 DEF HubInv
  <2> QED
    BY <1>0, <1>2, <1>3, <2>1, <2>2
<1>6. /\ m = w[1] /\ Len(Tail(w)) = Len(w) - 1
      /\ \A i \in 1..(Len(w) - 1) : Tail(w)[i] = w[i + 1]
  <2>1. w # <<>> /\ m = Head(w)
    BY <1>1
  <2> QED
    BY <1>0, <2>1, HeadTailProperties
<1>7. /\ \A i, j \in 1..Len(w) : i < j => w[i] < w[j]
      /\ \A i \in 1..Len(w) : w[i] <= conn[c].last_sent /\ w[i] \in Nat
      /\ \A l \in Ids : l <= conn[c].last_sent =>
            received[d][l] > 0 \/ l \in missed[d] \/ \E i \in 1..Len(w) : w[i] = l
  <2>1. \A i \in 1..Len(w) : w[i] \in Nat
    BY <1>0, <1>5
  <2>2. /\ \A i, j \in 1..Len(w) : i < j => w[i] < w[j]
        /\ \A i \in 1..Len(w) : w[i] <= conn[c].last_sent
    BY <1>0 DEF WireInv
  <2>3. \A l \in Ids : l <= conn[c].last_sent =>
            received[d][l] > 0 \/ l \in missed[d] \/ \E i \in 1..Len(w) : w[i] = l
    BY <1>0, <1>1 DEF FollowInv, OnWire
  <2> QED
    BY <2>1, <2>2, <2>3
<1> HIDE DEF w
\* Up to the frame that is received everything was observed or passed over.
<1>8. ASSUME NEW l \in Ids, l <= m
      PROVE  received'[d][l] > 0 \/ l \in missed[d]
  <2>1. CASE l = m
    BY <1>4, <2>1
  <2>2. CASE l # m
    <3>1. l < m /\ l <= conn[c].last_sent
      <4>1. 1 \in 1..Len(w)
        BY <1>0
      <4>2. m <= conn[c].last_sent
        BY <1>6, <1>7, <4>1
      <4> QED
        BY <1>0, <1>5, <1>8, <2>2, <4>2
    <3>2. ASSUME NEW i \in 1..Len(w), w[i] = l PROVE FALSE
      <4>1. 1 \in 1..Len(w) /\ (i = 1 \/ 1 < i)
        BY <1>0
      <4>2. i # 1
        BY <1>6, <2>2, <3>2
      <4>3. w[1] < w[i]
        BY <1>7, <4>1, <4>2
      <4> QED
        BY <1>5, <1>6, <3>1, <3>2, <4>3
    <3>3. received[d][l] > 0 \/ l \in missed[d]
      BY <1>7, <3>1, <3>2
    <3> QED
      BY <1>4, <2>2, <3>3
  <2> QED
    BY <2>1, <2>2
<1>9. ReceivedOnce'
  <2> SUFFICES ASSUME NEW e \in Devices, NEW l \in Ids, received'[e][l] > 1
               PROVE  errors' > 0 /\ breaks' > 0
    BY DEF ReceivedOnce
  <2>1. CASE e = d /\ l = m
    <3>1. received[d][m] > 0
      BY <1>4, <2>1
    <3> QED
      BY <1>1, <1>5, <3>1 DEF CursorInv
  <2>2. CASE e # d \/ l # m
    <3>1. received[e][l] > 1
      BY <1>4, <2>2
    <3> QED
      BY <1>5, <3>1 DEF HubInv, ReceivedOnce
  <2> QED
    BY <2>1, <2>2
<1>10. GapsAreExplained'
  <2> SUFFICES ASSUME NEW e \in Devices, NEW l \in 1..cursor'[e], received'[e][l] = 0
               PROVE  l \in missed[e]
    BY <1>2 DEF GapsAreExplained
  <2>1. CASE e = d
    <3>1. l \in Ids /\ l <= m
      BY <1>3, <1>5, <2>1, HubAssumption DEF Ids
    <3>2. ~(received'[d][l] > 0)
      BY <2>1
    <3> QED
      BY <1>8, <2>1, <3>1, <3>2
  <2>2. CASE e # d
    BY <1>3, <1>4, <2>2 DEF HubInv, GapsAreExplained
  <2> QED
    BY <2>1, <2>2
<1>11. ASSUME NEW e \in Devices PROVE CursorInv(e)'
  <2>1. CASE e = d
    <3>1. stored[d] <= cursor[d] /\ (stored[d] < cursor[d] => errors > 0)
          /\ \A l \in Ids : received[d][l] > 0 /\ l > cursor[d] => errors > 0 /\ breaks > 0
      BY <1>5 DEF CursorInv
    <3>2. stored'[d] <= cursor'[d] /\ (stored'[d] < cursor'[d] => errors' > 0)
      BY <1>0, <1>1, <1>3, <1>5, <3>1
    <3>3. ASSUME NEW l \in Ids, received'[d][l] > 0, l > m
          PROVE  errors' > 0 /\ breaks' > 0
      <4>1. received[d][l] > 0
        BY <1>4, <1>5, <3>3
      <4>2. l > cursor[d]
        BY <1>1, <1>5, <3>3
      <4> QED
        BY <1>5, <3>1, <4>1, <4>2
    <3> QED
      BY <1>3, <2>1, <3>2, <3>3 DEF CursorInv
  <2>2. CASE e # d
    <3>1. cursor'[e] = cursor[e] /\ stored'[e] = stored[e] /\ received'[e] = received[e]
      BY <1>3, <1>4, <2>2
    <3> QED
      BY <1>5, <3>1 DEF CursorInv
  <2> QED
    BY <2>1, <2>2
<1>12. WireInv(c)' /\ FollowInv(c)'
  <2> DEFINE v == Tail(w)
  <2>1. \A i \in 1..Len(v) : i + 1 \in 1..Len(w) /\ v[i] = w[i + 1] /\ 1 \in 1..Len(w)
    BY <1>0, <1>6
  <2>2. wire'[c] = v /\ conn' = conn /\ cursor'[d] = m /\ missed' = missed
    BY <1>2, <1>3
  <2> HIDE DEF v
  <2>3. ASSUME NEW i \in 1..Len(v), NEW j \in 1..Len(v), i < j PROVE v[i] < v[j]
    <3>1. i + 1 < j + 1
      BY <2>3
    <3> QED
      BY <1>7, <2>1, <3>1
  <2>4. ASSUME NEW i \in 1..Len(v) PROVE v[i] <= conn[c].last_sent /\ m < v[i]
    <3>1. 1 < i + 1
      OBVIOUS
    <3> QED
      BY <1>6, <1>7, <2>1, <3>1
  <2>5. WireInv(c)'
    <3>1. Connected(c)' <=> Connected(c)
      BY <2>2 DEF Connected
    <3> QED
      BY <1>1, <2>2, <2>3, <2>4, <3>1 DEF WireInv
  <2>6. m <= conn[c].last_sent
    <3>1. 1 \in 1..Len(w)
      BY <1>0
    <3> QED
      BY <1>6, <1>7, <3>1
  <2>7. ASSUME NEW l \in Ids, l <= conn[c].last_sent
        PROVE  received'[d][l] > 0 \/ l \in missed[d] \/ \E i \in 1..Len(v) : v[i] = l
    <3>1. CASE l <= m
      BY <1>8, <3>1
    <3>2. CASE l > m
      <4>1. CASE received[d][l] > 0
        BY <1>4, <1>5, <3>2, <4>1
      <4>2. CASE \E i \in 1..Len(w) : w[i] = l
        <5>1. PICK i \in 1..Len(w) : w[i] = l
          BY <4>2
        <5>2. i # 1
          BY <1>5, <1>6, <3>2, <5>1
        <5>3. i - 1 \in 1..(Len(w) - 1) /\ (i - 1) + 1 = i
          BY <1>0, <5>2
        <5>4. i - 1 \in 1..Len(v) /\ v[i - 1] = l
          BY <1>6, <5>1, <5>3 DEF v
        <5> QED
          BY <5>4
      <4> QED
        BY <1>7, <2>7, <4>1, <4>2
    <3> QED
      BY <1>5, <3>1, <3>2
  <2>8. FollowInv(c)'
    BY <1>1, <2>2, <2>4, <2>6, <2>7 DEF FollowInv, OnWire
  <2> QED
    BY <2>5, <2>8
<1>13. MissedGrows /\ last_id' >= last_id
  BY <1>0, <1>2 DEF MissedGrows
<1>14. ASSUME NEW x \in Conns PROVE ConnInv(x)' /\ WireInv(x)' /\ FollowInv(x)'
  <2>1. SameConn(x) /\ (Connected(x)' => Connected(x)) /\ conn'[x] = conn[x]
    BY <1>2 DEF SameConn, Connected
  <2>2. UnderwayKept(x)
    BY <1>2, UnderwaySame
  <2>3. ConnInv(x)'
    BY <1>2, <1>13, <2>1, <2>2, ConnKept
  <2>4. CASE x = c
    BY <1>12, <2>3, <2>4
  <2>5. CASE x # c
    <3>1. wire'[x] = wire[x]
      BY <1>3, <2>5
    <3>2. WireInv(x)'
      BY <2>1, <3>1, WireKept
    <3>3. FollowInv(x)'
      <4>1. CASE Connected(x) /\ conn[x].peer
        <5>1. conn[x].device # d /\ conn[x].device \in Devices
          BY <1>0, <1>1, <2>5, <4>1, OneConn, ConnType DEF OpenConn
        <5>2. /\ cursor'[conn[x].device] = cursor[conn[x].device]
              /\ \A e \in Devices : e = conn[x].device => received'[e] = received[e]
          BY <1>3, <1>4, <5>1
        <5> QED
          BY <1>13, <2>1, <3>1, <5>2, FollowKept
      <4>2. CASE ~(Connected(x) /\ conn[x].peer)
        BY <2>1, <4>2 DEF FollowInv
      <4> QED
        BY <4>1, <4>2
    <3> QED
      BY <2>3, <3>2, <3>3
  <2> QED
    BY <2>4, <2>5
<1>15. \A p \in Senders : SenderInv(p)'
  <2>1. \A x \in Conns : Connected(x) => Connected(x)'
    BY <1>2 DEF Connected
  <2> QED
    BY <1>2, <2>1, SendersIdle
<1> QED
  BY <1>9, <1>10, <1>11, <1>14, <1>15 DEF HubInv

\* The server dies: what is left are the rows and what the devices know.
LEMMA CrashInv ==
    ASSUME HubInv, TypeOK', Crash
    PROVE  HubInv'
<1>1. /\ \A p \in Senders : sender'[p] = Idle
      /\ \A c \in Conns : ~Connected(c)' /\ wire'[c] = <<>>
      /\ UNCHANGED <<cursor, stored, received, breaks, errors, missed>>
  BY DEF Crash, Connected, NoConn
<1>2. \A p \in Senders : SenderInv(p)'
  BY <1>1 DEF SenderInv, Idle
<1>3. \A c \in Conns : ConnInv(c)' /\ WireInv(c)' /\ FollowInv(c)'
  BY <1>1 DEF ConnInv, WireInv, FollowInv
<1>4. ReceivedOnce' /\ GapsAreExplained' /\ \A d \in Devices : CursorInv(d)'
  <2>1. MissedGrows /\ errors' >= errors /\ breaks' >= breaks
    BY <1>1 DEF MissedGrows, HubInv, TypeOK
  <2> QED
    BY <1>1, <2>1, DevicesKept
<1> QED
  BY <1>2, <1>3, <1>4 DEF HubInv

\* A step that changes nothing keeps everything.
LEMMA StutterInv ==
    ASSUME HubInv, UNCHANGED vars
    PROVE  HubInv'
<1>1. /\ UNCHANGED <<last_id, delivered, redeliveries, sender, users, conn, wire, link, cursor>>
      /\ UNCHANGED <<stored, received, breaks, errors, crashes, missed>>
  BY DEF vars, rowVars, clientVars, faultVars
<1>2. TypeOK'
  BY <1>1, Zenon DEF HubInv, TypeOK, Connected
<1>3. MissedGrows /\ last_id' >= last_id /\ errors' >= errors /\ breaks' >= breaks
  BY <1>1 DEF MissedGrows, HubInv, TypeOK
<1>4. ASSUME NEW c \in Conns PROVE ConnInv(c)' /\ WireInv(c)' /\ FollowInv(c)'
  <2>1. SameConn(c) /\ (Connected(c)' => Connected(c)) /\ conn'[c].peer = conn[c].peer
    BY <1>1 DEF SameConn, Connected
  <2>2. UnderwayKept(c)
    BY <1>1, UnderwaySame
  <2> QED
    BY <1>1, <1>2, <1>3, <2>1, <2>2, ConnKept, WireKept, FollowKept
<1>5. \A p \in Senders : SenderInv(p)'
  <2>1. \A c \in Conns : Connected(c) => Connected(c)'
    BY <1>1 DEF Connected
  <2> QED
    BY <1>1, <2>1, SendersIdle
<1>6. ReceivedOnce' /\ GapsAreExplained' /\ \A d \in Devices : CursorInv(d)'
  BY <1>1, <1>2, <1>3, DevicesKept
<1> QED
  BY <1>2, <1>4, <1>5, <1>6 DEF HubInv

\* Every step keeps the invariant.
LEMMA NextInv ==
    ASSUME HubInv, [Next]_vars
    PROVE  HubInv'
<1>1. ASSUME Next PROVE HubInv'
  <2>0. TypeOK'
    BY <1>1, NextType
  <2>1. ASSUME NEW p \in Senders,
               Ingest(p) \/ Publishing(p) \/ \E m \in Ids : Redeliver(p, m)
        PROVE  HubInv'
    BY <2>0, <2>1, PublishInv, OfferInv DEF Publishing
  <2>2. ASSUME NEW c \in Conns, Serving(c) \/ ReadPageFails(c)
        PROVE  HubInv'
    BY <2>0, <2>2, PageInv, FrameInv, LeaveInv DEF Serving
  <2>3. ASSUME NEW d \in Devices, Following(d) \/ Break(d) \/ RestartClient(d)
        PROVE  HubInv'
    BY <2>0, <2>3, ReceiveInv, ConnectInv, LoseInv DEF Following
  <2> QED
    BY <1>1, <2>0, <2>1, <2>2, <2>3, CrashInv DEF Next
<1> QED
  BY <1>1, StutterInv

-----------------------------------------------------------------------------
(* The theorems.                                                           *)

\* HubInv is an invariant of the program (hub.go, ws.go, desktop ws.rs).
THEOREM HubInvariant == Spec => []HubInv
<1>1. HubInv /\ [Next]_vars => HubInv'
  BY NextInv
<1> QED
  BY InitInv, <1>1, PTL DEF Spec

\* Every variable has its type; a device and its connection agree, and only
\* connections that are there are registered (hub.go subscribe, unsubscribe).
THEOREM HubTypeCorrect == Spec => []TypeOK
<1>1. HubInv => TypeOK
  BY DEF HubInv
<1> QED
  BY <1>1, HubInvariant, PTL

\* No device observes a message twice unless its process restarted from a cursor
\* file it had failed to write (ws.go lastSent, desktop Cursor::observe).
THEOREM ObservedOnce == Spec => []ReceivedOnce
<1>1. HubInv => ReceivedOnce
  BY DEF HubInv
<1> QED
  BY <1>1, HubInvariant, PTL

\* What a cursor has passed without observing it, the server passed over: a page
\* cut short or not read, a full inbox, a higher id published first (hub.go
\* Publish, ws.go ServeWS).
THEOREM NoOtherGap == Spec => []GapsAreExplained
<1>1. HubInv => GapsAreExplained
  BY DEF HubInv
<1> QED
  BY <1>1, HubInvariant, PTL
=============================================================================
