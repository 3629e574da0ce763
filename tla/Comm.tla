-------------------------------- MODULE Comm --------------------------------
(***************************************************************************)
(* The in-memory channel registry of one server process, internal/comm,    *)
(* with the goroutines of internal/server and internal/handlers that call  *)
(* it.  Every accepted connection owns two goroutines: "main"              *)
(* (handleConnection: InitConn, then the read loop) and "writer"           *)
(* (handleExternalMessages: drains the channel, then onConnectionClose).   *)
(* Both run user code, whose SEND_MESSAGE and SERVER_MESSAGE handlers call *)
(* UserOnSameNode and SendEvent.                                           *)
(*                                                                         *)
(* A step is a critical section, or a channel operation outside of one.    *)
(* Only CloseConn keeps the global mutex mu over several steps, so mu is a *)
(* variable; a room's own mutex is taken and released within one step.     *)
(*                                                                         *)
(* A connection is accepted once and calls InitConn once, so whatever that *)
(* call allocates (a CommRoom, a channel, a connection id) is named by the *)
(* connection.                                                             *)
(***************************************************************************)
EXTENDS Naturals, Sequences, FiniteSets

CONSTANTS
  Conns,      \* the connections this process ever accepts
  Rooms,      \* the compound keys "instance:room"
  RoomOf,     \* the room key of a connection, the path of its URL
  ChanSize,   \* CHAN_SIZE, the buffer of a channel
  Talkers,    \* the goroutines whose user code ever sends a message
  Attentive,  \* the connections no write to which blocks for ever
  None        \* a nil pointer, an absent map entry, a free mutex

ASSUME CommAssumption ==
  /\ RoomOf \in [Conns -> Rooms]
  /\ ChanSize \in Nat \ {0}
  /\ Talkers \subseteq Conns \X {"main", "writer"}
  /\ Attentive \subseteq Conns
  /\ None \notin Conns

VARIABLES
  commMap,    \* room key -> CommRoom
  conns,      \* CommRoom -> (connection id -> channel)
  closed,     \* channel -> has close() been called
  buf,        \* channel -> buffered events
  mu,         \* the connection whose CloseConn holds mu, or None
  id,         \* connection -> its connId, None before CheckUserID
  saved,      \* connection -> has LeaveRoom stored its id for reconnection
  own,        \* connection -> the channel InitConn returned
  main,       \* connection -> where its handleConnection is
  writer,     \* connection -> where its handleExternalMessages is
  op,         \* goroutine -> where its message handler is, "none" outside
  ref,        \* goroutine -> its local "room" pointer
  chan,       \* goroutine -> its local "userChan"
  dst         \* goroutine -> DstConn of the event it sends

vars == <<commMap, conns, closed, buf, mu, id, saved, own, main, writer,
          op, ref, chan, dst>>

Threads == Conns \X {"main", "writer"}
Main(c) == <<c, "main">>
Writer(c) == <<c, "writer">>

Ptr == Conns \cup {None}
Address(k, i) == [room |-> k, id |-> i]
Addresses == [room : Rooms, id : Conns]
Event == [src : Conns, to : Addresses]

MainPC == {"new", "attach", "joined", "run", "done"}
WriterPC == {"none", "serve", "leaving", "close", "drop", "prune", "keep",
             "done"}
OpPC == {"none", "ask", "asked", "find", "found", "send"}

(* Type invariant. *)
TypeOK ==
  /\ commMap \in [Rooms -> Ptr]
  /\ conns \in [Conns -> [Conns -> Ptr]]
  /\ closed \in [Conns -> BOOLEAN]
  /\ buf \in [Conns -> Seq(Event)]
  /\ mu \in Ptr
  /\ id \in [Conns -> Ptr]
  /\ saved \in [Conns -> BOOLEAN]
  /\ own \in [Conns -> Ptr]
  /\ main \in [Conns -> MainPC]
  /\ writer \in [Conns -> WriterPC]
  /\ op \in [Threads -> OpPC]
  /\ ref \in [Threads -> Ptr]
  /\ chan \in [Threads -> Ptr]
  /\ dst \in [Threads -> Ptr]

Init ==
  /\ commMap = [k \in Rooms |-> None]
  /\ conns = [r \in Conns |-> [i \in Conns |-> None]]
  /\ closed = [h \in Conns |-> FALSE]
  /\ buf = [h \in Conns |-> <<>>]
  /\ mu = None
  /\ id = [c \in Conns |-> None]
  /\ saved = [c \in Conns |-> FALSE]
  /\ own = [c \in Conns |-> None]
  /\ main = [c \in Conns |-> "new"]
  /\ writer = [c \in Conns |-> "none"]
  /\ op = [t \in Threads |-> "none"]
  /\ ref = [t \in Threads |-> None]
  /\ chan = [t \in Threads |-> None]
  /\ dst = [t \in Threads |-> None]

-----------------------------------------------------------------------------
(* Connection establishment.                                               *)

(* The ids CheckUserID and uuid.NewV7 can give c: a new one, or that of an *)
(* earlier connection to the room whose reconnection key is stored.  The   *)
(* key is per IP address; connections that hand an id on share the address *)
(* and therefore always store the same id, so the address can be left out. *)
(* The key's TTL only takes the second choice away.                        *)
PossibleIds(c) ==
  {c} \cup {id[d] : d \in {e \in Conns : saved[e] /\ RoomOf[e] = RoomOf[c]}}

(* InitConn up to mu.Unlock: find the room, or create and register it. *)
InitLookup(c) ==
  /\ main[c] = "new"
  /\ mu = None
  /\ \E i \in PossibleIds(c) : id' = [id EXCEPT ![c] = i]
  /\ LET k == RoomOf[c]
         room == IF commMap[k] = None THEN c ELSE commMap[k]
     IN  /\ commMap' = [commMap EXCEPT ![k] = room]
         /\ ref' = [ref EXCEPT ![Main(c)] = room]
  /\ main' = [main EXCEPT ![c] = "attach"]
  /\ UNCHANGED <<conns, closed, buf, mu, saved, own, writer, op, chan, dst>>

(* InitConn under room.mu: reuse the id's channel, or make one. *)
InitAttach(c) ==
  /\ main[c] = "attach"
  /\ LET room == ref[Main(c)]
         ch == IF conns[room][id[c]] = None THEN c ELSE conns[room][id[c]]
     IN  /\ conns' = [conns EXCEPT ![room][id[c]] = ch]
         /\ own' = [own EXCEPT ![c] = ch]
  /\ ref' = [ref EXCEPT ![Main(c)] = None]
  /\ main' = [main EXCEPT ![c] = "joined"]
  /\ UNCHANGED <<commMap, closed, buf, mu, id, saved, writer, op, chan, dst>>

(* JoinRoom or UpgradeHTTP fails: handleConnection returns, nothing is     *)
(* undone.                                                                 *)
Abandon(c) ==
  /\ main[c] = "joined"
  /\ main' = [main EXCEPT ![c] = "done"]
  /\ UNCHANGED <<commMap, conns, closed, buf, mu, id, saved, own, writer, op,
                 ref, chan, dst>>

(* The connection is upgraded; user code runs from here on. *)
Upgrade(c) ==
  /\ main[c] = "joined"
  /\ main' = [main EXCEPT ![c] = "run"]
  /\ UNCHANGED <<commMap, conns, closed, buf, mu, id, saved, own, writer, op,
                 ref, chan, dst>>

(* onJoin is over: "go handleExternalMessages". *)
StartWriter(c) ==
  /\ main[c] = "run" /\ op[Main(c)] = "none"
  /\ writer[c] = "none"
  /\ writer' = [writer EXCEPT ![c] = "serve"]
  /\ UNCHANGED <<commMap, conns, closed, buf, mu, id, saved, own, main, op,
                 ref, chan, dst>>

(* The read loop returns on a read error, a failed backoff write or a      *)
(* failed onMessage.                                                       *)
EndRead(c) ==
  /\ main[c] = "run" /\ op[Main(c)] = "none"
  /\ writer[c] # "none"
  /\ main' = [main EXCEPT ![c] = "done"]
  /\ UNCHANGED <<commMap, conns, closed, buf, mu, id, saved, own, writer, op,
                 ref, chan, dst>>

-----------------------------------------------------------------------------
(* SEND_MESSAGE and SERVER_MESSAGE handlers.                               *)

RunsUserCode(t) ==
  \/ t[2] = "main" /\ main[t[1]] = "run"
  \/ t[2] = "writer" /\ writer[t[1]] = "leaving"

(* The handler is called for a target; UserOnSameNode comes first. *)
SendBegin(t) ==
  /\ t \in Talkers /\ RunsUserCode(t)
  /\ op[t] = "none"
  /\ \E d \in Conns : dst' = [dst EXCEPT ![t] = d]
  /\ op' = [op EXCEPT ![t] = "ask"]
  /\ UNCHANGED <<commMap, conns, closed, buf, mu, id, saved, own, main,
                 writer, ref, chan>>

(* The handler returns, its local variables are gone. *)
Return(t) ==
  /\ op' = [op EXCEPT ![t] = "none"]
  /\ dst' = [dst EXCEPT ![t] = None]
  /\ ref' = [ref EXCEPT ![t] = None]
  /\ chan' = [chan EXCEPT ![t] = None]

(* Mutant: the room of the addressee, not of the sender. *)
AddresseeRoom(t) == RoomOf[dst[t]]
SenderRoom(t) == RoomOf[t[1]]

(* Read commMap under mu, in UserOnSameNode (from "ask") and in SendEvent  *)
(* (from "find").  No room: the handler publishes to Redis instead, or     *)
(* returns SendEvent's error.                                              *)
LookupRoom(t, from, to) ==
  /\ op[t] = from
  /\ mu = None
  /\ LET room == commMap[SenderRoom(t)]
     IN  \/ /\ room = None
            /\ Return(t)
         \/ /\ room # None
            /\ ref' = [ref EXCEPT ![t] = room]
            /\ op' = [op EXCEPT ![t] = to]
            /\ UNCHANGED <<dst, chan>>
  /\ UNCHANGED <<commMap, conns, closed, buf, mu, id, saved, own, main, writer>>

AskRoom(t) == LookupRoom(t, "ask", "asked")
FindRoom(t) == LookupRoom(t, "find", "found")

(* UserOnSameNode under room.mu: not here means publish to Redis. *)
AskConn(t) ==
  /\ op[t] = "asked"
  /\ \/ /\ conns[ref[t]][dst[t]] = None
        /\ Return(t)
     \/ /\ conns[ref[t]][dst[t]] # None
        /\ op' = [op EXCEPT ![t] = "find"]
        /\ ref' = [ref EXCEPT ![t] = None]
        /\ UNCHANGED <<dst, chan>>
  /\ UNCHANGED <<commMap, conns, closed, buf, mu, id, saved, own, main, writer>>

(* SendEvent under room.mu: fetch the channel, or fail. *)
FindChan(t) ==
  /\ op[t] = "found"
  /\ LET ch == conns[ref[t]][dst[t]]
     IN  \/ /\ ch = None
            /\ Return(t)
         \/ /\ ch # None
            /\ chan' = [chan EXCEPT ![t] = ch]
            /\ op' = [op EXCEPT ![t] = "send"]
            /\ UNCHANGED <<ref, dst>>
  /\ UNCHANGED <<commMap, conns, closed, buf, mu, id, saved, own, main, writer>>

(* Mutant: the event is built when the handler's locals are gone. *)
EventAfterReturn(t) == [src |-> t[1], to |-> Address(RoomOf[t[1]], dst'[t])]
EventOf(t) == [src |-> t[1], to |-> Address(RoomOf[t[1]], dst[t])]

(* Mutant: one event too many. *)
HasSpaceOffByOne(ch) == Len(buf[ch]) <= ChanSize
HasSpace(ch) == Len(buf[ch]) < ChanSize

(* SendEvent's select, with no lock held.  A closed channel panics, a full *)
(* one is the default case: neither leaves a trace here.                   *)
Send(t) ==
  /\ op[t] = "send"
  /\ Return(t)
  /\ LET ch == chan[t]
     IN  buf' = IF ~closed[ch] /\ HasSpace(ch)
                THEN [buf EXCEPT ![ch] = Append(@, EventOf(t))]
                ELSE buf
  /\ UNCHANGED <<commMap, conns, closed, mu, id, saved, own, main, writer>>

-----------------------------------------------------------------------------
(* The writer goroutine.                                                   *)

(* handleExternalMessages takes a CommEvent and writes it to the socket; a *)
(* closed channel still yields what it had buffered.  The write has no     *)
(* deadline: one that does not return is a writer that stays in "serve"    *)
(* without another step.                                                   *)
Receive(c) ==
  /\ writer[c] = "serve"
  /\ buf[own[c]] # <<>>
  /\ buf' = [buf EXCEPT ![own[c]] = Tail(@)]
  /\ UNCHANGED <<commMap, conns, closed, mu, id, saved, own, main, writer, op,
                 ref, chan, dst>>

(* handleExternalMessages returns into onConnectionClose, whose onLeave    *)
(* event runs user code.                                                   *)
EndServe(c) ==
  /\ writer' = [writer EXCEPT ![c] = "leaving"]
  /\ UNCHANGED <<commMap, conns, closed, buf, mu, id, saved, own, main, op,
                 ref, chan, dst>>

(* Mutant: the "ok" of the receive is not looked at. *)
NeverDrained(c) == FALSE
Drained(c) == closed[own[c]] /\ buf[own[c]] = <<>>

(* ... because the channel is closed and drained, *)
ChannelClosed(c) ==
  /\ writer[c] = "serve" /\ Drained(c)
  /\ EndServe(c)

(* ... or on a failed write, CLOSE_CONNECTION, or a closed Redis channel. *)
Disconnect(c) ==
  /\ writer[c] = "serve"
  /\ EndServe(c)

(* LeaveRoom: the reconnection key is stored, unless a Redis call failed.  *)
Leave(c) ==
  /\ writer[c] = "leaving" /\ op[Writer(c)] = "none"
  /\ \E ok \in BOOLEAN : saved' = [saved EXCEPT ![c] = ok]
  /\ writer' = [writer EXCEPT ![c] = "close"]
  /\ UNCHANGED <<commMap, conns, closed, buf, mu, id, own, main, op, ref, chan,
                 dst>>

(* Mutant: mu is unlocked as soon as the room is found. *)
LockBriefly(c) == UNCHANGED mu
Lock(c) == mu' = c

(* CloseConn: lock mu and find the room; without one, unlock and return. *)
CloseLookup(c) ==
  /\ writer[c] = "close"
  /\ mu = None
  /\ LET room == commMap[RoomOf[c]]
     IN  \/ /\ room = None
            /\ writer' = [writer EXCEPT ![c] = "done"]
            /\ UNCHANGED <<mu, ref>>
         \/ /\ room # None
            /\ Lock(c)
            /\ ref' = [ref EXCEPT ![Writer(c)] = room]
            /\ writer' = [writer EXCEPT ![c] = "drop"]
  /\ UNCHANGED <<commMap, conns, closed, buf, id, saved, own, main, op, chan,
                 dst>>

(* Mutants: the channel is closed and stays in the map; the id CheckUserID *)
(* recovered is not the one forgotten.                                     *)
ForgetNothing(c, room) == UNCHANGED conns
ForgetOwnName(c, room) == conns' = [conns EXCEPT ![room][c] = None]
Forget(c, room) == conns' = [conns EXCEPT ![room][id[c]] = None]

(* Mutant: the room's size is taken before the entry is forgotten. *)
WasEmpty(room) == \A i \in Conns : conns[room][i] = None
IsEmpty(room) == \A i \in Conns : conns'[room][i] = None

(* CloseConn under room.mu: close and forget the id's channel, and note    *)
(* whether the room is now empty.                                          *)
CloseDrop(c) ==
  /\ writer[c] = "drop"
  /\ LET room == ref[Writer(c)]
         ch == conns[room][id[c]]
     IN  /\ closed' = IF ch = None THEN closed ELSE [closed EXCEPT ![ch] = TRUE]
         /\ Forget(c, room)
         /\ writer' = [writer EXCEPT ![c] = IF IsEmpty(room) THEN "prune" ELSE "keep"]
  /\ UNCHANGED <<commMap, buf, mu, id, saved, own, main, op, ref, chan, dst>>

(* Mutant: mu stays locked when the room is kept. *)
UnlockIfPruned(c) == mu' = IF writer[c] = "prune" THEN None ELSE mu
Unlock(c) == mu' = None

(* CloseConn: forget a room found empty, and unlock mu. *)
ClosePrune(c) ==
  /\ writer[c] \in {"prune", "keep"}
  /\ commMap' = IF writer[c] = "prune"
                THEN [commMap EXCEPT ![RoomOf[c]] = None]
                ELSE commMap
  /\ Unlock(c)
  /\ ref' = [ref EXCEPT ![Writer(c)] = None]
  /\ writer' = [writer EXCEPT ![c] = "done"]
  /\ UNCHANGED <<conns, closed, buf, id, saved, own, main, op, chan, dst>>

-----------------------------------------------------------------------------
MessageStep(t) ==
  \/ AskRoom(t)
  \/ AskConn(t)
  \/ FindRoom(t)
  \/ FindChan(t)
  \/ Send(t)

ConnStep(c) ==
  \/ InitLookup(c)
  \/ InitAttach(c)
  \/ Abandon(c)
  \/ Upgrade(c)
  \/ StartWriter(c)
  \/ EndRead(c)
  \/ Receive(c)
  \/ ChannelClosed(c)
  \/ Disconnect(c)
  \/ Leave(c)
  \/ CloseLookup(c)
  \/ CloseDrop(c)
  \/ ClosePrune(c)

Next ==
  \/ \E c \in Conns : ConnStep(c)
  \/ \E t \in Threads : SendBegin(t) \/ MessageStep(t)

Spec == Init /\ [][Next]_vars

(* Goroutines are scheduled and sync.Mutex hands the lock to a waiter that *)
(* starves, so a call in progress goes on.  Clients owe nothing: they may  *)
(* never connect, speak or disconnect; nor does user code, which may wait  *)
(* in FetchHandler for ever.  A writer goes back to its channel only if    *)
(* its writes return, that is if the client is Attentive: it reads what it *)
(* is sent, or is gone and TCP gives it up.                                *)
CloseStep(c) == CloseLookup(c) \/ CloseDrop(c) \/ ClosePrune(c)

Fairness ==
  /\ \A t \in Talkers : SF_vars(MessageStep(t))
  /\ \A c \in Conns : /\ WF_vars(InitAttach(c))
                      /\ SF_vars(CloseStep(c))
  /\ \A c \in Attentive : WF_vars(Receive(c) \/ ChannelClosed(c))

FairSpec == Spec /\ Fairness

-----------------------------------------------------------------------------
(* Properties.                                                             *)

Registered(k, i) == commMap[k] # None /\ conns[commMap[k]][i] # None

(* A channel found in any CommRoom, registered or not, is open: two        *)
(* CloseConn calls never close a channel twice (close would panic), and a  *)
(* new connection is never handed a closed one, whatever ids are shared.   *)
NeverFindsClosed ==
  \A r, i \in Conns : conns[r][i] # None => ~closed[conns[r][i]]

(* c is inside an InitConn that will fill the registered room k, or inside *)
(* a CloseConn that will delete it.                                        *)
Minds(c, k) ==
  /\ RoomOf[c] = k
  /\ \/ main[c] = "attach" /\ ref[Main(c)] = commMap[k]
     \/ writer[c] = "prune"

(* The last one out deletes the room: a registered room without            *)
(* connections is either about to get one from a running InitConn or is    *)
(* being pruned by the CloseConn that emptied it.                          *)
EmptyRoomIsTransient ==
  \A k \in Rooms :
    (commMap[k] # None /\ \A i \in Conns : ~Registered(k, i)) =>
      \E c \in Conns : Minds(c, k)

(* c has taken the channel of id i in room k, and not yet given it up.     *)
Holds(c, k, i) ==
  /\ RoomOf[c] = k /\ id[c] = i
  /\ main[c] \notin {"new", "attach"}
  /\ writer[c] \notin {"prune", "keep", "done"}

(* What is reachable through commMap belongs to a connection that has not  *)
(* closed it: once every connection with an id is through CloseConn,       *)
(* UserOnSameNode no longer claims the id, even if it was shared.          *)
NoGhostEntry ==
  \A k \in Rooms, i \in Conns :
    Registered(k, i) => \E c \in Conns : Holds(c, k, i)

(* Through stale room and channel pointers, a message still only reaches   *)
(* connections of the sender's room that have the id it was sent to.       *)
ReaderIsAddressee ==
  \A c \in Conns :
    own[c] # None =>
      \A n \in DOMAIN buf[own[c]] :
        buf[own[c]][n].to = Address(RoomOf[c], id[c])

(* The registry implements a mailbox per channel, addressed by room and    *)
(* connection id.                                                          *)
Created(h) == own[h] = h
NoAddress == Address(None, None)
AddressOf(h) == IF Created(h) THEN Address(RoomOf[h], id[h]) ELSE NoAddress

Box == INSTANCE Mailbox WITH
  Boxes <- Conns,
  Addresses <- Addresses,
  Events <- Event,
  Capacity <- ChanSize,
  NoAddress <- NoAddress,
  addr <- [h \in Conns |-> AddressOf(h)],
  shut <- closed,
  queue <- buf

(* Every channel behaves as a mailbox: opened once for the room and id of  *)
(* the connection that made it, filled only with messages to them sent     *)
(* before it was closed, closed once.                                      *)
MailboxSpec == Box!Spec

(* The inductive invariant behind the safety properties.                   *)

(* h is a channel made for connection id i in room k. *)
ChannelFor(h, k, i) ==
  h \in Conns /\ own[h] = h /\ RoomOf[h] = k /\ id[h] = i

(* r is a CommRoom made for room k. *)
RoomFor(r, k) == r \in Conns /\ RoomOf[r] = k /\ main[r] # "new"

(* What the pointers of a goroutine inside a handler point to. *)
HeldInv(t) ==
  /\ RunsUserCode(t)
  /\ dst[t] \in Conns
  /\ op[t] \in {"asked", "found"} => RoomFor(ref[t], RoomOf[t[1]])
  /\ op[t] = "send" => ChannelFor(chan[t], RoomOf[t[1]], dst[t])

PointersInv == \A t \in Threads : op[t] # "none" => HeldInv(t)

(* What a connection has acquired at each point of its life. *)
ConnInv ==
  \A c \in Conns :
    /\ main[c] = "new" <=> id[c] = None
    /\ main[c] = "new" => \A i \in Conns : conns[c][i] = None
    /\ main[c] \in {"new", "attach"} <=> own[c] = None
    /\ main[c] = "attach" => RoomFor(ref[Main(c)], RoomOf[c])
    /\ own[c] # None => ChannelFor(own[c], RoomOf[c], id[c])
    /\ writer[c] # "none" => main[c] \in {"run", "done"}
    /\ saved[c] => id[c] # None
    /\ closed[c] => own[c] = c

(* mu protects commMap: what its holder looked up is still what it says. *)
MutexInv ==
  \A c \in Conns :
    writer[c] \in {"drop", "prune", "keep"} =>
      mu = c /\ ref[Writer(c)] = commMap[RoomOf[c]] /\ ref[Writer(c)] # None

(* A CommRoom holds open channels made for it, each in one place only. *)
RegistryInv ==
  /\ \A k \in Rooms : commMap[k] # None => RoomFor(commMap[k], k)
  /\ \A r, i \in Conns : conns[r][i] # None =>
       /\ ChannelFor(conns[r][i], RoomOf[r], i)
       /\ ~closed[conns[r][i]]
       /\ \A s \in Conns : conns[s][i] = conns[r][i] => s = r

BufferInv ==
  \A h \in Conns :
    /\ buf[h] # <<>> => own[h] = h
    /\ \A n \in DOMAIN buf[h] : buf[h][n].to = Address(RoomOf[h], id[h])

IInv ==
  /\ TypeOK
  /\ PointersInv
  /\ ConnInv
  /\ MutexInv
  /\ RegistryInv
  /\ BufferInv
  /\ EmptyRoomIsTransient
  /\ NoGhostEntry

(* No lock is kept and no lookup blocks for ever: every handler call and   *)
(* every CloseConn returns.                                                *)
CallsReturn ==
  /\ \A t \in Talkers : op[t] # "none" ~> op[t] = "none"
  /\ \A c \in Conns : writer[c] = "close" ~> writer[c] = "done"

(* A connection whose channel another one closed drains it, and is no      *)
(* longer served (Server takes its cleanup from there): if its client      *)
(* reads, whatever the other clients do.  One that stays connected and     *)
(* reads nothing can block its writer in a write for ever.                 *)
ClosedChannelEndsConnection ==
  \A c \in Attentive :
    (writer[c] = "serve" /\ closed[own[c]]) ~> writer[c] # "serve"

(* SendEvent reports a channel that cannot be sent to as an error          *)
(* ("channel full or unavailable"), so it never sends on a closed one.     *)
NoSendOnClosed ==
  \A t \in Threads : op[t] = "send" => ~closed[chan[t]]

(* The connections of a room use the registry to communicate: one that is  *)
(* being served is registered, under its id, with the channel it reads.    *)
ServedIsRegistered ==
  \A c \in Conns :
    (writer[c] = "serve" /\ ~closed[own[c]]) =>
      Registered(RoomOf[c], id[c]) /\ conns[commMap[RoomOf[c]]][id[c]] = own[c]

(* A new channel is initialized for each connection: no two of them read   *)
(* from the same one.                                                      *)
OwnChannel ==
  \A c, d \in Conns :
    (c # d /\ writer[c] = "serve" /\ writer[d] = "serve") => own[c] # own[d]
=============================================================================
