----------------------------- MODULE RoomPubSub -----------------------------
(***************************************************************************)
(* One room across the cluster, internal/redis: the set of user ids, the   *)
(* reconnection keys and the pub/sub channel that Redis keeps for it, the  *)
(* pubSub object of each node with its fan-out goroutine, and the Redis    *)
(* half of every connection: CheckUserID, JoinRoom, the redisChan case of  *)
(* handleExternalMessages, LeaveRoom.  Rooms share nothing but             *)
(* roomChansMu, which no step below keeps.                                 *)
(*                                                                         *)
(* A step is one Redis command, one critical section, or one channel       *)
(* operation.  A connection joins once, so the pubSub object its JoinRoom  *)
(* may create and the channel its addUser makes are named by it.           *)
(***************************************************************************)
EXTENDS Naturals, Sequences, FiniteSets

CONSTANTS
  Conns,      \* the connections to the room
  Nodes,      \* the server processes
  Ips,        \* the client addresses
  NodeOf,     \* the node of a connection
  IpOf,       \* the client address of a connection
  ChanSize,   \* userChanBufferSize
  MaxMsgs,    \* bound on the messages ever published
  MayFail,    \* may Redis commands and upgrades fail, and nodes crash
  None        \* nil, an absent key or map entry, DstConn "*", SrcConn "SERVER"

ASSUME RoomAssumption ==
  /\ NodeOf \in [Conns -> Nodes]
  /\ IpOf \in [Conns -> Ips]
  /\ ChanSize \in Nat \ {0}
  /\ MaxMsgs \in Nat
  /\ MayFail \in BOOLEAN
  /\ None \notin Conns

VARIABLES
  users,      \* Redis: the set of the room's user ids
  reconnect,  \* Redis: client address -> id kept for a reconnection
  feed,       \* pubSub -> where its subscription and goroutine are
  wire,       \* pubSub -> messages Redis sent it, not yet fanned out
  roomChans,  \* node -> its pubSub for the room
  userChans,  \* pubSub -> (id -> channel)
  buf,        \* channel -> buffered messages
  closed,     \* channel -> has close() been called
  pc,         \* connection -> where it is
  id,         \* connection -> its connId
  ref,        \* connection -> the pubSub its JoinRoom uses
  last,       \* connection -> did its LeaveRoom see roomSize = 0
  lastOut,    \* history: the connection that made the last SREM, or None
  lost,       \* connection -> did it end without a complete LeaveRoom
  seen,       \* connection -> the last message written to its client
  sent        \* number of messages published

redisVars == <<users, reconnect>>
psVars == <<feed, wire, roomChans, userChans>>
chanVars == <<buf, closed>>
local == <<id, ref, last, lastOut>>
history == <<lost, seen, sent>>
vars == <<redisVars, psVars, chanVars, pc, local, history>>

Ptr == Conns \cup {None}
Msg == [n : Nat, src : Ptr, dst : Ptr]

PC == {"new", "sadd", "sub", "add", "joined", "serve", "srem", "scard", "store",
       "del", "cancel", "remove", "done"}

(* Subscribe does not wait for Redis ("asked"); a closed subscription's    *)
(* goroutine may still fan out what it has before it sees ctx.Done.        *)
Feed == {"none", "asked", "on", "closed", "stopped"}

(* Type invariant. *)
TypeOK ==
  /\ users \subseteq Conns
  /\ reconnect \in [Ips -> Ptr]
  /\ feed \in [Conns -> Feed]
  /\ wire \in [Conns -> Seq(Msg)]
  /\ roomChans \in [Nodes -> Ptr]
  /\ userChans \in [Conns -> [Conns -> Ptr]]
  /\ buf \in [Conns -> Seq(Msg)]
  /\ closed \in [Conns -> BOOLEAN]
  /\ pc \in [Conns -> PC]
  /\ id \in [Conns -> Ptr]
  /\ ref \in [Conns -> Ptr]
  /\ last \in [Conns -> BOOLEAN]
  /\ lastOut \in Ptr
  /\ lost \in [Conns -> BOOLEAN]
  /\ seen \in [Conns -> Nat]
  /\ sent \in Nat

Init ==
  /\ users = {}
  /\ reconnect = [a \in Ips |-> None]
  /\ feed = [p \in Conns |-> "none"]
  /\ wire = [p \in Conns |-> <<>>]
  /\ roomChans = [n \in Nodes |-> None]
  /\ userChans = [p \in Conns |-> [i \in Conns |-> None]]
  /\ buf = [h \in Conns |-> <<>>]
  /\ closed = [h \in Conns |-> FALSE]
  /\ pc = [c \in Conns |-> "new"]
  /\ id = [c \in Conns |-> None]
  /\ ref = [c \in Conns |-> None]
  /\ last = [c \in Conns |-> FALSE]
  /\ lastOut = None
  /\ lost = [c \in Conns |-> FALSE]
  /\ seen = [c \in Conns |-> 0]
  /\ sent = 0

-----------------------------------------------------------------------------
Goto(c, to) == pc' = [pc EXCEPT ![c] = to]

(* The connection or its LeaveRoom returns early, on an error. *)
GiveUp(c) ==
  /\ MayFail
  /\ Goto(c, "done")
  /\ lost' = [lost EXCEPT ![c] = TRUE]

(* A Redis command that assigns "new" to var and goes on to "to": it can   *)
(* succeed, or return an error, executed all the same or not (a timeout).  *)
Command(c, to, var, new) ==
  \/ var' = new /\ Goto(c, to) /\ UNCHANGED lost
  \/ var' \in {var, new} /\ GiveUp(c)

-----------------------------------------------------------------------------
(* handleConnection: joining.                                              *)

(* Mutant: no id is created when none is stored. *)
StoredId(c) == reconnect[IpOf[c]]
UserId(c) == IF reconnect[IpOf[c]] = None THEN c ELSE reconnect[IpOf[c]]

(* CheckUserID: reuse the id stored for the address, else create one.  An  *)
(* error ends the connection before it leaves any trace.                   *)
CheckUserID(c) ==
  /\ pc[c] = "new"
  /\ \/ id' = [id EXCEPT ![c] = UserId(c)] /\ Goto(c, "sadd")
     \/ MayFail /\ Goto(c, "done") /\ UNCHANGED id
  /\ UNCHANGED <<redisVars, psVars, chanVars, ref, last, lastOut, history>>

(* JoinRoom: SADD. *)
AddToSet(c) ==
  /\ pc[c] = "sadd"
  /\ Command(c, "sub", users, users \cup {id[c]})
  /\ UNCHANGED <<reconnect, psVars, chanVars, local, seen, sent>>

(* Mutant: the node's pubSub is not looked for. *)
NewPubSub(c) == c
PubSubOf(c) == IF roomChans[NodeOf[c]] = None THEN c ELSE roomChans[NodeOf[c]]

(* JoinRoom under roomChansMu: the node's pubSub, or a new one. *)
GetPubSub(c) ==
  /\ pc[c] = "sub"
  /\ LET p == PubSubOf(c)
     IN  /\ roomChans' = [roomChans EXCEPT ![NodeOf[c]] = p]
         /\ ref' = [ref EXCEPT ![c] = p]
         /\ feed' = IF p = c THEN [feed EXCEPT ![p] = "asked"] ELSE feed
  /\ Goto(c, "add")
  /\ UNCHANGED <<redisVars, wire, userChans, chanVars, id, last, lastOut, history>>

(* JoinRoom: addUser, under the pubSub's own mutex. *)
AddUser(c) ==
  /\ pc[c] = "add"
  /\ userChans' = [userChans EXCEPT ![ref[c]][id[c]] = c]
  /\ Goto(c, "joined")
  /\ UNCHANGED <<redisVars, feed, wire, roomChans, chanVars, local, history>>

(* UpgradeHTTP; when it fails, nothing is undone. *)
Upgrade(c) ==
  /\ pc[c] = "joined"
  /\ \/ Goto(c, "serve") /\ UNCHANGED lost
     \/ GiveUp(c)
  /\ UNCHANGED <<redisVars, psVars, chanVars, local, seen, sent>>

-----------------------------------------------------------------------------
(* Messages.                                                               *)

(* Broadcast (dst None), SendMessage or SendCommEvent, from the connection *)
(* or from "SERVER": Redis hands the message to the subscribers it knows   *)
(* at that moment.                                                         *)
Publish(c, s, d) ==
  /\ pc[c] = "serve" /\ s \in {id[c], None}
  /\ sent < MaxMsgs
  /\ sent' = sent + 1
  /\ LET m == [n |-> sent + 1, src |-> s, dst |-> d]
     IN  wire' = [p \in Conns |->
                    IF feed[p] = "on" THEN Append(wire[p], m) ELSE wire[p]]
  /\ UNCHANGED <<redisVars, feed, roomChans, userChans, chanVars, pc, local,
                 lost, seen>>

(* Redis processes the SUBSCRIBE of a pubSub. *)
Subscribed(p) ==
  /\ feed[p] = "asked"
  /\ feed' = [feed EXCEPT ![p] = "on"]
  /\ UNCHANGED <<redisVars, wire, roomChans, userChans, chanVars, pc, local,
                 history>>

(* Mutant: a message is read and not taken. *)
Peek(p) == UNCHANGED wire
Take(p) == wire' = [wire EXCEPT ![p] = Tail(@)]

(* initPubSub's goroutine: hand the next message to every user, skipping   *)
(* full channels, under the read lock of the pubSub.                       *)
FanOut(p) ==
  /\ feed[p] \in {"on", "closed"} /\ wire[p] # <<>>
  /\ Take(p)
  /\ LET chans == {userChans[p][i] : i \in Conns} \ {None}
     IN  buf' = [h \in Conns |->
                   IF h \in chans /\ Len(buf[h]) < ChanSize
                   THEN Append(buf[h], Head(wire[p]))
                   ELSE buf[h]]
  /\ UNCHANGED <<redisVars, feed, roomChans, userChans, closed, pc, local,
                 history>>

(* initPubSub's goroutine returns on ctx.Done or on the closed Go channel. *)
FanExit(p) ==
  /\ feed[p] = "closed"
  /\ feed' = [feed EXCEPT ![p] = "stopped"]
  /\ wire' = [wire EXCEPT ![p] = <<>>]
  /\ UNCHANGED <<redisVars, roomChans, userChans, chanVars, pc, local,
                 history>>

(* go-redis loses the next message: its connection broke, or its own Go    *)
(* channel stayed full for too long.                                       *)
Lose(p) ==
  /\ MayFail
  /\ wire[p] # <<>> /\ Take(p)
  /\ UNCHANGED <<redisVars, feed, roomChans, userChans, chanVars, pc, local,
                 history>>

(* Is m to be written to the client of c? *)
Wanted(c, m) == m.dst \in {None, id[c]} /\ m.src # id[c]

(* handleExternalMessages takes a message from redisChan. *)
Read(c) ==
  /\ pc[c] = "serve" /\ buf[c] # <<>>
  /\ buf' = [buf EXCEPT ![c] = Tail(@)]
  /\ LET m == Head(buf[c])
     IN  seen' = IF Wanted(c, m) THEN [seen EXCEPT ![c] = m.n] ELSE seen
  /\ UNCHANGED <<redisVars, psVars, closed, pc, local, lost, sent>>

-----------------------------------------------------------------------------
(* LeaveRoom.                                                              *)

(* handleExternalMessages returns: redisChan was closed, or for a reason   *)
(* outside of this module.                                                 *)
EndServe(c) ==
  /\ pc[c] = "serve"
  /\ Goto(c, "srem")
  /\ UNCHANGED <<redisVars, psVars, chanVars, local, history>>

(* Mutant: the id CheckUserID recovered is not the one removed. *)
OwnName(c) == users \ {c}
Others(c) == users \ {id[c]}

(* SREM. *)
RemFromSet(c) ==
  /\ pc[c] = "srem"
  /\ Command(c, "scard", users, Others(c))
  /\ lastOut' = c
  /\ UNCHANGED <<reconnect, psVars, chanVars, id, ref, last, seen, sent>>

(* Mutant: the user who leaves is counted though SREM removed it. *)
OneLeft == Cardinality(users) = 1
NoneLeft == users = {}

(* SCARD. *)
CountSet(c) ==
  /\ pc[c] = "scard"
  /\ Command(c, "store", last, [last EXCEPT ![c] = NoneLeft])
  /\ UNCHANGED <<redisVars, psVars, chanVars, id, ref, lastOut, seen, sent>>

(* Mutant: the key lacks the client address. *)
RoomKey(c) == [a \in Ips |-> id[c]]
ClientKey(c) == [reconnect EXCEPT ![IpOf[c]] = id[c]]

(* SET of the reconnection key. *)
StoreId(c) ==
  /\ pc[c] = "store"
  /\ Command(c, IF last[c] THEN "del" ELSE "remove",
             reconnect, ClientKey(c))
  /\ UNCHANGED <<users, psVars, chanVars, local, seen, sent>>

(* Both DEL commands; no key has the name of the second. *)
DelSet(c) ==
  /\ pc[c] = "del"
  /\ Command(c, "cancel", users, {})
  /\ UNCHANGED <<reconnect, psVars, chanVars, local, seen, sent>>

(* Mutant: the channel is closed and stays in the map. *)
KeepEntry(p, i) == UNCHANGED userChans
DeleteEntry(p, i) == userChans' = [userChans EXCEPT ![p][i] = None]

(* removeUser, under the pubSub's own mutex. *)
RemoveUser(p, i) ==
  LET h == userChans[p][i]
  IN  /\ closed' = IF h = None THEN closed ELSE [closed EXCEPT ![h] = TRUE]
      /\ DeleteEntry(p, i)

(* LeaveRoom under roomChansMu, the room being empty. *)
CancelPubSub(c) ==
  /\ pc[c] = "cancel"
  /\ LET n == NodeOf[c]
         p == roomChans[n]
     IN  \/ /\ p = None
            /\ UNCHANGED <<roomChans, feed, userChans, closed>>
         \/ /\ p # None
            /\ roomChans' = [roomChans EXCEPT ![n] = None]
            /\ RemoveUser(p, id[c])
            /\ feed' = [feed EXCEPT ![p] = "closed"]
  /\ Goto(c, "done")
  /\ UNCHANGED <<redisVars, wire, buf, local, history>>

(* LeaveRoom under roomChansMu, other users being left. *)
RemoveFromPubSub(c) ==
  /\ pc[c] = "remove"
  /\ LET p == roomChans[NodeOf[c]]
     IN  \/ p = None /\ UNCHANGED <<userChans, closed>>
         \/ p # None /\ RemoveUser(p, id[c])
  /\ Goto(c, "done")
  /\ UNCHANGED <<redisVars, feed, wire, roomChans, buf, local, history>>

-----------------------------------------------------------------------------
(* IP_RECONNECT_TTL runs out. *)
ExpireId(a) ==
  /\ reconnect[a] # None
  /\ reconnect' = [reconnect EXCEPT ![a] = None]
  /\ UNCHANGED <<users, psVars, chanVars, pc, local, history>>

(* A node stops without running onConnectionClose for its connections, as  *)
(* it does on SIGTERM too (Shutdown does not wait for hijacked ones), and  *)
(* starts again with empty maps.                                           *)
Crash(n) ==
  /\ MayFail
  /\ LET gone == {c \in Conns : NodeOf[c] = n /\ pc[c] \notin {"new", "done"}}
     IN  /\ gone # {}
         /\ pc' = [c \in Conns |-> IF c \in gone THEN "done" ELSE pc[c]]
         /\ lost' = [c \in Conns |-> c \in gone \/ lost[c]]
  /\ feed' = [p \in Conns |->
                IF NodeOf[p] = n /\ feed[p] # "none" THEN "stopped" ELSE feed[p]]
  /\ wire' = [p \in Conns |-> IF NodeOf[p] = n THEN <<>> ELSE wire[p]]
  /\ roomChans' = [roomChans EXCEPT ![n] = None]
  /\ UNCHANGED <<redisVars, userChans, chanVars, local, seen, sent>>

JoinStep(c) == CheckUserID(c) \/ AddToSet(c) \/ GetPubSub(c) \/ AddUser(c)
               \/ Upgrade(c)

LeaveStep(c) ==
  \/ RemFromSet(c)
  \/ CountSet(c)
  \/ StoreId(c)
  \/ DelSet(c)
  \/ CancelPubSub(c)
  \/ RemoveFromPubSub(c)

Next ==
  \/ \E c \in Conns : JoinStep(c) \/ Read(c) \/ EndServe(c) \/ LeaveStep(c)
  \/ \E c \in Conns, s, d \in Ptr : Publish(c, s, d)
  \/ \E p \in Conns : Subscribed(p) \/ FanOut(p) \/ FanExit(p) \/ Lose(p)
  \/ \E a \in Ips : ExpireId(a)
  \/ \E n \in Nodes : Crash(n)

Spec == Init /\ [][Next]_vars

-----------------------------------------------------------------------------
(* Properties.                                                             *)

(* A channel a fan-out can reach is open: the goroutine never sends on a   *)
(* closed channel and removeUser never closes one twice (both panic),      *)
(* though ids are shared and addUser may run on a cancelled pubSub.        *)
FannedOutIsOpen ==
  \A p, i \in Conns : userChans[p][i] # None => ~closed[userChans[p][i]]

Live(p) == feed[p] \in {"asked", "on"}

(* No subscription and no goroutine is leaked, or found after its end: a   *)
(* pubSub lives exactly as long as its node's roomChans has it.            *)
LiveIffRegistered ==
  \A p \in Conns : Live(p) <=> roomChans[NodeOf[p]] = p

(* Between SADD and SREM. *)
Present(c) == pc[c] \in {"sub", "add", "joined", "serve", "srem"}

(* Only a failed call or a lost node leaves a user in the room's set whose *)
(* connections are all gone.                                               *)
MembersArePresent ==
  \A i \in users : \E c \in Conns : id[c] = i /\ (Present(c) \/ lost[c])

(* A connection id is never taken over from another client address.        *)
IdentityStaysWithIp ==
  \A c, d \in Conns : (id[c] = id[d] /\ id[c] # None) => IpOf[c] = IpOf[d]

(* However pubSub objects come and go, a client gets every message at most *)
(* once and in the order of publication: the last one it got, those in its *)
(* channel and those on their way to it are in strictly ascending order.   *)
InOrderOnce ==
  \A c, p, i \in Conns : userChans[p][i] = c =>
    LET due == <<seen[c]>> \o [k \in DOMAIN buf[c] |-> buf[c][k].n]
                 \o [k \in DOMAIN wire[p] |-> wire[p][k].n]
    IN  \A j, k \in DOMAIN due : j < k => due[j] < due[k]

(* When nobody is in the room any more and no call failed, the node of the *)
(* last one whose SREM removed it has ended its subscription, whatever the *)
(* order of the SREMs, SCARDs and DELs, on whichever nodes (LeaveRoom).    *)
LastLeaveUnsubscribes ==
  (lastOut # None /\ \A c \in Conns : pc[c] \in {"new", "done"} /\ ~lost[c])
    => roomChans[NodeOf[lastOut]] = None

(* "If the room is empty, its subscription is deleted" (LeaveRoom).        *)
EmptyRoomHasNoSubscription ==
  (\A c \in Conns : pc[c] \in {"new", "done"}) => \A p \in Conns : ~Live(p)

(* "Broadcast a message to an entire room": a connection that is served    *)
(* has its channel in the pubSub its node's subscription feeds.            *)
ServedIsFannedOut ==
  \A c \in Conns :
    pc[c] = "serve" => Live(ref[c]) /\ userChans[ref[c]][id[c]] = c

(* The set "represents all current users within a room". *)
ServedIsMember == \A c \in Conns : pc[c] = "serve" => id[c] \in users
=============================================================================
