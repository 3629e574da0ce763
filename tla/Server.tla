------------------------------- MODULE Server -------------------------------
(***************************************************************************)
(* One server process from start to shutdown, with the life of each of its *)
(* connections over all components: cmd/cloud-ramp/main.go and             *)
(* internal/server/server.go.                                              *)
(*                                                                         *)
(* A connection has two goroutines: "main" (handleConnection) sets it up   *)
(* and reads from the client, "writer" (handleExternalMessages) writes to  *)
(* the client and cleans up.  Both call user code, which may run for ever; *)
(* CloseOnContextDone ends it with its context, unless it waits in a host  *)
(* call that has neither that context nor a timeout.                       *)
(*                                                                         *)
(* A call of a component is one step here: Comm, RoomPubSub, RateLimiter,  *)
(* Billing and LogDump model what happens inside, and what connections     *)
(* that share an id, an address or a room do to each other there.          *)
(* RATE_LIMIT is on.                                                       *)
(***************************************************************************)
EXTENDS Naturals, Sequences, FiniteSets

CONSTANTS
  Conns,      \* the connections that are followed
  Other,      \* any other connection, of this process or another one
  All,        \* the destination "*"
  MaxMsgs     \* bound on the events that user code publishes

ASSUME ServerAssumption ==
  /\ IsFiniteSet(Conns)
  /\ All \notin Conns /\ Other \notin Conns /\ All # Other
  /\ MaxMsgs \in Nat

VARIABLES
  phase,      \* where main() and Start are
  signalled,  \* has a signal cancelled the context of Start
  kept,       \* has RegisterNewConnection failed and kept its locks
  main,       \* connection -> where its handleConnection is
  writer,     \* connection -> where its handleExternalMessages is
  sock,       \* connection -> its socket: "gone" at the client's end,
              \* "closed" at this end, together with its context
  held,       \* connection -> what it has taken and not given back
  inbox,      \* connection -> the events in its redisChan
  calling,    \* the goroutines whose user code waits in a host call
  late,       \* the connections whose cleanupCtx is over
  failed,     \* history: those whose LeaveRoom returned an error
  active,     \* connectionsActive
  sent        \* the number of events published

process == <<phase, signalled>>
threads == <<main, writer>>
calls == <<calling, late, failed>>
known == <<held, inbox>>
counts == <<active, sent>>
vars == <<process, kept, threads, sock, known, calls, counts>>

Event == [src : Conns \cup {Other}, dst : Conns \cup {All}, close : BOOLEAN]

(* Connected in its entry of rateMap, a channel of a CommRoom, a place in  *)
(* the set of users in Redis, a channel of the room's pubSub.              *)
Parts == {"rate", "chan", "user", "feed"}

Starting == {"firestore", "sandbox", "redis"}
Dumping == {"logs", "billing", "limiter"}
Handling == {"accepted", "registered", "named", "attached", "joined"}

(* In WriteServerMessage, with a CLOSE_CONNECTION or another event. *)
Writing == {"write", "writeClose"}

(* Type invariant. *)
TypeOK ==
  /\ phase \in Starting \cup {"serving", "draining"} \cup Dumping
              \cup {"exited"}
  /\ signalled \in BOOLEAN /\ kept \in BOOLEAN
  /\ main \in [Conns -> {"new"} \cup Handling
                        \cup {"onJoin", "reading", "got", "onMessage", "done"}]
  /\ writer \in [Conns -> {"none", "serve"} \cup Writing
                          \cup {"onLeave", "dump", "leave", "close", "hangup",
                                "done"}]
  /\ calling \subseteq Conns \X {"main", "writer"}
  /\ sock \in [Conns -> {"none", "up", "gone", "closed"}]
  /\ held \in [Conns -> SUBSET Parts]
  /\ inbox \in [Conns -> Seq(Event)]
  /\ late \subseteq Conns /\ failed \subseteq Conns
  /\ active \in 0..Cardinality(Conns) /\ sent \in 0..MaxMsgs

Init ==
  /\ phase = "firestore" /\ signalled = FALSE /\ kept = FALSE
  /\ main = [c \in Conns |-> "new"] /\ writer = [c \in Conns |-> "none"]
  /\ calling = {}
  /\ sock = [c \in Conns |-> "none"]
  /\ held = [c \in Conns |-> {}] /\ inbox = [c \in Conns |-> <<>>]
  /\ late = {} /\ failed = {}
  /\ active = 0 /\ sent = 0

-----------------------------------------------------------------------------
(* handleConnection up to the upgrade.                                     *)

Setup == [accepted |-> "registered", registered |-> "named",
          named |-> "attached", attached |-> "joined", joined |-> "onJoin"]

Proceed(c) == main' = [main EXCEPT ![c] = Setup[@]]
Hold(c, parts) == held' = [held EXCEPT ![c] = @ \cup parts]

(* Mutant: no return after an error. *)
RejectGoesOn(c) == Proceed(c)
(* handleConnection returns; nothing is undone. *)
Reject(c) == main' = [main EXCEPT ![c] = "done"]

Accept(c) ==
  /\ phase = "serving" /\ main[c] = "new"
  /\ main' = [main EXCEPT ![c] = "accepted"]
  /\ UNCHANGED <<process, kept, writer, sock, known, calls, counts>>

(* RegisterNewConnection: accepted, over the limit, or failed with its     *)
(* locks kept.                                                             *)
Register(c) ==
  /\ main[c] = "accepted"
  /\ \/ Hold(c, {"rate"}) /\ (Proceed(c) \/ Reject(c)) /\ UNCHANGED kept
     \/ Reject(c) /\ kept' = TRUE /\ UNCHANGED held
  /\ UNCHANGED <<process, writer, sock, inbox, calls, counts>>

(* The path, CheckUserID and NewV7. *)
Identify(c) ==
  /\ main[c] = "registered"
  /\ Proceed(c) \/ Reject(c)
  /\ UNCHANGED <<process, kept, writer, sock, known, calls, counts>>

(* InitConn. *)
Attach(c) ==
  /\ main[c] = "named"
  /\ Proceed(c) /\ Hold(c, {"chan"})
  /\ UNCHANGED <<process, kept, writer, sock, inbox, calls, counts>>

(* JoinRoom; its one Redis command may fail with or without effect. *)
Join(c) ==
  /\ main[c] = "attached"
  /\ \/ Proceed(c) /\ Hold(c, {"user", "feed"})
     \/ Reject(c) /\ (Hold(c, {"user"}) \/ UNCHANGED held)
  /\ UNCHANGED <<process, kept, writer, sock, inbox, calls, counts>>

(* UpgradeHTTP and ConnectionOpened. *)
Upgrade(c) ==
  /\ main[c] = "joined"
  /\ \/ /\ Proceed(c)
        /\ sock' = [sock EXCEPT ![c] = "up"]
        /\ active' = active + 1
     \/ Reject(c) /\ UNCHANGED <<sock, active>>
  /\ UNCHANGED <<process, kept, writer, known, calls, sent>>

-----------------------------------------------------------------------------
(* handleConnection after the upgrade.                                     *)

Threads == Conns \X {"main", "writer"}
Main(c) == <<c, "main">>
Writer(c) == <<c, "writer">>

(* The goroutine runs user code, and is not in a host call. *)
RunsUserCode(t) ==
  /\ \/ t[2] = "main" /\ main[t[1]] \in {"onJoin", "onMessage"}
     \/ t[2] = "writer" /\ writer[t[1]] = "onLeave"
  /\ t \notin calling

(* onJoin returns, with an error or not, and the writer starts. *)
EndOnJoin(c) ==
  /\ main[c] = "onJoin" /\ RunsUserCode(Main(c))
  /\ main' = [main EXCEPT ![c] = "reading"]
  /\ writer' = [writer EXCEPT ![c] = "serve"]
  /\ UNCHANGED <<process, kept, sock, known, calls, counts>>

(* A frame, which may have been sent before the client went. *)
Read(c) ==
  /\ main[c] = "reading" /\ sock[c] \in {"up", "gone"}
  /\ main' = [main EXCEPT ![c] = "got"]
  /\ UNCHANGED <<process, kept, writer, sock, known, calls, counts>>

(* ReadClientData fails, on a protocol error with the client still there,  *)
(* or ctx is done.                                                         *)
EndRead(c) ==
  /\ main[c] = "reading"
  /\ main' = [main EXCEPT ![c] = "done"]
  /\ UNCHANGED <<process, kept, writer, sock, known, calls, counts>>

(* RegisterNewRequest: the frame runs onMessage unless it is a control     *)
(* frame or over the limit; BackoffWS may then fail to tell the client, or *)
(* block: it stays in "reading", where no step is owed while sock is up.   *)
Admit(c) ==
  /\ main[c] = "got"
  /\ \/ main' = [main EXCEPT ![c] = "onMessage"]
     \/ main' = [main EXCEPT ![c] = "reading"]
     \/ sock[c] # "up" /\ main' = [main EXCEPT ![c] = "done"]
  /\ UNCHANGED <<process, kept, writer, sock, known, calls, counts>>

(* onMessage returns; an error ends the read loop. *)
EndOnMessage(c) ==
  /\ main[c] = "onMessage" /\ RunsUserCode(Main(c))
  /\ \E next \in {"reading", "done"} : main' = [main EXCEPT ![c] = next]
  /\ UNCHANGED <<process, kept, writer, sock, known, calls, counts>>

(* The context of user code: the connection's, or cleanupCtx. *)
ContextDone(t) == IF t[2] = "main" THEN sock[t[1]] = "closed" ELSE t[1] \in late

(* FetchHandler, or one of the DbHandlers: the first has no context and no *)
(* timeout, the others give Firestore the background context, so they      *)
(* return when the other end likes.  User code whose context is over calls *)
(* nothing any more.                                                       *)
HostCall(t) ==
  /\ \/ /\ RunsUserCode(t) /\ ~ContextDone(t)
        /\ calling' = calling \cup {t}
     \/ /\ t \in calling
        /\ calling' = calling \ {t}
  /\ UNCHANGED <<process, kept, threads, sock, known, late, failed, counts>>

(* An event of the room from Redis: BROADCAST, CLOSE_CONNECTION, or a      *)
(* message to a connection its sender has not found in its process.        *)
Publish(e) ==
  /\ sent < MaxMsgs /\ sent' = sent + 1
  /\ inbox' = [d \in Conns |->
                  IF "feed" \in held[d] THEN Append(inbox[d], e) ELSE inbox[d]]
  /\ UNCHANGED <<process, kept, threads, sock, held, calls, active>>

PublishOwn(t) ==
  RunsUserCode(t) /\ \E e \in Event : e.src = t[1] /\ Publish(e)

-----------------------------------------------------------------------------
(* handleExternalMessages and onConnectionClose.                           *)

(* Mutant: "*" is an address like any other. *)
SkippedIfForAll(c, e) == e.dst # c \/ e.src = c
Skipped(c, e) == e.dst \notin {c, All} \/ e.src = c

Goto(c, at) == writer' = [writer EXCEPT ![c] = at]

(* An event is taken from redisChan: dropped, or to be written. *)
Deliver(c) ==
  /\ writer[c] = "serve" /\ inbox[c] # <<>>
  /\ inbox' = [inbox EXCEPT ![c] = Tail(@)]
  /\ LET e == Head(inbox[c])
     IN  \/ Skipped(c, e) /\ UNCHANGED writer
         \/ ~Skipped(c, e) /\ Goto(c, IF e.close THEN "writeClose" ELSE "write")
  /\ UNCHANGED <<process, kept, main, sock, held, calls, counts>>

(* ... or from commChan, where any user code of this process may put one. *)
DeliverLocal(c) ==
  /\ writer[c] = "serve" /\ Goto(c, "write")
  /\ UNCHANGED <<process, kept, main, sock, known, calls, counts>>

(* WriteServerMessage returns.  The first writes after the client has gone *)
(* may still succeed.                                                      *)
Written(c) ==
  /\ \/ writer[c] = "write" /\ Goto(c, "serve")
     \/ writer[c] = "write" /\ sock[c] = "gone" /\ Goto(c, "onLeave")
     \/ writer[c] = "writeClose" /\ Goto(c, "onLeave")
  /\ UNCHANGED <<process, kept, main, sock, known, calls, counts>>

(* commChan or redisChan is closed: by the cleanup of a connection that    *)
(* has the same id.                                                        *)
ChannelClosed(c) ==
  /\ writer[c] = "serve" /\ Goto(c, "onLeave")
  /\ UNCHANGED <<process, kept, main, sock, known, calls, counts>>

(* Mutants: CloseConn is not called; conn.Close and ctxClose are not. *)
CleanupSkipsClose == [onLeave |-> "dump", dump |-> "leave", leave |-> "hangup",
                      close |-> "hangup", hangup |-> "done"]
CleanupSkipsHangup == [onLeave |-> "dump", dump |-> "leave", leave |-> "close",
                       close |-> "done", hangup |-> "done"]
(* The calls of onConnectionClose in their order. *)
Cleanup == [onLeave |-> "dump", dump |-> "leave", leave |-> "close",
            close |-> "hangup", hangup |-> "done"]

CleanupStep(c, at) ==
  /\ writer[c] = at
  /\ Goto(c, Cleanup[at])
Drop(c, parts) == held' = [held EXCEPT ![c] = @ \ parts]

(* onLeave returns, with an error or not. *)
EndOnLeave(c) ==
  /\ CleanupStep(c, "onLeave") /\ RunsUserCode(Writer(c))
  /\ UNCHANGED <<process, kept, main, sock, known, calls, counts>>

(* The five seconds of cleanupCtx are over before LeaveRoom is. *)
Deadline(c) ==
  /\ writer[c] \in {"onLeave", "dump", "leave"} /\ c \notin late
  /\ late' = late \cup {c}
  /\ UNCHANGED <<process, kept, threads, sock, known, calling, failed, counts>>

(* DumpConnectionRequests. *)
DumpRequests(c) ==
  /\ CleanupStep(c, "dump") /\ Drop(c, {"rate"})
  /\ UNCHANGED <<process, kept, main, sock, inbox, calls, counts>>

(* LeaveRoom.  An error, that of the deadline too, comes before or after   *)
(* the user is removed from the set; it is logged.                         *)
LeaveRoom(c) ==
  /\ CleanupStep(c, "leave")
  /\ \/ c \notin late /\ Drop(c, {"user", "feed"}) /\ UNCHANGED failed
     \/ /\ Drop(c, {"user"}) \/ UNCHANGED held
        /\ failed' = failed \cup {c}
  /\ UNCHANGED <<process, kept, main, sock, inbox, calling, late, counts>>

(* CloseConn. *)
CloseConn(c) ==
  /\ CleanupStep(c, "close") /\ Drop(c, {"chan"})
  /\ UNCHANGED <<process, kept, main, sock, inbox, calls, counts>>

(* conn.Close, ctxClose and ConnectionClosed. *)
Hangup(c) ==
  /\ CleanupStep(c, "hangup")
  /\ sock' = [sock EXCEPT ![c] = "closed"]
  /\ active' = active - 1
  /\ UNCHANGED <<process, kept, main, known, calls, sent>>

(* The client closes the connection, or it breaks. *)
ClientGoes(c) ==
  /\ sock[c] = "up"
  /\ sock' = [sock EXCEPT ![c] = "gone"]
  /\ UNCHANGED <<process, kept, threads, known, calls, counts>>

-----------------------------------------------------------------------------
(* main and Start.  When the process has exited, nothing happens any more. *)

Enter(from, to) == phase = from /\ phase' = to
rest == <<kept, threads, sock, known, calls, counts>>

(* One of the Init functions returns; os.Exit on an error. *)
Initialize ==
  /\ \/ Enter("firestore", "sandbox")
     \/ Enter("sandbox", "redis")
     \/ Enter("redis", "serving")
     \/ phase \in Starting /\ phase' = "exited"
  /\ UNCHANGED <<signalled, rest>>

(* The first signal, at any time; later ones are not received. *)
Signal ==
  /\ ~signalled /\ signalled' = TRUE
  /\ UNCHANGED <<phase, rest>>

(* Start sees ctx.Done and calls Shutdown. *)
BeginShutdown ==
  /\ signalled /\ Enter("serving", "draining")
  /\ UNCHANGED <<signalled, rest>>

(* Shutdown returns: no handler runs but those that hijacked their         *)
(* connection, *)
EndShutdown ==
  /\ \A c \in Conns : main[c] \notin Handling
  /\ Enter("draining", "logs")
  /\ UNCHANGED <<signalled, rest>>

(* Mutant: Shutdown gets a context without a deadline. *)
ShutdownNoTimeout == EndShutdown
(* ... or the fifteen seconds are over. *)
ShutdownTimeout ==
  /\ Enter("draining", "logs")
  /\ UNCHANGED <<signalled, rest>>

(* OnLogDump and OnBillingDump, in time and with or without an error. *)
Dump ==
  /\ Enter("logs", "billing") \/ Enter("billing", "limiter")
  /\ UNCHANGED <<signalled, rest>>

(* The OnDump of the limiter waits for globalMu; then main returns. *)
DumpLimiter ==
  /\ ~kept /\ Enter("limiter", "exited")
  /\ UNCHANGED <<signalled, rest>>

-----------------------------------------------------------------------------
(* Other connections publish, and may fail in RegisterNewConnection. *)
OtherStep ==
  \/ \E e \in Event : e.src = Other /\ Publish(e)
  \/ /\ phase = "serving" /\ ~kept /\ kept' = TRUE
     /\ UNCHANGED <<process, threads, sock, known, calls, counts>>

Running == phase # "exited"

SetupStep(c) == Identify(c) \/ Attach(c) \/ Join(c) \/ Upgrade(c)
WriteStep(c) == Deliver(c) \/ DeliverLocal(c) \/ Written(c) \/ ChannelClosed(c)
LeaveStep(c) == LeaveRoom(c) \/ CloseConn(c) \/ Hangup(c)
LimiterStep(c) == Register(c) \/ Admit(c) \/ DumpRequests(c)
UserStep(c) == EndOnJoin(c) \/ EndOnMessage(c) \/ EndOnLeave(c)
               \/ \E t \in {Main(c), Writer(c)} : HostCall(t) \/ PublishOwn(t)
ClientStep(c) == Accept(c) \/ Read(c) \/ EndRead(c) \/ ClientGoes(c)
ConnStep(c) == SetupStep(c) \/ WriteStep(c) \/ LeaveStep(c) \/ LimiterStep(c)
               \/ UserStep(c) \/ ClientStep(c) \/ Deadline(c)
ProcessStep == Initialize \/ BeginShutdown \/ EndShutdown \/ ShutdownTimeout
               \/ Dump \/ DumpLimiter

Next ==
  /\ Running
  /\ (\E c \in Conns : ConnStep(c)) \/ ProcessStep \/ OtherStep \/ Signal
Spec == Init /\ [][Next]_vars

(* The scheduler is fair to goroutines, the calls of Redis return,         *)
(* deadlines pass.  The calls of the limiter return unless a lock was kept *)
(* (CallsReturn of RateLimiter).  User code ends if its context does,      *)
(* except in a host call.  A read or a write of a socket that is up is     *)
(* owed nothing, since neither has a deadline; once the client is gone TCP *)
(* fails them.  Go's select picks at random among channels that are ready, *)
(* so redisChan gets its turn (SF) if writer always comes back to select.  *)
(* Clients, signals and host calls owe nothing.                            *)
Fairness ==
  /\ WF_vars(Running /\ ProcessStep)
  /\ \A c \in Conns :
       /\ WF_vars(Running /\ SetupStep(c))
       /\ WF_vars(Running /\ sock[c] # "up" /\ EndRead(c))
       /\ SF_vars(Running /\ Deliver(c))
       /\ WF_vars(Running /\ sock[c] = "gone" /\ Written(c))
       /\ WF_vars(Running /\ LeaveStep(c))
       /\ WF_vars(Running /\ ~kept /\ (Register(c) \/ Admit(c)))
       /\ WF_vars(Running /\ ~kept /\ DumpRequests(c))
       /\ WF_vars(Running /\ Deadline(c))
       /\ WF_vars(Running /\ c \in late /\ EndOnLeave(c))
       /\ WF_vars(Running /\ sock[c] = "closed" /\ EndOnMessage(c))
FairSpec == Spec /\ Fairness

-----------------------------------------------------------------------------
(* Properties.                                                             *)

Served(c) == writer[c] \in {"serve"} \cup Writing

(* A connection that is served has its place in every component: setup     *)
(* stops at the first error, and only the writer gives places back         *)
(* (server.go:171-251).  Whether the components keep them for it is the    *)
(* question of ServedIsRegistered in Comm and ServedIsFannedOut in         *)
(* RoomPubSub.                                                             *)
ServedIsKnown == \A c \in Conns : Served(c) => held[c] = Parts

(* onConnectionClose gives everything back, whatever failed or came late   *)
(* on the way; only an error of LeaveRoom leaves the connection in the     *)
(* room (server.go:271-301).                                               *)
ClosedIsForgotten ==
  \A c \in Conns : writer[c] = "done" =>
    held[c] \subseteq (IF c \in failed THEN {"user", "feed"} ELSE {})

(* The gauge connectionsActive counts the connections that were upgraded   *)
(* and not cleaned up yet, however they began and ended (server.go:252 and *)
(* 299).                                                                   *)
GaugeCountsOpen ==
  active = Cardinality({c \in Conns : main[c] = "onJoin"
                                      \/ writer[c] \notin {"none", "done"}})

(* A CLOSE_CONNECTION of another connection ends the service of those it   *)
(* is sent to, behind whatever else there is to deliver, the client gone   *)
(* or not.  The one way out is a client that is there and does not read:   *)
(* the write has no deadline, and a writer that is never back from it will *)
(* not see what is behind (server.go:459-472).                             *)
Closes(c, e) == e.close /\ e.src # c /\ e.dst \in {c, All}
ToldToClose(c) ==
  \/ writer[c] = "writeClose"
  \/ Served(c) /\ \E i \in DOMAIN inbox[c] : Closes(c, inbox[c][i])
WriteBlocks(c) == writer[c] \in Writing /\ sock[c] = "up"
CloseEnds ==
  \A c \in Conns :
    (ToldToClose(c) ~> (~Served(c) \/ ~Running)) \/ <>[]WriteBlocks(c)

(* A cleanup ends, and with it the read loop, even if user code loops in   *)
(* onLeave or onMessage, unless it waits in a host call or the limiter     *)
(* kept a lock (server.go:271-301, main.go:61).                            *)
CleanupEnds ==
  \A c \in Conns :
    writer[c] = "onLeave"
      ~> (\/ writer[c] = "done" /\ main[c] = "done"
          \/ {Main(c), Writer(c)} \cap calling # {} \/ kept \/ ~Running)

(* After a signal the process ends whatever connections do.  If the limiter *)
(* kept a lock it gets to the last dump at least: a handler that waits for *)
(* the lock does not stop the others (server.go:56-85).                    *)
ShutdownEnds == signalled ~> (~Running \/ (kept /\ phase = "limiter"))

(* VIOLATED: a connection that is given up after InitConn or JoinRoom, on  *)
(* an error of JoinRoom or of the upgrade, takes back what it did.  Nothing *)
(* does: its channel, its user and its feed stay (server.go:237-251).      *)
RejectedIsForgotten ==
  \A c \in Conns :
    (main[c] = "done" /\ writer[c] = "none") => held[c] \subseteq {"rate"}

(* VIOLATED: when the client has gone, the connection is cleaned up        *)
(* (README: "Execute the user's onLeave method").                          *)
GoneIsCleanedUp ==
  \A c \in Conns : (sock[c] = "gone" /\ Served(c)) ~> (~Served(c) \/ ~Running)

(* VIOLATED: Shutdown returns in time only when no connection is served    *)
(* (README: "waiting for all connections to complete").                    *)
ShutdownWaits ==
  [][EndShutdown => \A c \in Conns : writer[c] \in {"none", "done"}]_vars

(* VIOLATED: a CLOSE_CONNECTION also closes the connection that sent it.   *)
SelfCloseEnds ==
  \A c \in Conns :
    (Served(c) /\ \E i \in DOMAIN inbox[c] : inbox[c][i].close /\ inbox[c][i].dst = c)
      ~> (~Served(c) \/ ~Running)

(* VIOLATED: the writer starts some time after the upgrade; an onJoin that *)
(* does not return has no deadline. *)
JoinEnds ==
  \A c \in Conns : main[c] = "onJoin" ~> (writer[c] # "none" \/ ~Running)
=============================================================================
