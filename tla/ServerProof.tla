----------------------------- MODULE ServerProof -----------------------------
(***************************************************************************)
(* Theorems about Server: for any finite set of connections, a served      *)
(* connection has its place in every component, one that is over has given *)
(* everything back, and the gauge counts those in between.                 *)
(***************************************************************************)
EXTENDS Server, FiniteSetTheorems, TLAPS

(* What is held at each point of the two goroutines, and which of these    *)
(* points go together.                                                     *)
SetupInv(c) ==
  /\ main[c] \in {"new", "accepted"} => held[c] = {}
  /\ main[c] \in {"registered", "named"} => held[c] = {"rate"}
  /\ main[c] = "attached" => held[c] = {"rate", "chan"}
  /\ main[c] \in {"joined", "onJoin"} => held[c] = Parts
  /\ main[c] \in {"new", "onJoin"} \cup Handling => writer[c] = "none"
  /\ main[c] \in {"reading", "got", "onMessage"} => writer[c] # "none"

CleanupInv(c) ==
  LET left == IF c \in failed THEN {"user", "feed"} ELSE {}
  IN  /\ writer[c] \in {"serve", "write", "writeClose", "onLeave", "dump"} =>
           held[c] = Parts
      /\ writer[c] = "leave" => held[c] \subseteq {"chan", "user", "feed"}
      /\ writer[c] = "close" => held[c] \subseteq {"chan"} \cup left
      /\ writer[c] \in {"hangup", "done"} => held[c] \subseteq left

ConnInv == \A c \in Conns : SetupInv(c) /\ CleanupInv(c)

(* The connections that the gauge counts. *)
Open == {c \in Conns : main[c] = "onJoin" \/ writer[c] \notin {"none", "done"}}

IInv == TypeOK /\ ConnInv /\ GaugeCountsOpen

-----------------------------------------------------------------------------
(* There are no more open connections than there are connections. *)
LEMMA OpenIsBounded ==
  ASSUME NEW S \in SUBSET Conns
  PROVE  Cardinality(S) \in 0 .. Cardinality(Conns)
<1>1. /\ Cardinality(S) \in Nat /\ Cardinality(Conns) \in Nat
      /\ Cardinality(S) <= Cardinality(Conns)
  BY ServerAssumption, FS_Subset, FS_CardinalityType
<1> QED
  BY <1>1

(* A step that opens and closes no connection keeps the gauge. *)
LEMMA GaugeKept ==
  ASSUME GaugeCountsOpen, Open' = Open, active' = active
  PROVE  GaugeCountsOpen'
BY DEF GaugeCountsOpen, Open

(* The initial states. *)
LEMMA InitInv == Init => IInv
<1> SUFFICES ASSUME Init PROVE IInv
  OBVIOUS
<1>1. GaugeCountsOpen
  <2>1. Open = {}
    BY DEF Init, Open
  <2> QED
    BY <2>1, FS_EmptySet DEF GaugeCountsOpen, Open, Init
<1>2. ConnInv
  BY DEF Init, ConnInv, SetupInv, CleanupInv, Handling
<1>3. TypeOK
  <2>1. active \in 0 .. Cardinality(Conns)
    BY <1>1, OpenIsBounded DEF GaugeCountsOpen
  <2>2. inbox \in [Conns -> Seq(Event)]
    BY DEF Init
  <2>3. sent \in 0 .. MaxMsgs
    BY ServerAssumption DEF Init
  <2>4. /\ main \in [Conns -> {"new"}] /\ writer \in [Conns -> {"none"}]
        /\ sock \in [Conns -> {"none"}]
        /\ held \in [Conns -> SUBSET Parts]
    BY DEF Init
  <2> QED
    BY <2>1, <2>2, <2>3, <2>4 DEF Init, TypeOK, Starting
<1> QED
  BY <1>1, <1>2, <1>3 DEF IInv

-----------------------------------------------------------------------------
(* The steps of a connection's setup. *)

(* Where handleConnection can be. *)
MainPoints == {"new"} \cup Handling \cup {"onJoin", "reading", "got",
                                         "onMessage", "done"}

LEMMA ProceedType ==
  ASSUME TypeOK, NEW c \in Conns, main[c] \in Handling,
         Proceed(c) \/ Reject(c)
  PROVE  main' \in [Conns -> MainPoints]
<1>1. CASE Proceed(c)
  <2>1. Setup[main[c]] \in MainPoints
    BY DEF Handling, Setup, MainPoints
  <2> QED
    BY <1>1, <2>1 DEF TypeOK, Proceed, MainPoints
<1>2. CASE Reject(c)
  BY <1>2 DEF TypeOK, Reject, MainPoints
<1> QED
  BY <1>1, <1>2

LEMMA HeldType ==
  ASSUME TypeOK, NEW c \in Conns, NEW parts \in SUBSET Parts,
         Hold(c, parts) \/ Drop(c, parts) \/ UNCHANGED held
  PROVE  held' \in [Conns -> SUBSET Parts]
<1>1. held[c] \cup parts \in SUBSET Parts /\ held[c] \ parts \in SUBSET Parts
  BY DEF TypeOK
<1> QED
  BY <1>1 DEF TypeOK, Hold, Drop

LEMMA AcceptInv ==
  ASSUME IInv, NEW c \in Conns, Accept(c)
  PROVE  IInv'
<1> USE DEF IInv
<1>1. TypeOK'
  BY DEF Accept, Handling, TypeOK, process, known, calls, counts
<1>2. ConnInv'
  BY DEF Accept, Handling, TypeOK, process, known, calls, counts, ConnInv,
         SetupInv, CleanupInv
<1>3. Open' = Open /\ active' = active
  BY DEF Accept, Handling, TypeOK, ConnInv, SetupInv, Open, process, known,
         calls, counts
<1> QED
  BY <1>1, <1>2, <1>3, GaugeKept

LEMMA RegisterInv ==
  ASSUME IInv, NEW c \in Conns, Register(c)
  PROVE  IInv'
<1> USE DEF IInv
<1>1. TypeOK'
  <2>1. main' \in [Conns -> MainPoints]
    BY ProceedType DEF Register, Handling
  <2>2. held' \in [Conns -> SUBSET Parts]
    BY HeldType, {"rate"} \in SUBSET Parts DEF Register, Parts
  <2> QED
    BY <2>1, <2>2 DEF Register, MainPoints, TypeOK, process, calls, counts
<1>2. ConnInv'
  BY DEF Register, Hold, Parts, Proceed, Setup, Reject, Handling, TypeOK,
         process, calls, counts, ConnInv, SetupInv, CleanupInv
<1>3. Open' = Open /\ active' = active
  BY DEF Register, Hold, Parts, Proceed, Setup, Reject, Handling, TypeOK,
         ConnInv, SetupInv, Open, process, calls, counts
<1> QED
  BY <1>1, <1>2, <1>3, GaugeKept

LEMMA IdentifyInv ==
  ASSUME IInv, NEW c \in Conns, Identify(c)
  PROVE  IInv'
<1> USE DEF IInv
<1>1. TypeOK'
  <2>1. main' \in [Conns -> MainPoints]
    BY ProceedType DEF Identify, Handling
  <2> QED
    BY <2>1 DEF Identify, MainPoints, TypeOK, process, known, calls, counts
<1>2. ConnInv'
  BY DEF Identify, Proceed, Setup, Reject, Handling, TypeOK, process, known,
         calls, counts, ConnInv, SetupInv, CleanupInv
<1>3. Open' = Open /\ active' = active
  BY DEF Identify, Proceed, Setup, Reject, Handling, TypeOK, ConnInv,
         SetupInv, Open, process, known, calls, counts
<1> QED
  BY <1>1, <1>2, <1>3, GaugeKept

LEMMA AttachInv ==
  ASSUME IInv, NEW c \in Conns, Attach(c)
  PROVE  IInv'
<1> USE DEF IInv
<1>1. TypeOK'
  BY DEF Attach, Hold, Parts, Proceed, Setup, Handling, TypeOK, process,
         calls, counts
<1>2. ConnInv'
  BY DEF Attach, Hold, Parts, Proceed, Setup, Handling, TypeOK, process,
         calls, counts, ConnInv, SetupInv, CleanupInv
<1>3. Open' = Open /\ active' = active
  BY DEF Attach, Hold, Parts, Proceed, Setup, Handling, TypeOK, ConnInv,
         SetupInv, Open, process, calls, counts
<1> QED
  BY <1>1, <1>2, <1>3, GaugeKept

LEMMA JoinInv ==
  ASSUME IInv, NEW c \in Conns, Join(c)
  PROVE  IInv'
<1> USE DEF IInv
<1>1. TypeOK'
  <2>1. main' \in [Conns -> MainPoints]
    BY ProceedType DEF Join, Handling
  <2>2. held' \in [Conns -> SUBSET Parts]
    <3>1. {"user", "feed"} \in SUBSET Parts /\ {"user"} \in SUBSET Parts
      BY DEF Parts
    <3> QED
      BY <3>1, HeldType DEF Join
  <2> QED
    BY <2>1, <2>2 DEF Join, MainPoints, TypeOK, process, calls, counts
<1>2. ConnInv'
  <2>1. main[c] = "attached" /\ UNCHANGED <<writer, failed>>
    BY DEF Join, calls
  <2>2. CASE Proceed(c) /\ Hold(c, {"user", "feed"})
    <3>1. main' = [main EXCEPT ![c] = "joined"]
      BY <2>1, <2>2 DEF Proceed, Setup
    <3> QED
      BY <2>1, <2>2, <3>1 DEF Hold, Parts, Handling, TypeOK, ConnInv,
                              SetupInv, CleanupInv
  <2>3. CASE Reject(c) /\ (Hold(c, {"user"}) \/ UNCHANGED held)
    BY <2>1, <2>3 DEF Reject, Hold, Handling, TypeOK, ConnInv, SetupInv,
                      CleanupInv
  <2> QED
    BY <2>2, <2>3 DEF Join
<1>3. Open' = Open /\ active' = active
  BY DEF Join, Hold, Parts, Proceed, Setup, Reject, Handling, TypeOK,
         ConnInv, SetupInv, Open, process, calls, counts
<1> QED
  BY <1>1, <1>2, <1>3, GaugeKept

(* A connection is opened: the gauge counts one more. *)
LEMMA UpgradeInv ==
  ASSUME IInv, NEW c \in Conns, Upgrade(c)
  PROVE  IInv'
<1> USE DEF IInv
<1>1. ConnInv'
  BY DEF Upgrade, Proceed, Setup, Reject, Handling, TypeOK, known, calls,
         ConnInv, SetupInv, CleanupInv
<1>2. GaugeCountsOpen'
  <2>1. CASE Proceed(c) /\ active' = active + 1
    <3>1. Open' = Open \cup {c} /\ c \notin Open
      BY <2>1 DEF Upgrade, Proceed, Setup, TypeOK, ConnInv, SetupInv, Open,
                  Handling
    <3>2. IsFiniteSet(Open) /\ active = Cardinality(Open)
      BY ServerAssumption, FS_Subset DEF Open, GaugeCountsOpen
    <3>3. Cardinality(Open') = Cardinality(Open) + 1
      BY <3>1, <3>2, FS_AddElement
    <3> QED
      BY <2>1, <3>2, <3>3 DEF GaugeCountsOpen, Open
  <2>2. CASE Reject(c) /\ active' = active
    <3>1. Open' = Open
      BY <2>2 DEF Upgrade, Reject, TypeOK, Open
    <3> QED
      BY <2>2, <3>1, GaugeKept
  <2> QED
    BY <2>1, <2>2 DEF Upgrade
<1>3. TypeOK'
  <2>1. active' \in 0 .. Cardinality(Conns)
    BY <1>2, OpenIsBounded DEF GaugeCountsOpen
  <2>2. main' \in [Conns -> MainPoints]
    BY ProceedType DEF Upgrade, Handling
  <2>3. sock' \in [Conns -> {"none", "up", "gone", "closed"}]
    BY DEF Upgrade, TypeOK
  <2> QED
    BY <2>1, <2>2, <2>3 DEF Upgrade, MainPoints, TypeOK, process, known, calls
<1> QED
  BY <1>1, <1>2, <1>3

-----------------------------------------------------------------------------
(* The two goroutines of a connection. *)

LEMMA EndOnJoinInv ==
  ASSUME IInv, NEW c \in Conns, EndOnJoin(c)
  PROVE  IInv'
<1> USE DEF IInv
<1>1. TypeOK'
  BY DEF EndOnJoin, TypeOK, process, known, calls, counts
<1>2. ConnInv'
  BY DEF EndOnJoin, TypeOK, process, known, calls, counts, ConnInv, SetupInv,
         CleanupInv, Handling
<1>3. Open' = Open /\ active' = active
  BY DEF EndOnJoin, TypeOK, ConnInv, SetupInv, Open, process, known, calls,
         counts, Handling
<1> QED
  BY <1>1, <1>2, <1>3, GaugeKept

LEMMA ReadInv ==
  ASSUME IInv, NEW c \in Conns, Read(c)
  PROVE  IInv'
<1> USE DEF IInv
<1>1. TypeOK'
  BY DEF Read, TypeOK, process, known, calls, counts
<1>2. ConnInv'
  BY DEF Read, TypeOK, process, known, calls, counts, ConnInv, SetupInv,
         CleanupInv, Handling
<1>3. Open' = Open /\ active' = active
  BY DEF Read, TypeOK, ConnInv, SetupInv, Open, process, known, calls,
         counts, Handling
<1> QED
  BY <1>1, <1>2, <1>3, GaugeKept

LEMMA EndReadInv ==
  ASSUME IInv, NEW c \in Conns, EndRead(c)
  PROVE  IInv'
<1> USE DEF IInv
<1>1. TypeOK'
  BY DEF EndRead, TypeOK, process, known, calls, counts
<1>2. ConnInv'
  BY DEF EndRead, TypeOK, process, known, calls, counts, ConnInv, SetupInv,
         CleanupInv, Handling
<1>3. Open' = Open /\ active' = active
  BY DEF EndRead, TypeOK, ConnInv, SetupInv, Open, process, known, calls,
         counts, Handling
<1> QED
  BY <1>1, <1>2, <1>3, GaugeKept

LEMMA AdmitInv ==
  ASSUME IInv, NEW c \in Conns, Admit(c)
  PROVE  IInv'
<1> USE DEF IInv
<1>1. TypeOK'
  BY DEF Admit, TypeOK, process, known, calls, counts
<1>2. ConnInv'
  BY DEF Admit, TypeOK, process, known, calls, counts, ConnInv, SetupInv,
         CleanupInv, Handling
<1>3. Open' = Open /\ active' = active
  BY DEF Admit, TypeOK, ConnInv, SetupInv, Open, process, known, calls,
         counts, Handling
<1> QED
  BY <1>1, <1>2, <1>3, GaugeKept

LEMMA EndOnMessageInv ==
  ASSUME IInv, NEW c \in Conns, EndOnMessage(c)
  PROVE  IInv'
<1> USE DEF IInv
<1>1. TypeOK'
  BY DEF EndOnMessage, TypeOK, process, known, calls, counts
<1>2. ConnInv'
  BY DEF EndOnMessage, TypeOK, process, known, calls, counts, ConnInv,
         SetupInv, CleanupInv, Handling
<1>3. Open' = Open /\ active' = active
  BY DEF EndOnMessage, TypeOK, ConnInv, SetupInv, Open, process, known,
         calls, counts, Handling
<1> QED
  BY <1>1, <1>2, <1>3, GaugeKept

(* The writer goes from one point of its service to the next, or begins    *)
(* its cleanup.                                                            *)
LEMMA ServeInv ==
  ASSUME IInv, NEW c \in Conns, Served(c),
         NEW at \in {"serve", "onLeave"} \cup Writing, Goto(c, at),
         inbox' \in [Conns -> Seq(Event)],
         UNCHANGED <<process, kept, main, sock, held, calls, counts>>
  PROVE  IInv'
<1> USE DEF IInv
<1>1. TypeOK'
  BY DEF Goto, TypeOK, process, calls, counts
<1>2. ConnInv'
  BY DEF Goto, Served, Writing, TypeOK, calls, ConnInv, SetupInv, CleanupInv,
         Handling
<1>3. Open' = Open /\ active' = active
  BY DEF Goto, Served, Writing, TypeOK, Open, counts
<1> QED
  BY <1>1, <1>2, <1>3, GaugeKept

LEMMA DeliverInv ==
  ASSUME IInv, NEW c \in Conns, Deliver(c)
  PROVE  IInv'
<1>1. /\ Served(c)
      /\ UNCHANGED <<process, kept, main, sock, held, calls, counts>>
  BY DEF Deliver, Served
<1>2. inbox' \in [Conns -> Seq(Event)]
  <2>1. inbox[c] \in Seq(Event) /\ inbox[c] # <<>>
    BY DEF Deliver, IInv, TypeOK
  <2>2. Tail(inbox[c]) \in Seq(Event)
    BY <2>1
  <2> QED
    BY <2>2 DEF Deliver, IInv, TypeOK
<1>3. Goto(c, "serve") \/ Goto(c, "write") \/ Goto(c, "writeClose")
  BY DEF Deliver, Goto, IInv, TypeOK
<1> QED
  BY <1>1, <1>2, <1>3, ServeInv DEF Writing

LEMMA ServingInv ==
  ASSUME IInv, NEW c \in Conns,
         DeliverLocal(c) \/ Written(c) \/ ChannelClosed(c)
  PROVE  IInv'
<1>1. /\ Served(c)
      /\ Goto(c, "write") \/ Goto(c, "serve") \/ Goto(c, "onLeave")
      /\ UNCHANGED <<process, kept, main, sock, held, calls, counts>>
      /\ inbox' = inbox
  BY DEF DeliverLocal, Written, ChannelClosed, Served, Writing, known
<1>2. inbox' \in [Conns -> Seq(Event)]
  BY <1>1 DEF IInv, TypeOK
<1> QED
  BY <1>1, <1>2, ServeInv DEF Writing

-----------------------------------------------------------------------------
(* The steps of a cleanup. *)

LEMMA EndOnLeaveInv ==
  ASSUME IInv, NEW c \in Conns, EndOnLeave(c)
  PROVE  IInv'
<1> USE DEF IInv
<1>1. TypeOK'
  BY DEF EndOnLeave, CleanupStep, Goto, Cleanup, TypeOK, process, known, calls,
         counts
<1>2. ConnInv'
  BY DEF EndOnLeave, CleanupStep, Goto, Cleanup, TypeOK, process, known, calls,
         counts, ConnInv, SetupInv, CleanupInv, Handling
<1>3. Open' = Open /\ active' = active
  BY DEF EndOnLeave, CleanupStep, Goto, Cleanup, TypeOK, ConnInv, SetupInv, Open,
         process, known, calls, counts, Handling
<1> QED
  BY <1>1, <1>2, <1>3, GaugeKept

LEMMA DumpRequestsInv ==
  ASSUME IInv, NEW c \in Conns, DumpRequests(c)
  PROVE  IInv'
<1> USE DEF IInv
<1>1. TypeOK'
  BY DEF DumpRequests, CleanupStep, Goto, Cleanup, Drop, Parts, TypeOK, process,
         calls, counts
<1>2. ConnInv'
  BY DEF DumpRequests, CleanupStep, Goto, Cleanup, Drop, Parts, TypeOK, process,
         calls, counts, ConnInv, SetupInv, CleanupInv, Handling
<1>3. Open' = Open /\ active' = active
  BY DEF DumpRequests, CleanupStep, Goto, Cleanup, Drop, Parts, TypeOK, ConnInv,
         SetupInv, Open, process, calls, counts, Handling
<1> QED
  BY <1>1, <1>2, <1>3, GaugeKept

LEMMA LeaveRoomInv ==
  ASSUME IInv, NEW c \in Conns, LeaveRoom(c)
  PROVE  IInv'
<1> USE DEF IInv
<1>1. TypeOK'
  <2>1. held' \in [Conns -> SUBSET Parts]
    <3>1. {"user", "feed"} \in SUBSET Parts /\ {"user"} \in SUBSET Parts
      BY DEF Parts
    <3> QED
      BY <3>1, HeldType DEF LeaveRoom
  <2>2. failed' \subseteq Conns
    BY DEF LeaveRoom, TypeOK
  <2>3. writer' = [writer EXCEPT ![c] = "close"]
    BY DEF LeaveRoom, CleanupStep, Goto, Cleanup
  <2> QED
    BY <2>1, <2>2, <2>3 DEF LeaveRoom, TypeOK, process, counts
<1>2. ConnInv'
  BY DEF LeaveRoom, CleanupStep, Goto, Cleanup, Drop, Parts, TypeOK, process,
         counts, ConnInv, SetupInv, CleanupInv, Handling
<1>3. Open' = Open /\ active' = active
  BY DEF LeaveRoom, CleanupStep, Goto, Cleanup, Drop, Parts, TypeOK, ConnInv,
         SetupInv, Open, process, counts, Handling
<1> QED
  BY <1>1, <1>2, <1>3, GaugeKept

LEMMA CloseConnInv ==
  ASSUME IInv, NEW c \in Conns, CloseConn(c)
  PROVE  IInv'
<1> USE DEF IInv
<1>1. TypeOK'
  BY DEF CloseConn, CleanupStep, Goto, Cleanup, Drop, Parts, TypeOK, process,
         calls, counts
<1>2. ConnInv'
  BY DEF CloseConn, CleanupStep, Goto, Cleanup, Drop, Parts, TypeOK, process,
         calls, counts, ConnInv, SetupInv, CleanupInv, Handling
<1>3. Open' = Open /\ active' = active
  BY DEF CloseConn, CleanupStep, Goto, Cleanup, Drop, Parts, TypeOK, ConnInv,
         SetupInv, Open, process, calls, counts, Handling
<1> QED
  BY <1>1, <1>2, <1>3, GaugeKept

(* A connection is closed: the gauge counts one less. *)
LEMMA HangupInv ==
  ASSUME IInv, NEW c \in Conns, Hangup(c)
  PROVE  IInv'
<1> USE DEF IInv
<1>1. ConnInv'
  BY DEF Hangup, CleanupStep, Goto, Cleanup, TypeOK, known, calls, Handling,
         ConnInv, SetupInv, CleanupInv
<1>2. GaugeCountsOpen'
  <2>1. Open' = Open \ {c} /\ c \in Open
    BY DEF Hangup, CleanupStep, Goto, Cleanup, TypeOK, ConnInv, SetupInv, Open,
           Handling
  <2>2. IsFiniteSet(Open) /\ active = Cardinality(Open)
    BY ServerAssumption, FS_Subset DEF Open, GaugeCountsOpen
  <2>3. Cardinality(Open') = Cardinality(Open) - 1
    BY <2>1, <2>2, FS_RemoveElement
  <2> QED
    BY <2>2, <2>3 DEF Hangup, GaugeCountsOpen, Open
<1>3. TypeOK'
  <2>1. active' \in 0 .. Cardinality(Conns)
    BY <1>2, OpenIsBounded DEF GaugeCountsOpen
  <2> QED
    BY <2>1 DEF Hangup, CleanupStep, Goto, Cleanup, TypeOK, process, known, calls
<1> QED
  BY <1>1, <1>2, <1>3

-----------------------------------------------------------------------------
(* The steps that leave the goroutines, and what they hold, where they     *)
(* are.                                                                    *)

LEMMA FrameInv ==
  ASSUME IInv, TypeOK', UNCHANGED <<threads, held, failed, active>>
  PROVE  IInv'
<1>1. ConnInv'
  BY DEF IInv, ConnInv, SetupInv, CleanupInv, threads
<1>2. GaugeCountsOpen'
  BY DEF IInv, GaugeCountsOpen, threads
<1> QED
  BY <1>1, <1>2 DEF IInv

LEMMA PublishInv ==
  ASSUME IInv, NEW e \in Event, Publish(e)
  PROVE  IInv'
<1>1. inbox' \in [Conns -> Seq(Event)]
  BY DEF Publish, IInv, TypeOK
<1>2. sent' \in 0 .. MaxMsgs
  BY ServerAssumption DEF Publish, IInv, TypeOK
<1>3. TypeOK'
  BY <1>1, <1>2 DEF Publish, IInv, TypeOK, process, threads, calls
<1> QED
  BY <1>3, FrameInv DEF Publish, calls

LEMMA HostCallInv ==
  ASSUME IInv, NEW t \in Threads, HostCall(t)
  PROVE  IInv'
<1>1. TypeOK'
  BY DEF HostCall, Threads, IInv, TypeOK, process, threads, known, counts
<1> QED
  BY <1>1, FrameInv DEF HostCall, known, counts

LEMMA DeadlineInv ==
  ASSUME IInv, NEW c \in Conns, Deadline(c)
  PROVE  IInv'
<1>1. TypeOK'
  BY DEF Deadline, IInv, TypeOK, process, threads, known, counts
<1> QED
  BY <1>1, FrameInv DEF Deadline, known, counts

LEMMA ClientGoesInv ==
  ASSUME IInv, NEW c \in Conns, ClientGoes(c)
  PROVE  IInv'
<1>1. TypeOK'
  BY DEF ClientGoes, IInv, TypeOK, process, threads, known, calls, counts
<1> QED
  BY <1>1, FrameInv DEF ClientGoes, known, calls, counts

LEMMA ProcessInv ==
  ASSUME IInv, ProcessStep \/ Signal
  PROVE  IInv'
<1>1. TypeOK'
  BY DEF ProcessStep, Initialize, BeginShutdown, EndShutdown, ShutdownTimeout,
         Dump, DumpLimiter, Signal, Enter, rest, IInv, TypeOK, threads, known,
         calls, counts, Starting, Dumping
<1>2. UNCHANGED rest
  BY DEF ProcessStep, Initialize, BeginShutdown, EndShutdown, ShutdownTimeout,
         Dump, DumpLimiter, Signal
<1> QED
  BY <1>1, <1>2, FrameInv DEF rest, known, calls, counts

LEMMA OtherInv ==
  ASSUME IInv, OtherStep
  PROVE  IInv'
<1>1. CASE \E e \in Event : e.src = Other /\ Publish(e)
  BY <1>1, PublishInv
<1>2. CASE /\ kept' = TRUE
           /\ UNCHANGED <<process, threads, sock, known, calls, counts>>
  <2>1. TypeOK'
    BY <1>2 DEF IInv, TypeOK, process, threads, known, calls, counts
  <2> QED
    BY <1>2, <2>1, FrameInv DEF known, calls, counts
<1> QED
  BY <1>1, <1>2 DEF OtherStep

-----------------------------------------------------------------------------
LEMMA StepInv ==
  ASSUME IInv, [Next]_vars
  PROVE  IInv'
<1>1. ASSUME NEW c \in Conns, ConnStep(c) PROVE IInv'
  <2>1. CASE SetupStep(c)
    BY <2>1, IdentifyInv, AttachInv, JoinInv, UpgradeInv DEF SetupStep
  <2>2. CASE WriteStep(c)
    BY <2>2, DeliverInv, ServingInv DEF WriteStep
  <2>3. CASE LimiterStep(c)
    BY <2>3, RegisterInv, AdmitInv, DumpRequestsInv DEF LimiterStep
  <2>4. CASE UserStep(c)
    <3>1. ASSUME NEW t \in {Main(c), Writer(c)}, HostCall(t) \/ PublishOwn(t)
          PROVE  IInv'
      <4>1. t \in Threads
        BY DEF Threads, Main, Writer
      <4> QED
        BY <3>1, <4>1, HostCallInv, PublishInv DEF PublishOwn
    <3> QED
      BY <2>4, <3>1, EndOnJoinInv, EndOnMessageInv, EndOnLeaveInv DEF UserStep
  <2>5. CASE ClientStep(c)
    BY <2>5, AcceptInv, ReadInv, EndReadInv, ClientGoesInv DEF ClientStep
  <2>6. CASE LeaveStep(c)
    BY <2>6, LeaveRoomInv, CloseConnInv, HangupInv DEF LeaveStep
  <2>7. CASE Deadline(c)
    BY <2>7, DeadlineInv
  <2> QED
    BY <1>1, <2>1, <2>2, <2>3, <2>4, <2>5, <2>6, <2>7 DEF ConnStep
<1>2. CASE ProcessStep \/ Signal
  BY <1>2, ProcessInv
<1>3. CASE OtherStep
  BY <1>3, OtherInv
<1>4. CASE UNCHANGED vars
  <2>1. TypeOK'
    BY <1>4 DEF IInv, TypeOK, vars, process, threads, known, calls, counts
  <2> QED
    BY <1>4, <2>1, FrameInv DEF vars, known, calls, counts
<1> QED
  BY <1>1, <1>2, <1>3, <1>4 DEF Next

(* The inductive invariant (server.go:171-301). *)
THEOREM Invariance == Spec => []IInv
<1>1. Init => IInv
  BY InitInv
<1>2. IInv /\ [Next]_vars => IInv'
  BY StepInv
<1> QED
  BY <1>1, <1>2, PTL DEF Spec

(* Every variable keeps its type. *)
THEOREM TypeCorrect == Spec => []TypeOK
BY Invariance, PTL DEF IInv

(* A connection that is served has its place in every component.           *)
(* (server.go:171-251)                                                     *)
THEOREM ServedAreKnown == Spec => []ServedIsKnown
<1>1. IInv => ServedIsKnown
  BY DEF IInv, ConnInv, CleanupInv, ServedIsKnown, Served, Writing
<1> QED
  BY <1>1, Invariance, PTL

(* A connection whose cleanup is over holds nothing, but for its place in  *)
(* the room if LeaveRoom failed (server.go:271-301).                       *)
THEOREM ClosedAreForgotten == Spec => []ClosedIsForgotten
<1>1. IInv => ClosedIsForgotten
  BY DEF IInv, ConnInv, CleanupInv, ClosedIsForgotten
<1> QED
  BY <1>1, Invariance, PTL

(* The gauge counts the connections between their upgrade and the end of   *)
(* their cleanup (server.go:252 and 299).                                  *)
THEOREM GaugeIsExact == Spec => []GaugeCountsOpen
BY Invariance, PTL DEF IInv
=============================================================================
