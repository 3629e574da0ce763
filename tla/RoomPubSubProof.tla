-------------------------- MODULE RoomPubSubProof ---------------------------
(***************************************************************************)
(* Theorems about RoomPubSub: for any nodes, connections and addresses,    *)
(* any number of messages and any failures.                                *)
(*                                                                         *)
(* What IInv adds to the properties:                                       *)
(*   - EntryInv: a channel is in one place, so closing it and removing     *)
(*     that place leaves no closed channel to fan out to;                  *)
(*   - IdInv: what the reconnect key of an address holds was created by a  *)
(*     connection from there;                                              *)
(*   - LastInv: of the users who leave, the one with the last SREM has     *)
(*     not yet read SCARD, or has read zero, until its node unsubscribes;  *)
(*   - OrderInv: seen, channel and wire follow one another.                *)
(***************************************************************************)
EXTENDS RoomPubSub, SequenceTheorems, TLAPS

(* How far a connection has come. *)
PcInv ==
  \A c \in Conns :
    /\ pc[c] = "new" => id[c] = None
    /\ pc[c] \notin {"new", "done"} => id[c] # None
    /\ pc[c] = "add" => ref[c] # None

(* A node registers its own pubSub objects, and exactly those that live. *)
RegistryInv ==
  /\ \A n \in Nodes : roomChans[n] # None => NodeOf[roomChans[n]] = n
  /\ LiveIffRegistered

(* An id was created by a connection from the address that keeps it. *)
IdInv ==
  /\ \A c \in Conns : id[c] # None => IpOf[id[c]] = IpOf[c]
  /\ \A a \in Ips : reconnect[a] # None => IpOf[reconnect[a]] = a

(* A channel is in one place of one pubSub and open while it is there; it   *)
(* is untouched before. *)
Added(c) == pc[c] \notin {"new", "sadd", "sub", "add"}
Entered(h, p, i) == id[h] = i /\ ref[h] = p /\ Added(h) /\ ~closed[h]
EntryInv ==
  /\ \A p, i, h \in Conns : userChans[p][i] = h => Entered(h, p, i)
  /\ \A c \in Conns : ~Added(c) => ~closed[c] /\ buf[c] = <<>> /\ seen[c] = 0

(* When nobody is between SADD and SREM and no call failed, the one with   *)
(* the last SREM is about to find the room empty, has found it so, or its  *)
(* node has no subscription.                                               *)
Past(c) == pc[c] \in {"new", "scard", "store", "del", "cancel", "remove", "done"}
Ends(c) == \/ pc[c] \in {"scard", "del", "cancel"}
           \/ pc[c] = "store" /\ last[c]
           \/ roomChans[NodeOf[c]] = None
LastInv ==
  (lastOut # None /\ \A c \in Conns : Past(c) /\ ~lost[c]) => Ends(lastOut)

(* Messages are numbered as they are published; what a client has seen, *)
(* what is in its channel and what is on the way follow one another. *)
Ascending(q) == \A j, k \in DOMAIN q : j < k => q[j].n < q[k].n
Above(q, x) == \A k \in DOMAIN q : x < q[k].n
UpTo(q, x) == \A k \in DOMAIN q : q[k].n <= x
InLine(h, p) ==
  /\ Ascending(buf[h]) /\ Above(buf[h], seen[h]) /\ Above(wire[p], seen[h])
  /\ \A k \in DOMAIN buf[h] : Above(wire[p], buf[h][k].n)
OrderInv ==
  /\ \A p \in Conns : Ascending(wire[p]) /\ Above(wire[p], 0) /\ UpTo(wire[p], sent)
  /\ \A c \in Conns : seen[c] <= sent /\ UpTo(buf[c], sent)
  /\ \A p, i, h \in Conns : userChans[p][i] = h => InLine(h, p)

IInv ==
  /\ TypeOK /\ PcInv /\ RegistryInv /\ IdInv /\ EntryInv
  /\ MembersArePresent /\ LastInv /\ OrderInv

-----------------------------------------------------------------------------
(* Types. *)

(* A PubSub hands every message to the channels it has. *)
LEMMA FanOutTypes ==
  ASSUME TypeOK, NEW p \in Conns, FanOut(p)
  PROVE  wire' \in [Conns -> Seq(Msg)] /\ buf' \in [Conns -> Seq(Msg)]
<1>1. wire[p] \in Seq(Msg) /\ wire[p] # <<>>
  BY DEF FanOut, TypeOK
<1>2. Tail(wire[p]) \in Seq(Msg) /\ Head(wire[p]) \in Msg
  BY <1>1, HeadTailProperties
<1>3. \A h \in Conns : Append(buf[h], Head(wire[p])) \in Seq(Msg)
  BY <1>2, AppendProperties DEF TypeOK
<1> QED
  BY <1>2, <1>3 DEF FanOut, Take, TypeOK

LEMMA RemoveTypes ==
  ASSUME TypeOK, NEW p, NEW i, RemoveUser(p, i)
  PROVE  closed' \in [Conns -> BOOLEAN] /\ userChans' \in [Conns -> [Conns -> Ptr]]
<1>1. closed' \in [Conns -> BOOLEAN]
  BY DEF RemoveUser, TypeOK
<1>2. userChans' = [userChans EXCEPT ![p] = [userChans[p] EXCEPT ![i] = None]]
  BY DEF RemoveUser, DeleteEntry
<1>3. p \in Conns => [userChans[p] EXCEPT ![i] = None] \in [Conns -> Ptr]
  BY DEF TypeOK, Ptr
<1> QED
  BY <1>1, <1>2, <1>3 DEF TypeOK

LEMMA MoveTypes ==
  ASSUME TypeOK, NEW c \in Conns, NEW to \in PC,
         (Goto(c, to) /\ UNCHANGED lost) \/ GiveUp(c)
  PROVE  pc' \in [Conns -> PC] /\ lost' \in [Conns -> BOOLEAN]
<1>1. "done" \in PC
  BY DEF PC
<1>2. pc' = [pc EXCEPT ![c] = to] \/ pc' = [pc EXCEPT ![c] = "done"]
  BY DEF Goto, GiveUp
<1>3. lost' = lost \/ lost' = [lost EXCEPT ![c] = TRUE]
  BY DEF GiveUp
<1>4. pc \in [Conns -> PC] /\ lost \in [Conns -> BOOLEAN]
  BY DEF TypeOK
<1>5. pc' \in [Conns -> PC]
  BY <1>1, <1>2, <1>4
<1>6. lost' \in [Conns -> BOOLEAN]
  BY <1>3, <1>4
<1> QED
  BY <1>5, <1>6

LEMMA TypeStep ==
  ASSUME TypeOK, PcInv, Next
  PROVE  TypeOK'
<1> USE RoomAssumption DEF redisVars, psVars, chanVars, local, history, Goto
<1>1. CASE \E c \in Conns : JoinStep(c)
  <2> PICK c \in Conns : JoinStep(c)
    BY <1>1
  <2>1. CASE CheckUserID(c)
    <3>1. UserId(c) \in Conns
      BY DEF TypeOK, UserId, Ptr
    <3>2. id' = [id EXCEPT ![c] = UserId(c)] \/ id' = id
      BY <2>1 DEF CheckUserID
    <3>3. id' \in [Conns -> Ptr]
      <4>1. id \in [Conns -> Ptr] /\ UserId(c) \in Ptr
        BY <3>1 DEF TypeOK, Ptr
      <4> QED
        BY <3>2, <4>1
    <3>4. pc' \in [Conns -> PC]
      BY <2>1 DEF TypeOK, CheckUserID, PC
    <3> QED
      BY <2>1, <3>3, <3>4 DEF TypeOK, CheckUserID
  <2>2. CASE AddToSet(c)
    <3>1. id[c] \in Conns
      BY <2>2 DEF AddToSet, TypeOK, PcInv, Ptr
    <3> QED
      BY <2>2, <3>1, MoveTypes DEF TypeOK, AddToSet, Command, PC
  <2>3. CASE GetPubSub(c)
    <3>1. PubSubOf(c) \in Conns
      BY DEF TypeOK, PubSubOf, Ptr
    <3> QED
      BY <2>3, <3>1 DEF TypeOK, GetPubSub, Ptr, PC, Feed
  <2>4. CASE AddUser(c)
    <3>1. id[c] \in Conns /\ ref[c] \in Conns
      BY <2>4 DEF AddUser, TypeOK, PcInv, Ptr
    <3>2. userChans' \in [Conns -> [Conns -> Ptr]]
      BY <2>4, <3>1 DEF AddUser, TypeOK, Ptr
    <3> QED
      BY <2>4, <3>2 DEF TypeOK, AddUser, PC
  <2>5. CASE Upgrade(c)
    BY <2>5, MoveTypes DEF TypeOK, Upgrade, PC
  <2> QED
    BY <2>1, <2>2, <2>3, <2>4, <2>5 DEF JoinStep
<1>2. CASE \E c \in Conns : Read(c)
  <2> PICK c \in Conns : Read(c)
    BY <1>2
  <2>1. Tail(buf[c]) \in Seq(Msg) /\ Head(buf[c]) \in Msg
    BY HeadTailProperties DEF Read, TypeOK
  <2>2. buf' \in [Conns -> Seq(Msg)] /\ seen' \in [Conns -> Nat]
    BY <2>1 DEF Read, TypeOK, Msg
  <2> QED
    BY <2>2 DEF Read, TypeOK
<1>3. CASE \E c \in Conns : EndServe(c)
  BY <1>3 DEF EndServe, TypeOK, PC
<1>4. CASE \E c \in Conns : LeaveStep(c)
  <2> PICK c \in Conns : LeaveStep(c)
    BY <1>4
  <2>1. CASE RemFromSet(c)
    <3>1. users' \subseteq Conns
      BY <2>1 DEF TypeOK, RemFromSet, Others, Command
    <3>2. pc' \in [Conns -> PC] /\ lost' \in [Conns -> BOOLEAN]
      BY <2>1, MoveTypes DEF RemFromSet, Command, PC
    <3> QED
      BY <2>1, <3>1, <3>2 DEF TypeOK, RemFromSet, Ptr
  <2>2. CASE CountSet(c)
    <3>1. last' \in [Conns -> BOOLEAN]
      BY <2>2 DEF TypeOK, CountSet, NoneLeft, Command
    <3>2. pc' \in [Conns -> PC] /\ lost' \in [Conns -> BOOLEAN]
      BY <2>2, MoveTypes DEF CountSet, Command, PC
    <3> QED
      BY <2>2, <3>1, <3>2 DEF TypeOK, CountSet
  <2>3. CASE StoreId(c)
    <3>1. reconnect' \in [Ips -> Ptr]
      BY <2>3 DEF TypeOK, StoreId, ClientKey, Command
    <3>2. pc' \in [Conns -> PC] /\ lost' \in [Conns -> BOOLEAN]
      BY <2>3, MoveTypes DEF StoreId, Command, PC
    <3> QED
      BY <2>3, <3>1, <3>2 DEF TypeOK, StoreId
  <2>4. CASE DelSet(c)
    <3>1. users' \subseteq Conns
      BY <2>4 DEF TypeOK, DelSet, Command
    <3>2. pc' \in [Conns -> PC] /\ lost' \in [Conns -> BOOLEAN]
      BY <2>4, MoveTypes DEF DelSet, Command, PC
    <3> QED
      BY <2>4, <3>1, <3>2 DEF TypeOK, DelSet
  <2>5. CASE CancelPubSub(c)
    <3>1. closed' \in [Conns -> BOOLEAN] /\ userChans' \in [Conns -> [Conns -> Ptr]]
      BY <2>5, RemoveTypes DEF CancelPubSub, TypeOK
    <3>2. pc' \in [Conns -> PC]
      BY <2>5 DEF CancelPubSub, TypeOK, PC
    <3>3. feed' \in [Conns -> Feed]
      BY <2>5 DEF CancelPubSub, TypeOK, Feed
    <3>4. roomChans' \in [Nodes -> Ptr]
      BY <2>5 DEF CancelPubSub, TypeOK, Ptr
    <3> QED
      BY <2>5, <3>1, <3>2, <3>3, <3>4 DEF CancelPubSub, TypeOK
  <2>6. CASE RemoveFromPubSub(c)
    <3>1. closed' \in [Conns -> BOOLEAN] /\ userChans' \in [Conns -> [Conns -> Ptr]]
      BY <2>6, RemoveTypes DEF RemoveFromPubSub, TypeOK
    <3>2. pc' \in [Conns -> PC]
      BY <2>6 DEF RemoveFromPubSub, TypeOK, PC
    <3> QED
      BY <2>6, <3>1, <3>2 DEF RemoveFromPubSub, TypeOK
  <2> QED
    BY <2>1, <2>2, <2>3, <2>4, <2>5, <2>6 DEF LeaveStep
<1>5. CASE \E c \in Conns, s, d \in Ptr : Publish(c, s, d)
  <2> PICK c \in Conns, s \in Ptr, d \in Ptr : Publish(c, s, d)
    BY <1>5
  <2> DEFINE m == [n |-> sent + 1, src |-> s, dst |-> d]
  <2>1. m \in Msg /\ sent' \in Nat
    BY DEF Msg, TypeOK, Publish
  <2>2. \A p \in Conns : Append(wire[p], m) \in Seq(Msg)
    BY <2>1, AppendProperties DEF TypeOK
  <2>3. wire' \in [Conns -> Seq(Msg)]
    BY <2>2 DEF Publish, TypeOK
  <2> QED
    BY <2>1, <2>3 DEF Publish, TypeOK
<1>6. CASE \E p \in Conns : Subscribed(p)
  BY <1>6 DEF Subscribed, TypeOK, Feed
<1>7. CASE \E p \in Conns : FanOut(p)
  BY <1>7, FanOutTypes DEF FanOut, TypeOK
<1>8. CASE \E p \in Conns : FanExit(p)
  BY <1>8 DEF FanExit, TypeOK, Feed
<1>9. CASE \E p \in Conns : Lose(p)
  <2> PICK p \in Conns : Lose(p)
    BY <1>9
  <2>1. Tail(wire[p]) \in Seq(Msg)
    BY HeadTailProperties DEF Lose, TypeOK
  <2> QED
    BY <2>1 DEF Lose, Take, TypeOK
<1>10. CASE \E a \in Ips : ExpireId(a)
  BY <1>10 DEF ExpireId, TypeOK, Ptr
<1>11. CASE \E n \in Nodes : Crash(n)
  BY <1>11 DEF Crash, TypeOK, Ptr, PC, Feed
<1> QED
  BY <1>1, <1>2, <1>3, <1>4, <1>5, <1>6, <1>7, <1>8, <1>9, <1>10, <1>11 DEF Next

-----------------------------------------------------------------------------
(* Connections: where they are, and what they keep. *)

(* Those that only messages and keys are about. *)
Quiet ==
  \/ \E c \in Conns : Read(c)
  \/ \E c \in Conns, s, d \in Ptr : Publish(c, s, d)
  \/ \E p \in Conns : Subscribed(p) \/ FanOut(p) \/ FanExit(p) \/ Lose(p)
  \/ \E a \in Ips : ExpireId(a)

LEMMA QuietStep ==
  ASSUME Quiet
  PROVE  UNCHANGED <<users, roomChans, userChans, closed, pc, local, lost>>
BY DEF Quiet, Read, Publish, Subscribed, FanOut, FanExit, Lose, ExpireId,
       redisVars, psVars, chanVars, local, history

(* The steps of a connection, and a crash. *)
LEMMA StepKinds ==
  Next <=> \/ \E c \in Conns : JoinStep(c) \/ EndServe(c) \/ LeaveStep(c)
           \/ Quiet
           \/ \E n \in Nodes : Crash(n)
BY DEF Next, Quiet

(* One step of one connection.  A call that fails ends it, which is noted   *)
(* except for CheckUserID. *)
Moves ==
  {<<"new", "sadd">>, <<"new", "done">>, <<"sadd", "sub">>, <<"sub", "add">>,
   <<"add", "joined">>, <<"joined", "serve">>, <<"serve", "srem">>,
   <<"srem", "scard">>, <<"scard", "store">>, <<"store", "del">>,
   <<"store", "remove">>, <<"del", "cancel">>, <<"cancel", "done">>,
   <<"remove", "done">>}
LEMMA ConnStep ==
  ASSUME TypeOK, NEW c \in Conns, JoinStep(c) \/ EndServe(c) \/ LeaveStep(c)
  PROVE  /\ \A d \in Conns \ {c} :
              UNCHANGED <<pc[d], id[d], ref[d], last[d], lost[d]>>
         /\ \/ <<pc[c], pc'[c]>> \in Moves /\ lost'[c] = lost[c]
            \/ pc'[c] = "done" /\ lost'[c]
         /\ pc[c] # "done"
         /\ lost[c] => lost'[c]
         /\ id'[c] = IF pc[c] = "new" /\ pc'[c] = "sadd" THEN UserId(c) ELSE id[c]
         /\ ref'[c] = IF pc[c] = "sub" THEN PubSubOf(c) ELSE ref[c]
         /\ pc[c] = "cancel" \/ pc[c] = "sub" \/ UNCHANGED roomChans
         /\ lastOut' = IF pc[c] = "srem" THEN c ELSE lastOut
<1> USE DEF redisVars, psVars, chanVars, local, history, Goto, Moves, TypeOK
<1>1. CASE CheckUserID(c)
  BY <1>1 DEF CheckUserID
<1>2. CASE AddToSet(c)
  BY <1>2 DEF AddToSet, Command, GiveUp
<1>3. CASE GetPubSub(c)
  BY <1>3 DEF GetPubSub
<1>4. CASE AddUser(c)
  BY <1>4 DEF AddUser
<1>5. CASE Upgrade(c)
  BY <1>5 DEF Upgrade, GiveUp
<1>6. CASE EndServe(c)
  BY <1>6 DEF EndServe
<1>7. CASE RemFromSet(c)
  BY <1>7 DEF RemFromSet, Command, GiveUp
<1>8. CASE CountSet(c)
  BY <1>8 DEF CountSet, Command, GiveUp
<1>9. CASE StoreId(c)
  BY <1>9 DEF StoreId, Command, GiveUp
<1>10. CASE DelSet(c)
  BY <1>10 DEF DelSet, Command, GiveUp
<1>11. CASE CancelPubSub(c)
  BY <1>11 DEF CancelPubSub
<1>12. CASE RemoveFromPubSub(c)
  BY <1>12 DEF RemoveFromPubSub
<1> QED
  BY <1>1, <1>2, <1>3, <1>4, <1>5, <1>6, <1>7, <1>8, <1>9, <1>10, <1>11, <1>12
     DEF JoinStep, LeaveStep

LEMMA UserIdType ==
  ASSUME TypeOK, NEW c \in Conns
  PROVE  UserId(c) \in Conns /\ PubSubOf(c) \in Conns
BY RoomAssumption DEF TypeOK, UserId, PubSubOf, Ptr

(* What a crash does to connections. *)
LEMMA CrashStep ==
  ASSUME TypeOK, NEW n \in Nodes, Crash(n)
  PROVE  /\ \A c \in Conns :
              \/ UNCHANGED <<pc[c], lost[c]>>
              \/ pc[c] \notin {"new", "done"} /\ pc'[c] = "done" /\ lost'[c]
         /\ \E c \in Conns : lost'[c]
         /\ UNCHANGED <<users, reconnect, userChans, closed, buf, local, seen, sent>>
<1> DEFINE gone == {c \in Conns : NodeOf[c] = n /\ pc[c] \notin {"new", "done"}}
<1>1. /\ gone # {}
      /\ pc' = [c \in Conns |-> IF c \in gone THEN "done" ELSE pc[c]]
      /\ lost' = [c \in Conns |-> c \in gone \/ lost[c]]
      /\ UNCHANGED <<redisVars, userChans, chanVars, local, seen, sent>>
  BY DEF Crash
<1>2. ASSUME NEW c \in Conns
      PROVE  \/ UNCHANGED <<pc[c], lost[c]>>
             \/ pc[c] \notin {"new", "done"} /\ pc'[c] = "done" /\ lost'[c]
  <2>1. CASE c \in gone
    BY <1>1, <2>1
  <2>2. CASE c \notin gone
    <3>1. pc'[c] = pc[c]
      BY <1>1, <2>2
    <3>2. lost'[c] = (c \in gone \/ lost[c])
      BY <1>1
    <3>3. lost[c] \in BOOLEAN
      BY DEF TypeOK
    <3> QED
      BY <2>2, <3>1, <3>2, <3>3
  <2> QED
    BY <2>1, <2>2
<1>3. PICK c \in Conns : c \in gone
  BY <1>1
<1>4. lost'[c]
  BY <1>1, <1>3
<1> QED
  BY <1>1, <1>2, <1>4 DEF redisVars, chanVars

(* Nobody who has joined changes id or pubSub; what is noted stays noted. *)
LEMMA Steady ==
  ASSUME TypeOK, Next, NEW c \in Conns
  PROVE  /\ Added(c) => Added(c)' /\ UNCHANGED <<id[c], ref[c]>>
         /\ lost[c] => lost'[c]
         /\ pc[c] # "new" => UNCHANGED id[c]
<1>1. CASE \E d \in Conns : JoinStep(d) \/ EndServe(d) \/ LeaveStep(d)
  BY <1>1, ConnStep DEF Added, Moves
<1>2. CASE Quiet
  BY <1>2, QuietStep DEF Added, local
<1>3. CASE \E n \in Nodes : Crash(n)
  BY <1>3, CrashStep DEF Added, local
<1> QED
  BY <1>1, <1>2, <1>3, StepKinds

LEMMA PcStep ==
  ASSUME TypeOK, PcInv, Next
  PROVE  PcInv'
<1>1. ASSUME NEW c \in Conns, JoinStep(c) \/ EndServe(c) \/ LeaveStep(c)
      PROVE  PcInv'
  <2>1. ASSUME NEW d \in Conns, d # c
        PROVE  UNCHANGED <<pc[d], id[d], ref[d]>>
    BY <1>1, <2>1, ConnStep
  <2>2. /\ <<pc[c], pc'[c]>> \in Moves \/ pc'[c] = "done"
        /\ id'[c] = IF pc[c] = "new" /\ pc'[c] = "sadd" THEN UserId(c) ELSE id[c]
        /\ ref'[c] = IF pc[c] = "sub" THEN PubSubOf(c) ELSE ref[c]
    BY <1>1, ConnStep
  <2>3. /\ pc'[c] = "new" => id'[c] = None
        /\ pc'[c] \notin {"new", "done"} => id'[c] # None
        /\ pc'[c] = "add" => ref'[c] # None
    BY <2>2, UserIdType, RoomAssumption DEF PcInv, Moves
  <2> QED
    BY <2>1, <2>3 DEF PcInv
<1>2. CASE Quiet
  BY <1>2, QuietStep DEF PcInv, local
<1>3. CASE \E n \in Nodes : Crash(n)
  BY <1>3, CrashStep DEF PcInv, local
<1> QED
  BY <1>1, <1>2, <1>3, StepKinds

-----------------------------------------------------------------------------
(* The ids of connections and the keys kept for reconnections. *)

LEMMA IdStep ==
  ASSUME TypeOK, IdInv, Next
  PROVE  IdInv'
<1>1. ASSUME NEW c \in Conns PROVE (id[c] # None => IpOf[id[c]] = IpOf[c])'
  <2>1. id'[c] = id[c] \/ id'[c] = UserId(c)
    <3>1. CASE \E d \in Conns : JoinStep(d) \/ EndServe(d) \/ LeaveStep(d)
      BY <3>1, ConnStep
    <3>2. CASE Quiet
      BY <3>2, QuietStep DEF local
    <3>3. CASE \E n \in Nodes : Crash(n)
      BY <3>3, CrashStep DEF local
    <3> QED
      BY <3>1, <3>2, <3>3, StepKinds
  <2>2. IpOf[UserId(c)] = IpOf[c]
    BY RoomAssumption DEF IdInv, UserId
  <2> QED
    BY <2>1, <2>2 DEF IdInv
<1>2. ASSUME NEW a \in Ips PROVE (reconnect[a] # None => IpOf[reconnect[a]] = a)'
  <2>1. CASE UNCHANGED reconnect
    BY <2>1 DEF IdInv
  <2>2. CASE \E c \in Conns : StoreId(c)
    <3> PICK c \in Conns : StoreId(c)
      BY <2>2
    <3>1. reconnect' = reconnect \/ reconnect' = ClientKey(c)
      BY DEF StoreId, Command
    <3> QED
      BY <3>1 DEF IdInv, ClientKey, TypeOK
  <2>3. CASE \E b \in Ips : ExpireId(b)
    BY <2>3 DEF ExpireId, IdInv, TypeOK
  <2> QED
    BY <2>1, <2>2, <2>3
       DEF Next, JoinStep, LeaveStep, CheckUserID, AddToSet, GetPubSub, AddUser,
           Upgrade, Read, EndServe, RemFromSet, CountSet, DelSet, CancelPubSub,
           RemoveFromPubSub, Publish, Subscribed, FanOut, FanExit, Lose, Crash,
           redisVars
<1> QED
  BY <1>1, <1>2 DEF IdInv

-----------------------------------------------------------------------------
(* The set of the room's users. *)

LEMMA MembersStep ==
  ASSUME TypeOK, PcInv, MembersArePresent, Next
  PROVE  MembersArePresent'
<1> DEFINE Backs(c, i) == id[c] = i /\ (Present(c) \/ lost[c])
<1> SUFFICES ASSUME NEW i \in users' PROVE \E c \in Conns : Backs(c, i)'
  BY DEF MembersArePresent
<1>1. i \in Conns
  BY TypeStep DEF TypeOK
<1>2. CASE \E c \in Conns : AddToSet(c) /\ i = id[c]
  <2> PICK c \in Conns : AddToSet(c) /\ i = id[c]
    BY <1>2
  <2>1. id'[c] = id[c] /\ (pc'[c] = "sub" \/ lost'[c])
    BY DEF AddToSet, Command, GiveUp, Goto, local, TypeOK
  <2> QED
    BY <2>1 DEF Present
<1>3. CASE i \in users /\ ~\E c \in Conns : RemFromSet(c) /\ id[c] = i
  <2>1. PICK c \in Conns : Backs(c, i)
    BY <1>3 DEF MembersArePresent
  <2>2. pc[c] # "new"
    BY <1>1, <2>1, RoomAssumption DEF PcInv
  <2>3. id'[c] = i /\ (lost[c] => lost'[c])
    BY <2>1, <2>2, Steady
  <2>4. Present(c) => Present(c)' \/ lost'[c]
    <3> SUFFICES ASSUME Present(c) PROVE Present(c)' \/ lost'[c]
      OBVIOUS
    <3>1. CASE RemFromSet(c)
      BY <1>3, <2>1, <3>1
    <3>2. CASE \E d \in Conns : JoinStep(d) \/ EndServe(d) \/ LeaveStep(d)
      <4>1. pc'[c] = pc[c] \/ <<pc[c], pc'[c]>> \in Moves \/ lost'[c]
        BY <3>2, ConnStep
      <4>2. pc[c] = "srem" => pc'[c] = pc[c] \/ lost'[c]
        <5> SUFFICES ASSUME pc[c] = "srem", ~RemFromSet(c)
                     PROVE  pc'[c] = pc[c] \/ lost'[c]
          BY <1>3, <2>1
        <5> PICK d \in Conns : JoinStep(d) \/ EndServe(d) \/ LeaveStep(d)
          BY <3>2
        <5>1. d # c
          BY DEF JoinStep, EndServe, LeaveStep, CheckUserID, AddToSet, GetPubSub,
                 AddUser, Upgrade, CountSet, StoreId, DelSet, CancelPubSub,
                 RemoveFromPubSub
        <5> QED
          BY <5>1, ConnStep
      <4> QED
        BY <4>1, <4>2 DEF Present, Moves
    <3>3. CASE Quiet
      BY <3>3, QuietStep DEF Present
    <3>4. CASE \E n \in Nodes : Crash(n)
      BY <3>4, CrashStep DEF Present
    <3> QED
      BY <3>1, <3>2, <3>3, <3>4, StepKinds
  <2> QED
    BY <2>1, <2>3, <2>4
<1>4. CASE i \in users /\ \E c \in Conns : RemFromSet(c) /\ id[c] = i
  <2> PICK c \in Conns : RemFromSet(c) /\ id[c] = i
    BY <1>4
  <2>1. users' # Others(c)
    BY DEF Others
  <2>2. lost'[c] /\ id'[c] = i
    BY <2>1 DEF RemFromSet, Command, GiveUp, local, TypeOK
  <2> QED
    BY <2>2
<1>5. i \in users \/ \E c \in Conns : AddToSet(c) /\ i = id[c]
  BY DEF Next, JoinStep, LeaveStep, CheckUserID, AddToSet, GetPubSub, AddUser,
         Upgrade, Read, EndServe, RemFromSet, Others, CountSet, StoreId, DelSet,
         CancelPubSub, RemoveFromPubSub, Command, Publish, Subscribed, FanOut,
         FanExit, Lose, ExpireId, Crash, redisVars
<1> QED
  BY <1>2, <1>3, <1>4, <1>5

-----------------------------------------------------------------------------
(* The pubSub objects of the nodes. *)

LEMMA RegistryStep ==
  ASSUME TypeOK, RegistryInv, Next
  PROVE  RegistryInv'
<1> USE RoomAssumption DEF psVars
<1>1. CASE \E c \in Conns : GetPubSub(c)
  <2> PICK c \in Conns : GetPubSub(c)
    BY <1>1
  <2> DEFINE p == PubSubOf(c)
  <2>1. /\ roomChans' = [roomChans EXCEPT ![NodeOf[c]] = p]
        /\ feed' = IF p = c THEN [feed EXCEPT ![p] = "asked"] ELSE feed
    BY DEF GetPubSub
  <2>2. NodeOf[p] = NodeOf[c] /\ (p # c => roomChans[NodeOf[c]] = p)
    BY DEF PubSubOf, RegistryInv
  <2>3. p \in Conns /\ (roomChans[NodeOf[c]] = None \/ roomChans[NodeOf[c]] = p)
    BY UserIdType DEF PubSubOf
  <2> HIDE DEF p
  <2>4. \A n \in Nodes : roomChans'[n] # None => NodeOf[roomChans'[n]] = n
    BY <2>1, <2>2 DEF RegistryInv, TypeOK
  <2>5. ASSUME NEW q \in Conns
        PROVE  Live(q)' <=> roomChans'[NodeOf[q]] = q
    <3>1. CASE q = p
      <4>1. roomChans'[NodeOf[q]] = q
        BY <2>1, <2>2, <3>1 DEF TypeOK
      <4>2. Live(q)'
        BY <2>1, <2>2, <2>3, <3>1 DEF RegistryInv, LiveIffRegistered, Live, TypeOK
      <4> QED
        BY <4>1, <4>2
    <3>2. CASE q # p
      <4>1. feed'[q] = feed[q]
        BY <2>1, <3>2 DEF TypeOK
      <4>2. roomChans'[NodeOf[q]] = q <=> roomChans[NodeOf[q]] = q
        BY <2>1, <2>3, <3>2 DEF TypeOK
      <4> QED
        BY <4>1, <4>2 DEF RegistryInv, LiveIffRegistered, Live
    <3> QED
      BY <3>1, <3>2
  <2> QED
    BY <2>4, <2>5 DEF RegistryInv, LiveIffRegistered
<1>2. CASE \E p \in Conns : Subscribed(p) \/ FanExit(p)
  <2> PICK p \in Conns : Subscribed(p) \/ FanExit(p)
    BY <1>2
  <2>1. ASSUME NEW q \in Conns PROVE Live(q)' <=> Live(q)
    BY DEF Subscribed, FanExit, Live, TypeOK
  <2> QED
    BY <2>1 DEF Subscribed, FanExit, RegistryInv, LiveIffRegistered
<1>3. CASE \E c \in Conns : CancelPubSub(c)
  <2> PICK c \in Conns : CancelPubSub(c)
    BY <1>3
  <2> DEFINE n == NodeOf[c]
             p == roomChans[n]
  <2>1. CASE p = None
    BY <2>1 DEF CancelPubSub, RegistryInv, LiveIffRegistered, Live
  <2>2. CASE p # None
    <3>1. /\ roomChans' = [roomChans EXCEPT ![n] = None]
          /\ feed' = [feed EXCEPT ![p] = "closed"]
      BY <2>2 DEF CancelPubSub
    <3>2. p \in Conns /\ NodeOf[p] = n
      BY <2>2 DEF RegistryInv, TypeOK, Ptr
    <3>3. ASSUME NEW q \in Conns
          PROVE  Live(q)' <=> roomChans'[NodeOf[q]] = q
      BY <3>1, <3>2 DEF RegistryInv, LiveIffRegistered, Live, TypeOK
    <3>4. \A m \in Nodes : roomChans'[m] # None => NodeOf[roomChans'[m]] = m
      BY <3>1 DEF RegistryInv, TypeOK
    <3> QED
      BY <3>3, <3>4 DEF RegistryInv, LiveIffRegistered
  <2> QED
    BY <2>1, <2>2
<1>4. CASE \E n \in Nodes : Crash(n)
  <2> PICK n \in Nodes : Crash(n)
    BY <1>4
  <2>1. /\ feed' = [p \in Conns |-> IF NodeOf[p] = n /\ feed[p] # "none"
                                     THEN "stopped" ELSE feed[p]]
        /\ roomChans' = [roomChans EXCEPT ![n] = None]
    BY DEF Crash
  <2> QED
    BY <2>1 DEF RegistryInv, LiveIffRegistered, Live, TypeOK
<1>5. CASE UNCHANGED <<feed, roomChans>>
  BY <1>5 DEF RegistryInv, LiveIffRegistered, Live
<1> QED
  BY <1>1, <1>2, <1>3, <1>4, <1>5
     DEF Next, JoinStep, LeaveStep, CheckUserID, AddToSet, AddUser, Upgrade, Read,
         EndServe, RemFromSet, CountSet, StoreId, DelSet, RemoveFromPubSub,
         Publish, FanOut, Lose, ExpireId

-----------------------------------------------------------------------------
(* The channels. *)

LEMMA RemoveUserInv ==
  ASSUME TypeOK, EntryInv, NEW p \in Conns, NEW i \in Conns, RemoveUser(p, i)
  PROVE  \A q, j, h \in Conns : userChans'[q][j] = h =>
           userChans[q][j] = h /\ closed'[h] = closed[h]
<1> DEFINE g == userChans[p][i]
<1>1. /\ closed' = IF g = None THEN closed ELSE [closed EXCEPT ![g] = TRUE]
      /\ userChans' = [userChans EXCEPT ![p][i] = None]
  BY DEF RemoveUser, DeleteEntry
<1> SUFFICES ASSUME NEW q \in Conns, NEW j \in Conns, NEW h \in Conns,
                    userChans'[q][j] = h
             PROVE  userChans[q][j] = h /\ closed'[h] = closed[h]
  OBVIOUS
<1>2. (q # p \/ j # i) /\ userChans[q][j] = h
  BY <1>1, RoomAssumption DEF TypeOK
<1>3. g # h
  BY <1>2 DEF EntryInv, Entered
<1> QED
  BY <1>1, <1>2, <1>3 DEF TypeOK

LEMMA EntryStep ==
  ASSUME TypeOK, PcInv, EntryInv, Next
  PROVE  EntryInv'
<1>1. ASSUME NEW p \in Conns, NEW i \in Conns, NEW h \in Conns,
             userChans'[p][i] = h
      PROVE  Entered(h, p, i)'
  <2>1. ASSUME userChans[p][i] = h, closed'[h] = closed[h]
        PROVE  Entered(h, p, i)'
    <3>1. id[h] = i /\ ref[h] = p /\ Added(h) /\ ~closed[h]
      BY <2>1 DEF EntryInv, Entered
    <3> QED
      BY <2>1, <3>1, Steady DEF Entered
  <2>2. CASE \E c \in Conns : AddUser(c)
    <3> PICK c \in Conns : AddUser(c)
      BY <2>2
    <3>1. /\ userChans' = [userChans EXCEPT ![ref[c]][id[c]] = c]
          /\ pc[c] = "add" /\ pc' = [pc EXCEPT ![c] = "joined"]
          /\ UNCHANGED <<id, ref, closed>>
      BY DEF AddUser, Goto, local, chanVars
    <3>2. ref[c] \in Conns /\ id[c] \in Conns
      BY <3>1 DEF PcInv, TypeOK, Ptr
    <3>3. CASE p = ref[c] /\ i = id[c]
      <4>1. h = c
        BY <1>1, <3>1, <3>2, <3>3 DEF TypeOK
      <4>2. Added(c)' /\ ~closed[c]
        BY <3>1 DEF TypeOK, EntryInv, Added
      <4> QED
        BY <3>1, <3>3, <4>1, <4>2 DEF Entered
    <3>4. CASE ~(p = ref[c] /\ i = id[c])
      <4>1. userChans[p][i] = h
        BY <1>1, <3>1, <3>2, <3>4 DEF TypeOK
      <4> QED
        BY <2>1, <3>1, <4>1
    <3> QED
      BY <3>3, <3>4
  <2>3. CASE \E c \in Conns : CancelPubSub(c) \/ RemoveFromPubSub(c)
    <3> PICK c \in Conns : CancelPubSub(c) \/ RemoveFromPubSub(c)
      BY <2>3
    <3>1. id[c] \in Conns
      BY DEF CancelPubSub, RemoveFromPubSub, PcInv, TypeOK, Ptr
    <3> DEFINE q == roomChans[NodeOf[c]]
    <3>2. CASE q = None
      BY <1>1, <2>1, <3>2 DEF CancelPubSub, RemoveFromPubSub
    <3>3. CASE q # None
      <4>1. q \in Conns /\ RemoveUser(q, id[c])
        BY <3>3, RoomAssumption DEF CancelPubSub, RemoveFromPubSub, TypeOK, Ptr
      <4>2. userChans[p][i] = h /\ closed'[h] = closed[h]
        BY <1>1, <3>1, <4>1, RemoveUserInv
      <4> QED
        BY <2>1, <4>2
    <3> QED
      BY <3>2, <3>3
  <2>4. CASE UNCHANGED <<userChans, closed>>
    BY <1>1, <2>1, <2>4
  <2> QED
    BY <2>2, <2>3, <2>4, StepKinds, QuietStep, CrashStep
       DEF JoinStep, LeaveStep, CheckUserID, AddToSet, GetPubSub, Upgrade, EndServe,
           RemFromSet, CountSet, StoreId, DelSet, psVars, chanVars
<1>2. ASSUME NEW c \in Conns, ~Added(c)'
      PROVE  ~closed'[c] /\ buf'[c] = <<>> /\ seen'[c] = 0
  <2>1. ~Added(c)
    BY <1>2, Steady
  <2>2. ~closed[c] /\ buf[c] = <<>> /\ seen[c] = 0
    BY <2>1 DEF EntryInv
  <2>3. \A p, i \in Conns : userChans[p][i] # c
    BY <2>1 DEF EntryInv, Entered
  <2>4. CASE \E d \in Conns : CancelPubSub(d) \/ RemoveFromPubSub(d)
    <3> PICK d \in Conns : CancelPubSub(d) \/ RemoveFromPubSub(d)
      BY <2>4
    <3> DEFINE p == roomChans[NodeOf[d]]
    <3>1. UNCHANGED <<buf, seen>>
      BY DEF CancelPubSub, RemoveFromPubSub, history
    <3>2. CASE p = None
      BY <2>2, <3>1, <3>2 DEF CancelPubSub, RemoveFromPubSub
    <3>3. CASE p # None
      <4>1. /\ id[d] \in Conns /\ p \in Conns /\ RemoveUser(p, id[d])
        BY <3>3, RoomAssumption DEF CancelPubSub, RemoveFromPubSub, PcInv, TypeOK, Ptr
      <4>2. closed'[c] = closed[c]
        BY <2>3, <4>1 DEF RemoveUser, TypeOK
      <4> QED
        BY <2>2, <3>1, <4>2
    <3> QED
      BY <3>2, <3>3
  <2>5. CASE \E p \in Conns : FanOut(p)
    <3> PICK p \in Conns : FanOut(p)
      BY <2>5
    <3>1. buf'[c] = buf[c] /\ UNCHANGED <<closed, seen>>
      BY <2>3 DEF FanOut, history
    <3> QED
      BY <2>2, <3>1
  <2>6. CASE \E d \in Conns : Read(d)
    <3> PICK d \in Conns : Read(d)
      BY <2>6
    <3>1. d # c
      BY <2>1 DEF Read, Added
    <3> QED
      BY <2>2, <3>1 DEF Read, TypeOK
  <2>7. CASE UNCHANGED <<closed, buf, seen>>
    BY <2>2, <2>7
  <2> QED
    BY <2>4, <2>5, <2>6, <2>7
       DEF Next, JoinStep, LeaveStep, CheckUserID, AddToSet, GetPubSub, AddUser,
           Upgrade, EndServe, RemFromSet, CountSet, StoreId, DelSet, Publish,
           Subscribed, FanExit, Lose, ExpireId, Crash, chanVars, history
<1> QED
  BY <1>1, <1>2 DEF EntryInv

-----------------------------------------------------------------------------
(* The end of the last subscription. *)

LEMMA LastSteps ==
  ASSUME NEW c \in Conns, JoinStep(c) \/ EndServe(c) \/ LeaveStep(c)
  PROVE  /\ pc[c] = "scard" => CountSet(c)
         /\ pc[c] = "store" => StoreId(c)
         /\ pc[c] = "cancel" => CancelPubSub(c)
BY DEF JoinStep, LeaveStep, CheckUserID, AddToSet, GetPubSub, AddUser, Upgrade,
       EndServe, RemFromSet, CountSet, StoreId, DelSet, CancelPubSub, RemoveFromPubSub

LEMMA LastStep ==
  ASSUME TypeOK, PcInv, MembersArePresent, LastInv, Next
  PROVE  LastInv'
<1> SUFFICES ASSUME \A c \in Conns : Past(c)' /\ ~lost'[c], lastOut' # None
             PROVE  Ends(lastOut)'
  BY DEF LastInv
<1>1. CASE Quiet
  BY <1>1, QuietStep DEF local, LastInv, Past, Ends
<1>2. CASE \E n \in Nodes : Crash(n)
  BY <1>2, CrashStep
<1>3. ASSUME NEW c \in Conns, JoinStep(c) \/ EndServe(c) \/ LeaveStep(c)
      PROVE  Ends(lastOut)'
  <2>1. /\ \A d \in Conns \ {c} : UNCHANGED <<pc[d], last[d], lost[d]>>
        /\ <<pc[c], pc'[c]>> \in Moves /\ ~lost[c] /\ ~lost'[c]
        /\ pc[c] = "cancel" \/ pc[c] = "sub" \/ UNCHANGED roomChans
        /\ lastOut' = IF pc[c] = "srem" THEN c ELSE lastOut
    BY <1>3, ConnStep
  <2>2. CASE pc[c] = "srem"
    BY <2>1, <2>2 DEF Moves, Ends
  <2>3. CASE pc[c] # "srem"
    <3>1. PICK d \in Conns : d = lastOut /\ lastOut' = d
      BY <2>1, <2>3 DEF TypeOK, Ptr
    <3>2. Past(c)
      BY <2>1, <2>3 DEF Moves, Past
    <3>3. \A e \in Conns : Past(e) /\ ~lost[e]
      BY <2>1, <3>2 DEF Past
    <3>4. Ends(d)
      BY <3>1, <3>3, RoomAssumption DEF LastInv
    <3>5. users = {}
      BY <3>3 DEF MembersArePresent, Past, Present
    <3>6. CASE pc[c] = "cancel"
      <4>1. CancelPubSub(c)
        BY <1>3, <3>6, LastSteps
      <4>2. /\ roomChans'[NodeOf[c]] = None
            /\ roomChans[NodeOf[d]] = None => roomChans'[NodeOf[d]] = None
        BY <4>1, RoomAssumption DEF CancelPubSub, psVars, TypeOK
      <4> QED
        BY <2>1, <3>1, <3>4, <4>2 DEF Ends
    <3>7. CASE pc[c] # "cancel"
      <4>1. UNCHANGED roomChans
        BY <2>1, <3>2, <3>7 DEF Past
      <4>2. CASE d # c \/ roomChans[NodeOf[d]] = None
        BY <2>1, <3>1, <3>4, <4>1, <4>2 DEF Ends
      <4>3. CASE d = c /\ pc[c] = "scard"
        <5>1. CountSet(c)
          BY <1>3, <4>3, LastSteps
        <5>2. last' = [last EXCEPT ![c] = TRUE] /\ pc' = [pc EXCEPT ![c] = "store"]
          BY <2>1, <3>5, <5>1
             DEF CountSet, Command, GiveUp, Goto, NoneLeft, TypeOK
        <5> QED
          BY <3>1, <4>3, <5>2 DEF TypeOK, Ends
      <4>4. CASE d = c /\ pc[c] = "store" /\ last[c]
        <5>1. StoreId(c)
          BY <1>3, <4>4, LastSteps
        <5>2. pc' = [pc EXCEPT ![c] = "del"]
          BY <2>1, <4>4, <5>1 DEF StoreId, Command, GiveUp, Goto, TypeOK
        <5> QED
          BY <3>1, <4>4, <5>2 DEF TypeOK, Ends
      <4>5. CASE d = c /\ pc[c] = "del"
        BY <2>1, <3>1, <4>5 DEF Moves, Ends
      <4> QED
        BY <3>4, <3>7, <4>2, <4>3, <4>4, <4>5 DEF Ends
    <3> QED
      BY <3>6, <3>7
  <2> QED
    BY <2>2, <2>3
<1> QED
  BY <1>1, <1>2, <1>3, StepKinds

-----------------------------------------------------------------------------
(* The order of messages. *)

(* Taking the first message, and adding a new one at the end. *)
LEMMA TakeOrder ==
  ASSUME NEW q \in Seq(Msg), q # <<>>
  PROVE  /\ Tail(q) \in Seq(Msg) /\ Head(q) \in Msg
         /\ Ascending(q) => Ascending(Tail(q)) /\ Above(Tail(q), Head(q).n)
         /\ \A x \in Nat : Above(q, x) => Above(Tail(q), x) /\ x < Head(q).n
         /\ \A x \in Nat : UpTo(q, x) => UpTo(Tail(q), x) /\ Head(q).n <= x
<1>1. /\ Tail(q) \in Seq(Msg) /\ Head(q) \in Msg /\ Head(q) = q[1]
      /\ Len(Tail(q)) = Len(q) - 1
      /\ \A k \in 1 .. Len(Tail(q)) : Tail(q)[k] = q[k + 1]
  BY HeadTailProperties
<1>2. /\ Len(q) \in Nat /\ Len(q) # 0
      /\ DOMAIN q = 1 .. Len(q) /\ DOMAIN Tail(q) = 1 .. Len(Tail(q))
  BY <1>1, EmptySeq, LenProperties
<1>3. 1 \in DOMAIN q /\ \A k \in DOMAIN Tail(q) : k \in Nat /\ k > 0 /\ k + 1 \in DOMAIN q
  BY <1>1, <1>2
<1>4. Ascending(q) => Ascending(Tail(q)) /\ Above(Tail(q), Head(q).n)
  <2> SUFFICES ASSUME Ascending(q)
               PROVE  Ascending(Tail(q)) /\ Above(Tail(q), Head(q).n)
    OBVIOUS
  <2>1. ASSUME NEW j \in DOMAIN Tail(q), NEW k \in DOMAIN Tail(q), j < k
        PROVE  Tail(q)[j].n < Tail(q)[k].n
    BY <1>1, <1>2, <1>3, <2>1 DEF Ascending
  <2>2. ASSUME NEW k \in DOMAIN Tail(q)
        PROVE  Head(q).n < Tail(q)[k].n
    BY <1>1, <1>2, <1>3, <2>2 DEF Ascending
  <2> QED
    BY <2>1, <2>2 DEF Ascending, Above
<1> QED
  BY <1>1, <1>2, <1>3, <1>4 DEF Above, UpTo

LEMMA AddOrder ==
  ASSUME NEW q \in Seq(Msg), NEW m \in Msg
  PROVE  /\ Append(q, m) \in Seq(Msg)
         /\ (Ascending(q) /\ \A k \in DOMAIN q : q[k].n < m.n)
              => Ascending(Append(q, m))
         /\ \A x \in Nat : Above(q, x) /\ x < m.n => Above(Append(q, m), x)
         /\ \A x \in Nat : UpTo(q, x) /\ m.n <= x => UpTo(Append(q, m), x)
         /\ \A k \in DOMAIN Append(q, m) :
              \/ Append(q, m)[k] = m
              \/ k \in DOMAIN q /\ Append(q, m)[k] = q[k]
<1>1. /\ Append(q, m) \in Seq(Msg) /\ Len(Append(q, m)) = Len(q) + 1
      /\ \A k \in 1 .. Len(q) : Append(q, m)[k] = q[k]
      /\ Append(q, m)[Len(q) + 1] = m
  BY AppendProperties
<1>2. /\ Len(q) \in Nat /\ DOMAIN q = 1 .. Len(q)
      /\ DOMAIN Append(q, m) = 1 .. Len(q) + 1
  BY <1>1, LenProperties
<1>3. \A k \in DOMAIN Append(q, m) :
        \/ k = Len(q) + 1 /\ Append(q, m)[k] = m
        \/ k \in DOMAIN q /\ Append(q, m)[k] = q[k] /\ k < Len(q) + 1
  BY <1>1, <1>2
<1>4. (Ascending(q) /\ \A k \in DOMAIN q : q[k].n < m.n) => Ascending(Append(q, m))
  <2> SUFFICES ASSUME Ascending(q), \A k \in DOMAIN q : q[k].n < m.n,
                      NEW j \in DOMAIN Append(q, m), NEW k \in DOMAIN Append(q, m),
                      j < k
               PROVE  Append(q, m)[j].n < Append(q, m)[k].n
    BY DEF Ascending
  <2>1. j \in DOMAIN q /\ Append(q, m)[j] = q[j]
    BY <1>2, <1>3
  <2> QED
    BY <1>3, <2>1 DEF Ascending
<1> QED
  BY <1>1, <1>3, <1>4 DEF Above, UpTo

LEMMA EmptyOrder ==
  /\ Ascending(<<>>) /\ \A x \in Nat : Above(<<>>, x) /\ UpTo(<<>>, x)
BY DEF Ascending, Above, UpTo

(* Entries go, and messages on the way are lost: the order remains. *)
LEMMA OrderFrame ==
  ASSUME TypeOK, OrderInv, UNCHANGED <<buf, seen, sent>>,
         \A p, i, h \in Conns : userChans'[p][i] = h => userChans[p][i] = h,
         \A p \in Conns : \/ wire'[p] = wire[p]
                          \/ wire[p] # <<>> /\ wire'[p] = Tail(wire[p])
                          \/ wire'[p] = <<>>
  PROVE  OrderInv'
<1>1. ASSUME NEW p \in Conns
      PROVE  /\ Ascending(wire[p]) => Ascending(wire'[p])
             /\ \A x \in Nat : /\ Above(wire[p], x) => Above(wire'[p], x)
                               /\ UpTo(wire[p], x) => UpTo(wire'[p], x)
  <2>1. wire[p] \in Seq(Msg)
    BY DEF TypeOK
  <2>2. CASE wire'[p] = wire[p]
    BY <2>2
  <2>3. CASE wire[p] # <<>> /\ wire'[p] = Tail(wire[p])
    BY <2>1, <2>3, TakeOrder
  <2>4. CASE wire'[p] = <<>>
    BY <2>4, EmptyOrder
  <2> QED
    BY <2>2, <2>3, <2>4
<1>2. \A p \in Conns : (Ascending(wire[p]) /\ Above(wire[p], 0) /\ UpTo(wire[p], sent))'
  BY <1>1 DEF OrderInv, TypeOK
<1>3. \A c \in Conns : (seen[c] <= sent /\ UpTo(buf[c], sent))'
  BY DEF OrderInv
<1>4. ASSUME NEW p \in Conns, NEW i \in Conns, NEW h \in Conns,
             userChans'[p][i] = h
      PROVE  InLine(h, p)'
  <2>1. InLine(h, p)
    BY <1>4 DEF OrderInv
  <2>2. seen[h] \in Nat /\ \A k \in DOMAIN buf[h] : buf[h][k].n \in Nat
    <3>1. buf[h] \in Seq(Msg)
      BY DEF TypeOK
    <3>2. \A k \in DOMAIN buf[h] : buf[h][k] \in Msg
      BY <3>1, ElementOfSeq, LenProperties
    <3> QED
      BY <3>2 DEF TypeOK, Msg
  <2> QED
    BY <1>1, <2>1, <2>2 DEF InLine
<1> QED
  BY <1>2, <1>3, <1>4 DEF OrderInv

LEMMA PublishOrder ==
  ASSUME TypeOK, OrderInv, NEW c \in Conns, NEW s \in Ptr, NEW d \in Ptr,
         Publish(c, s, d)
  PROVE  OrderInv'
<1> DEFINE m == [n |-> sent + 1, src |-> s, dst |-> d]
<1>1. /\ sent' = sent + 1 /\ UNCHANGED <<userChans, buf, seen>>
      /\ wire' = [p \in Conns |-> IF feed[p] = "on" THEN Append(wire[p], m) ELSE wire[p]]
  BY DEF Publish, chanVars
<1>2. sent \in Nat /\ m \in Msg /\ m.n = sent + 1
  BY DEF TypeOK, Msg
<1> HIDE DEF m
<1>3. ASSUME NEW p \in Conns
      PROVE  /\ Ascending(wire'[p]) /\ UpTo(wire'[p], sent')
             /\ \A x \in 0 .. sent : Above(wire[p], x) => Above(wire'[p], x)
  <2>1. wire[p] \in Seq(Msg) /\ Ascending(wire[p]) /\ UpTo(wire[p], sent)
    BY DEF TypeOK, OrderInv
  <2>2. \A k \in DOMAIN wire[p] : wire[p][k] \in Msg /\ wire[p][k].n \in Nat
    <3>1. \A k \in DOMAIN wire[p] : wire[p][k] \in Msg
      BY <2>1, ElementOfSeq, LenProperties
    <3> QED
      BY <3>1 DEF Msg
  <2>3. UpTo(wire[p], sent + 1) /\ \A k \in DOMAIN wire[p] : wire[p][k].n < m.n
    BY <1>2, <2>1, <2>2 DEF UpTo
  <2>4. CASE wire'[p] = wire[p]
    BY <1>1, <2>1, <2>3, <2>4
  <2>5. CASE wire'[p] = Append(wire[p], m)
    <3>1. Ascending(wire'[p])
      BY <1>2, <2>1, <2>3, <2>5, AddOrder
    <3>2. UpTo(wire'[p], sent')
      BY <1>1, <1>2, <2>1, <2>3, <2>5, AddOrder
    <3>3. \A x \in 0 .. sent : x \in Nat /\ x < m.n
      BY <1>2
    <3>4. \A x \in 0 .. sent : Above(wire[p], x) => Above(wire'[p], x)
      BY <1>2, <2>1, <2>5, <3>3, AddOrder
    <3> QED
      BY <3>1, <3>2, <3>4
  <2> QED
    BY <1>1, <2>4, <2>5
<1>4. ASSUME NEW h \in Conns
      PROVE  /\ seen[h] \in 0 .. sent
             /\ \A k \in DOMAIN buf[h] : buf[h][k].n \in 0 .. sent
  <2>1. buf[h] \in Seq(Msg) /\ seen[h] \in Nat
    BY DEF TypeOK
  <2>2. \A k \in DOMAIN buf[h] : buf[h][k] \in Msg
    BY <2>1, ElementOfSeq, LenProperties
  <2>3. \A k \in DOMAIN buf[h] : buf[h][k].n \in Nat
    BY <2>2 DEF Msg
  <2> QED
    BY <1>2, <2>1, <2>3 DEF OrderInv, UpTo
<1>5. \A p \in Conns : (Ascending(wire[p]) /\ Above(wire[p], 0) /\ UpTo(wire[p], sent))'
  BY <1>2, <1>3 DEF OrderInv
<1>6. \A h \in Conns : (seen[h] <= sent /\ UpTo(buf[h], sent))'
  BY <1>1, <1>2, <1>4 DEF UpTo
<1>7. \A p, i, h \in Conns : userChans'[p][i] = h => InLine(h, p)'
  BY <1>1, <1>3, <1>4 DEF OrderInv, InLine
<1> QED
  BY <1>5, <1>6, <1>7 DEF OrderInv

LEMMA FanOutOrder ==
  ASSUME TypeOK, EntryInv, OrderInv, NEW p \in Conns, FanOut(p)
  PROVE  OrderInv'
<1> DEFINE m == Head(wire[p])
           chans == {userChans[p][i] : i \in Conns} \ {None}
<1>1. /\ wire[p] # <<>> /\ wire' = [wire EXCEPT ![p] = Tail(wire[p])]
      /\ buf' = [h \in Conns |-> IF h \in chans /\ Len(buf[h]) < ChanSize
                                 THEN Append(buf[h], m) ELSE buf[h]]
      /\ UNCHANGED <<userChans, seen, sent>>
  BY DEF FanOut, Take, history
<1>2. /\ wire[p] \in Seq(Msg) /\ sent \in Nat
      /\ Ascending(wire[p]) /\ Above(wire[p], 0) /\ UpTo(wire[p], sent)
  BY DEF TypeOK, OrderInv
<1>3. /\ m \in Msg /\ m.n \in Nat /\ m.n <= sent
      /\ Ascending(Tail(wire[p])) /\ Above(Tail(wire[p]), m.n)
      /\ Above(Tail(wire[p]), 0) /\ UpTo(Tail(wire[p]), sent)
  <2>1. m \in Msg
    BY <1>1, <1>2, TakeOrder
  <2> QED
    BY <1>1, <1>2, <2>1, TakeOrder DEF Msg
<1>4. \A x \in Nat : Above(wire[p], x) => Above(Tail(wire[p]), x) /\ x < m.n
  BY <1>1, <1>2, TakeOrder
<1>5. wire'[p] = Tail(wire[p]) /\ \A q \in Conns \ {p} : wire'[q] = wire[q]
  BY <1>1 DEF TypeOK
<1> HIDE DEF m
<1>6. \A q \in Conns : (Ascending(wire[q]) /\ Above(wire[q], 0) /\ UpTo(wire[q], sent))'
  BY <1>1, <1>3, <1>5 DEF OrderInv
<1>7. ASSUME NEW h \in Conns
      PROVE  /\ buf[h] \in Seq(Msg) /\ seen[h] \in Nat
             /\ \A k \in DOMAIN buf[h] : buf[h][k].n \in Nat
             /\ \/ buf'[h] = buf[h]
                \/ h \in chans /\ buf'[h] = Append(buf[h], m)
  <2>1. buf[h] \in Seq(Msg) /\ seen[h] \in Nat
    BY DEF TypeOK
  <2>2. \A k \in DOMAIN buf[h] : buf[h][k] \in Msg
    BY <2>1, ElementOfSeq, LenProperties
  <2> QED
    BY <1>1, <2>1, <2>2 DEF Msg
<1>8. ASSUME NEW h \in Conns
      PROVE  (seen[h] <= sent /\ UpTo(buf[h], sent))'
  <2>1. seen[h] <= sent /\ UpTo(buf[h], sent)
    BY DEF OrderInv
  <2>2. UpTo(Append(buf[h], m), sent)
    <3>1. buf[h] \in Seq(Msg) /\ m \in Msg /\ m.n <= sent /\ sent \in Nat
      BY <1>2, <1>3, <1>7
    <3> QED
      BY <2>1, <3>1, AddOrder
  <2> HIDE DEF chans
  <2> QED
    BY <1>1, <1>7, <2>1, <2>2
<1>9. ASSUME NEW q \in Conns, NEW i \in Conns, NEW h \in Conns, userChans[q][i] = h
      PROVE  InLine(h, q)'
  <2>1. InLine(h, q) /\ ref[h] = q
    BY <1>9 DEF OrderInv, EntryInv, Entered
  <2>2. CASE q # p
    <3>1. h \notin chans
      BY <2>1, <2>2 DEF EntryInv, Entered
    <3>2. buf'[h] = buf[h] /\ wire'[q] = wire[q] /\ seen'[h] = seen[h]
      BY <1>1, <1>5, <1>7, <2>2, <3>1
    <3> QED
      BY <2>1, <3>2 DEF InLine
  <2>3. CASE q = p
    <3>1. /\ \A k \in DOMAIN buf[h] : buf[h][k].n < m.n
          /\ \A k \in DOMAIN buf[h] : Above(Tail(wire[p]), buf[h][k].n)
          /\ seen[h] < m.n /\ Above(Tail(wire[p]), seen[h])
      BY <1>4, <1>7, <2>1, <2>3 DEF InLine
    <3>2. CASE buf'[h] = buf[h]
      BY <1>1, <1>5, <2>1, <2>3, <3>1, <3>2 DEF InLine
    <3>3. CASE buf'[h] = Append(buf[h], m)
      <4>1. Ascending(buf'[h]) /\ Above(buf'[h], seen[h])
        <5>1. buf[h] \in Seq(Msg) /\ m \in Msg /\ seen[h] \in Nat
          BY <1>3, <1>7
        <5>2. Ascending(buf[h]) /\ Above(buf[h], seen[h])
          BY <2>1 DEF InLine
        <5> QED
          BY <3>1, <3>3, <5>1, <5>2, AddOrder
      <4>2. \A k \in DOMAIN buf'[h] : \/ buf'[h][k] = m
                                      \/ k \in DOMAIN buf[h] /\ buf'[h][k] = buf[h][k]
        <5>1. buf[h] \in Seq(Msg) /\ m \in Msg
          BY <1>3, <1>7
        <5> QED
          BY <3>3, <5>1, AddOrder
      <4>3. \A k \in DOMAIN buf'[h] : Above(Tail(wire[p]), buf'[h][k].n)
        BY <1>3, <3>1, <4>2
      <4> QED
        BY <1>1, <1>5, <2>3, <3>1, <4>1, <4>3 DEF InLine
    <3> QED
      BY <1>7, <3>2, <3>3
  <2> QED
    BY <2>2, <2>3
<1> QED
  BY <1>1, <1>6, <1>8, <1>9 DEF OrderInv

LEMMA ReadOrder ==
  ASSUME TypeOK, OrderInv, NEW c \in Conns, Read(c)
  PROVE  OrderInv'
<1> DEFINE m == Head(buf[c])
<1>1. /\ buf[c] # <<>> /\ buf' = [buf EXCEPT ![c] = Tail(buf[c])]
      /\ seen' = [seen EXCEPT ![c] = m.n] \/ seen' = seen
      /\ UNCHANGED <<wire, userChans, sent>>
  BY DEF Read, psVars
<1>2. /\ buf[c] \in Seq(Msg) /\ seen[c] \in Nat /\ sent \in Nat
      /\ UpTo(buf[c], sent) /\ seen[c] <= sent
  BY DEF TypeOK, OrderInv
<1>3. /\ m \in Msg /\ Tail(buf[c]) \in Seq(Msg)
      /\ m.n <= sent /\ UpTo(Tail(buf[c]), sent)
      /\ Ascending(buf[c]) => Ascending(Tail(buf[c])) /\ Above(Tail(buf[c]), m.n)
      /\ Above(buf[c], seen[c]) => Above(Tail(buf[c]), seen[c]) /\ seen[c] < m.n
  BY <1>1, <1>2, TakeOrder
<1>4. /\ Head(buf[c]) = buf[c][1] /\ 1 \in DOMAIN buf[c]
      /\ \A k \in DOMAIN Tail(buf[c]) :
           k + 1 \in DOMAIN buf[c] /\ Tail(buf[c])[k] = buf[c][k + 1]
  BY <1>1, <1>2, HeadTailProperties, EmptySeq, LenProperties
<1>5. /\ buf'[c] = Tail(buf[c]) /\ (seen'[c] = m.n \/ seen'[c] = seen[c])
      /\ \A d \in Conns \ {c} : buf'[d] = buf[d] /\ seen'[d] = seen[d]
  BY <1>1 DEF TypeOK
<1>6. \A p \in Conns : (Ascending(wire[p]) /\ Above(wire[p], 0) /\ UpTo(wire[p], sent))'
  BY <1>1 DEF OrderInv
<1>7. \A d \in Conns : (seen[d] <= sent /\ UpTo(buf[d], sent))'
  BY <1>1, <1>2, <1>3, <1>5 DEF OrderInv
<1>8. ASSUME NEW p \in Conns, NEW i \in Conns, NEW h \in Conns, userChans[p][i] = h
      PROVE  InLine(h, p)'
  <2>1. InLine(h, p)
    BY <1>8 DEF OrderInv
  <2>2. CASE h # c
    BY <1>1, <1>5, <2>1, <2>2 DEF InLine
  <2>3. CASE h = c
    <3>1. /\ Ascending(Tail(buf[c])) /\ Above(Tail(buf[c]), seen'[c])
          /\ Above(wire[p], seen'[c])
      BY <1>3, <1>4, <1>5, <2>1, <2>3 DEF InLine
    <3>2. \A k \in DOMAIN Tail(buf[c]) : Above(wire[p], Tail(buf[c])[k].n)
      BY <1>4, <2>1, <2>3 DEF InLine
    <3> QED
      BY <1>1, <1>5, <2>3, <3>1, <3>2 DEF InLine
  <2> QED
    BY <2>2, <2>3
<1> QED
  BY <1>1, <1>6, <1>7, <1>8 DEF OrderInv

LEMMA OrderStep ==
  ASSUME TypeOK, PcInv, EntryInv, OrderInv, Next
  PROVE  OrderInv'
<1>1. CASE \E c \in Conns : AddUser(c)
  <2> PICK c \in Conns : AddUser(c)
    BY <1>1
  <2>1. /\ userChans' = [userChans EXCEPT ![ref[c]][id[c]] = c]
        /\ pc[c] = "add" /\ UNCHANGED <<wire, buf, seen, sent>>
    BY DEF AddUser, chanVars, history
  <2>2. ref[c] \in Conns /\ id[c] \in Conns
    BY <2>1 DEF PcInv, TypeOK, Ptr
  <2>3. buf[c] = <<>> /\ seen[c] = 0
    BY <2>1 DEF EntryInv, Added
  <2>4. \A p \in Conns : InLine(c, p)'
    BY <2>1, <2>3, EmptyOrder DEF OrderInv, InLine
  <2>5. ASSUME NEW p \in Conns, NEW i \in Conns, NEW h \in Conns, userChans'[p][i] = h
        PROVE  h = c \/ userChans[p][i] = h
    BY <2>1, <2>2, <2>5 DEF TypeOK
  <2>6. \A p, i, h \in Conns : userChans[p][i] = h => InLine(h, p)'
    BY <2>1 DEF OrderInv, InLine
  <2>7. \A p, i, h \in Conns : userChans'[p][i] = h => InLine(h, p)'
    BY <2>4, <2>5, <2>6
  <2> QED
    BY <2>1, <2>7 DEF OrderInv
<1>2. CASE \E c \in Conns, s, d \in Ptr : Publish(c, s, d)
  BY <1>2, PublishOrder
<1>3. CASE \E p \in Conns : FanOut(p)
  BY <1>3, FanOutOrder
<1>4. CASE \E c \in Conns : Read(c)
  BY <1>4, ReadOrder
<1>5. CASE \E c \in Conns : CancelPubSub(c) \/ RemoveFromPubSub(c)
  <2> PICK c \in Conns : CancelPubSub(c) \/ RemoveFromPubSub(c)
    BY <1>5
  <2>1. UNCHANGED <<wire, buf, seen, sent>> /\ id[c] \in Conns
    BY DEF CancelPubSub, RemoveFromPubSub, history, psVars, PcInv, TypeOK, Ptr
  <2>2. \/ UNCHANGED userChans
        \/ \E p \in Conns : RemoveUser(p, id[c])
    BY RoomAssumption DEF CancelPubSub, RemoveFromPubSub, TypeOK, Ptr
  <2>3. \A p, i, h \in Conns : userChans'[p][i] = h => userChans[p][i] = h
    BY <2>1, <2>2, RemoveUserInv
  <2> QED
    BY <2>1, <2>3, OrderFrame
<1>6. CASE \/ \E p \in Conns : FanExit(p) \/ Lose(p)
           \/ \E n \in Nodes : Crash(n)
  <2>1. UNCHANGED <<userChans, buf, seen, sent>>
    BY <1>6 DEF FanExit, Lose, Crash, chanVars, history, psVars
  <2>2. ASSUME NEW p \in Conns
        PROVE  \/ wire'[p] = wire[p]
               \/ wire[p] # <<>> /\ wire'[p] = Tail(wire[p])
               \/ wire'[p] = <<>>
    BY <1>6 DEF FanExit, Lose, Take, Crash, TypeOK
  <2> QED
    BY <2>1, <2>2, OrderFrame
<1>7. CASE UNCHANGED <<wire, userChans, buf, seen, sent>>
  BY <1>7, OrderFrame
<1> QED
  BY <1>1, <1>2, <1>3, <1>4, <1>5, <1>6, <1>7
     DEF Next, JoinStep, LeaveStep, CheckUserID, AddToSet, GetPubSub, Upgrade, EndServe,
         RemFromSet, CountSet, StoreId, DelSet, Subscribed, ExpireId,
         psVars, chanVars, history

(* One ascending sequence after another. *)
Rising(s) == \A j, k \in DOMAIN s : j < k => s[j] < s[k]
LEMMA RisingConcat ==
  ASSUME NEW s \in Seq(Nat), NEW t \in Seq(Nat), Rising(s), Rising(t),
         \A j \in DOMAIN s, k \in DOMAIN t : s[j] < t[k]
  PROVE  /\ s \o t \in Seq(Nat) /\ Rising(s \o t)
         /\ \A j \in DOMAIN (s \o t) : \/ \E k \in DOMAIN s : (s \o t)[j] = s[k]
                                      \/ \E k \in DOMAIN t : (s \o t)[j] = t[k]
<1> DEFINE u == s \o t
<1>1. /\ u \in Seq(Nat) /\ Len(u) = Len(s) + Len(t)
      /\ \A j \in 1 .. Len(s) + Len(t) :
           u[j] = IF j <= Len(s) THEN s[j] ELSE t[j - Len(s)]
  BY ConcatProperties
<1>2. /\ Len(s) \in Nat /\ Len(t) \in Nat
      /\ DOMAIN s = 1 .. Len(s) /\ DOMAIN t = 1 .. Len(t)
      /\ DOMAIN u = 1 .. Len(s) + Len(t)
  BY <1>1, LenProperties
<1> HIDE DEF u
<1>3. ASSUME NEW j \in DOMAIN u
      PROVE  \/ j <= Len(s) /\ j \in DOMAIN s /\ u[j] = s[j]
             \/ j > Len(s) /\ j - Len(s) \in DOMAIN t /\ u[j] = t[j - Len(s)]
  BY <1>1, <1>2
<1>4. ASSUME NEW j \in DOMAIN u, NEW k \in DOMAIN u, j < k
      PROVE  u[j] < u[k]
  <2>1. j \in Nat /\ k \in Nat
    BY <1>2
  <2>2. CASE k <= Len(s)
    <3>1. j <= Len(s)
      BY <1>2, <1>4, <2>1, <2>2
    <3>2. /\ j \in DOMAIN s /\ u[j] = s[j]
          /\ k \in DOMAIN s /\ u[k] = s[k]
      BY <1>2, <1>3, <2>1, <2>2, <3>1
    <3> QED
      BY <1>4, <3>2 DEF Rising
  <2>3. CASE j <= Len(s) /\ k > Len(s)
    BY <1>2, <1>3, <2>1, <2>3
  <2>4. CASE j > Len(s)
    <3>1. /\ j - Len(s) \in DOMAIN t /\ u[j] = t[j - Len(s)]
          /\ k - Len(s) \in DOMAIN t /\ u[k] = t[k - Len(s)]
      BY <1>2, <1>3, <1>4, <2>1, <2>4
    <3>2. j - Len(s) < k - Len(s)
      BY <1>2, <1>4, <2>1
    <3> QED
      BY <3>1, <3>2 DEF Rising
  <2> QED
    BY <1>2, <1>4, <2>1, <2>2, <2>3, <2>4
<1>5. Rising(u)
  BY <1>4 DEF Rising
<1> QED
  BY <1>1, <1>3, <1>5 DEF u

LEMMA NumbersOf ==
  ASSUME NEW q \in Seq(Msg), Ascending(q)
  PROVE  LET ns == [k \in DOMAIN q |-> q[k].n]
         IN  ns \in Seq(Nat) /\ DOMAIN ns = DOMAIN q /\ Rising(ns)
<1> DEFINE ns == [k \in DOMAIN q |-> q[k].n]
<1>1. Len(q) \in Nat /\ DOMAIN q = 1 .. Len(q) /\ \A k \in DOMAIN q : q[k].n \in Nat
  <2>1. \A k \in 1 .. Len(q) : q[k] \in Msg
    BY ElementOfSeq
  <2> QED
    BY <2>1, LenProperties DEF Msg
<1>2. ns \in [1 .. Len(q) -> Nat]
  BY <1>1
<1>3. ns \in Seq(Nat)
  BY <1>1, <1>2, SeqDef
<1> QED
  BY <1>3 DEF Ascending, Rising

LEMMA InOrder ==
  ASSUME TypeOK, OrderInv
  PROVE  InOrderOnce
<1> SUFFICES ASSUME NEW c \in Conns, NEW p \in Conns, NEW i \in Conns,
                    userChans[p][i] = c
             PROVE  Rising(<<seen[c]>> \o [k \in DOMAIN buf[c] |-> buf[c][k].n]
                             \o [k \in DOMAIN wire[p] |-> wire[p][k].n])
  BY DEF InOrderOnce, Rising
<1> DEFINE s == <<seen[c]>>
           b == [k \in DOMAIN buf[c] |-> buf[c][k].n]
           w == [k \in DOMAIN wire[p] |-> wire[p][k].n]
<1>1. InLine(c, p) /\ Ascending(wire[p])
  BY DEF OrderInv
<1>2. s \in Seq(Nat) /\ DOMAIN s = {1} /\ s[1] = seen[c] /\ Rising(s)
  <2>1. seen[c] \in Nat
    BY DEF TypeOK
  <2> QED
    BY <2>1 DEF Rising
<1>3. b \in Seq(Nat) /\ DOMAIN b = DOMAIN buf[c] /\ Rising(b)
  BY <1>1, NumbersOf DEF TypeOK, InLine
<1>4. w \in Seq(Nat) /\ DOMAIN w = DOMAIN wire[p] /\ Rising(w)
  BY <1>1, NumbersOf DEF TypeOK
<1>5. \A j \in DOMAIN s, k \in DOMAIN b : s[j] < b[k]
  BY <1>1, <1>2, <1>3 DEF InLine, Above
<1>6. /\ s \o b \in Seq(Nat) /\ Rising(s \o b)
      /\ \A j \in DOMAIN (s \o b) : \/ \E k \in DOMAIN s : (s \o b)[j] = s[k]
                                   \/ \E k \in DOMAIN b : (s \o b)[j] = b[k]
  <2> HIDE DEF s, b
  <2> QED
    BY <1>2, <1>3, <1>5, RisingConcat
<1>7. \A j \in DOMAIN s, k \in DOMAIN w : s[j] < w[k]
  BY <1>1, <1>2, <1>4 DEF InLine, Above
<1>8. \A j \in DOMAIN b, k \in DOMAIN w : b[j] < w[k]
  BY <1>1, <1>3, <1>4 DEF InLine, Above
<1> HIDE DEF s, b, w
<1>9. \A j \in DOMAIN (s \o b), k \in DOMAIN w : (s \o b)[j] < w[k]
  BY <1>6, <1>7, <1>8
<1>10. Rising((s \o b) \o w)
  BY <1>4, <1>6, <1>9, RisingConcat
<1> QED
  BY <1>10 DEF s, b, w

-----------------------------------------------------------------------------
(* The invariant holds in the beginning, and every step keeps it. *)

LEMMA InitInv == Init => IInv
<1> SUFFICES ASSUME Init PROVE IInv
  OBVIOUS
<1> USE RoomAssumption
<1>1. TypeOK
  <2>1. <<>> \in Seq(Msg)
    BY EmptySeq
  <2> QED
    BY <2>1 DEF Init, TypeOK, Ptr, PC, Feed
<1>2. PcInv /\ RegistryInv /\ IdInv
  BY DEF Init, PcInv, RegistryInv, LiveIffRegistered, Live, IdInv
<1>3. EntryInv /\ MembersArePresent
  BY DEF Init, EntryInv, Added, MembersArePresent
<1>4. LastInv
  BY DEF Init, LastInv
<1>5. OrderInv
  BY EmptyOrder DEF Init, OrderInv
<1> QED
  BY <1>1, <1>2, <1>3, <1>4, <1>5 DEF IInv

LEMMA StepInv == IInv /\ [Next]_vars => IInv'
<1> SUFFICES ASSUME IInv, [Next]_vars PROVE IInv'
  OBVIOUS
<1>1. CASE Next
  BY <1>1, TypeStep, PcStep, RegistryStep, IdStep, EntryStep, MembersStep, LastStep,
     OrderStep DEF IInv
<1>2. CASE UNCHANGED vars
  <2> USE <1>2 DEF vars, redisVars, psVars, chanVars, local, history
  <2>1. TypeOK' /\ PcInv' /\ IdInv'
    BY DEF IInv, TypeOK, PcInv, IdInv
  <2>2. RegistryInv' /\ MembersArePresent'
    BY DEF IInv, RegistryInv, LiveIffRegistered, Live, MembersArePresent, Present
  <2>3. EntryInv' /\ LastInv'
    BY DEF IInv, EntryInv, Entered, Added, LastInv, Past, Ends
  <2>4. OrderInv'
    BY OrderFrame DEF IInv
  <2> QED
    BY <2>1, <2>2, <2>3, <2>4 DEF IInv
<1> QED
  BY <1>1, <1>2

(* Whatever the schedule, the failures of calls and the crashes of nodes.  *)
THEOREM Invariance == Spec => []IInv
BY InitInv, StepInv, PTL DEF Spec

(* The variables keep their types. *)
THEOREM TypeCorrect == Spec => []TypeOK
<1>1. IInv => TypeOK
  BY DEF IInv
<1> QED
  BY <1>1, Invariance, PTL

(* No fan-out sends on a closed channel and none is closed twice           *)
(* (redis.go, initPubSub and removeUser). *)
THEOREM NoPanic == Spec => []FannedOutIsOpen
<1>1. IInv => FannedOutIsOpen
  <2> SUFFICES ASSUME IInv, NEW p \in Conns, NEW i \in Conns, userChans[p][i] # None
               PROVE  ~closed[userChans[p][i]]
    BY DEF FannedOutIsOpen
  <2>1. userChans[p][i] \in Conns
    BY DEF IInv, TypeOK, Ptr
  <2> QED
    BY <2>1 DEF IInv, EntryInv, Entered
<1> QED
  BY <1>1, Invariance, PTL

(* A subscription lives exactly as long as roomChans has it. *)
THEOREM NoSubscriptionLeaks == Spec => []LiveIffRegistered
<1>1. IInv => LiveIffRegistered
  BY DEF IInv, RegistryInv
<1> QED
  BY <1>1, Invariance, PTL

(* An id comes back to the address it was created for, and to no other. *)
THEOREM IdsKeepTheirAddress == Spec => []IdentityStaysWithIp
<1>1. IInv => IdentityStaysWithIp
  BY DEF IInv, IdInv, IdentityStaysWithIp
<1> QED
  BY <1>1, Invariance, PTL

(* Only a failed call or a lost node leaves a user in the room's set whose *)
(* connections are gone. *)
THEOREM NoGhostMembers == Spec => []MembersArePresent
<1>1. IInv => MembersArePresent
  BY DEF IInv
<1> QED
  BY <1>1, Invariance, PTL

(* Whatever the order in which the last users leave, the one with the last *)
(* SREM takes itself for the last and ends its node's subscription         *)
(* (redis.go:127-166).                                                     *)
THEOREM LastOneUnsubscribes == Spec => []LastLeaveUnsubscribes
<1>1. IInv => LastLeaveUnsubscribes
  <2> SUFFICES ASSUME IInv, \A c \in Conns : pc[c] \in {"new", "done"} /\ ~lost[c],
                      lastOut # None
               PROVE  roomChans[NodeOf[lastOut]] = None
    BY DEF LastLeaveUnsubscribes
  <2>1. lastOut \in Conns
    BY DEF IInv, TypeOK, Ptr
  <2> QED
    BY <2>1 DEF IInv, LastInv, Past, Ends
<1> QED
  BY <1>1, Invariance, PTL

(* A client gets messages in the order of their publication, each at most  *)
(* once, whatever is dropped on the way. *)
THEOREM MessagesInOrder == Spec => []InOrderOnce
<1>1. IInv => InOrderOnce
  BY InOrder DEF IInv
<1> QED
  BY <1>1, Invariance, PTL
=============================================================================
