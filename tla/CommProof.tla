------------------------------ MODULE CommProof ------------------------------
(***************************************************************************)
(* Comm's safety invariants and its refinement of Mailbox, proved for      *)
(* every set of connections and rooms and every channel capacity.          *)
(*                                                                         *)
(* None of the safety properties is inductive.  What makes IInv so:        *)
(*   - MutexInv: between CloseLookup and ClosePrune the holder of mu has   *)
(*     the registered room, since every change of commMap takes mu;        *)
(*   - RegistryInv: a channel is in one place of one CommRoom, the one it  *)
(*     was made for, so closing it leaves no closed channel behind;        *)
(*   - PointersInv: a room or channel pointer a sender still holds may be  *)
(*     stale, but never of another room or another id.                     *)
(***************************************************************************)
EXTENDS Comm, SequenceTheorems, TLAPS

(* The two goroutines of a connection are distinct, and no connection shares
   them (server.go starts one handleExternalMessages per handleConnection). *)
LEMMA ThreadParts ==
  /\ \A t \in Threads : /\ t[1] \in Conns
                        /\ t = Main(t[1]) \/ t = Writer(t[1])
                        /\ t[2] = "main" <=> t = Main(t[1])
                        /\ t[2] = "writer" <=> t = Writer(t[1])
  /\ \A c \in Conns : /\ Main(c) \in Threads /\ Main(c)[1] = c /\ Main(c)[2] = "main"
                      /\ Writer(c) \in Threads /\ Writer(c)[1] = c /\ Writer(c)[2] = "writer"
  /\ \A c, d \in Conns : /\ Main(c) # Writer(d)
                         /\ Main(c) = Main(d) => c = d
                         /\ Writer(c) = Writer(d) => c = d
BY DEF Threads, Main, Writer

(* A step that leaves commMap and the CommRooms alone keeps
   EmptyRoomIsTransient and NoGhostEntry, if whoever minded or held an entry
   still does, or its room is gone. *)
LEMMA RegistryFrame ==
  ASSUME EmptyRoomIsTransient, NoGhostEntry,
         UNCHANGED <<commMap, conns, id>>,
         \A c \in Conns : main[c] = "attach" =>
                            main'[c] = "attach" /\ ref'[Main(c)] = ref[Main(c)],
         \A c \in Conns : writer[c] = "prune" => writer'[c] = "prune",
         \A c \in Conns : main[c] \notin {"new", "attach"} =>
                            main'[c] \notin {"new", "attach"},
         \A c \in Conns : writer[c] \notin {"prune", "keep", "done"} =>
              \/ writer'[c] \notin {"prune", "keep", "done"}
              \/ commMap[RoomOf[c]] = None
  PROVE  EmptyRoomIsTransient' /\ NoGhostEntry'
<1>1. ASSUME NEW k \in Rooms, NEW i \in Conns
      PROVE  Registered(k, i)' = Registered(k, i)
  BY DEF Registered
<1>2. EmptyRoomIsTransient'
  <2> SUFFICES ASSUME NEW k \in Rooms, commMap[k] # None,
                      \A i \in Conns : ~Registered(k, i)
               PROVE  \E c \in Conns : Minds(c, k)'
    BY <1>1 DEF EmptyRoomIsTransient
  <2>1. PICK c \in Conns : Minds(c, k)
    BY DEF EmptyRoomIsTransient
  <2> QED BY <2>1 DEF Minds
<1>3. NoGhostEntry'
  <2> SUFFICES ASSUME NEW k \in Rooms, NEW i \in Conns, Registered(k, i)
               PROVE  \E c \in Conns : Holds(c, k, i)'
    BY <1>1 DEF NoGhostEntry
  <2>1. PICK c \in Conns : Holds(c, k, i)
    BY DEF NoGhostEntry
  <2> QED BY <2>1 DEF Registered, Holds
<1> QED BY <1>2, <1>3

(* InitConn finding or registering the room preserves the invariant: a room
   it creates is empty, but the creator is about to attach to it. *)
LEMMA InitLookupStep ==
  ASSUME IInv, NEW c \in Conns, InitLookup(c)
  PROVE  IInv'
<1> USE CommAssumption, ThreadParts DEF IInv
<1> DEFINE k == RoomOf[c]
           found == IF commMap[k] = None THEN c ELSE commMap[k]
<1>1. PICK i \in PossibleIds(c) : id' = [id EXCEPT ![c] = i]
  BY DEF InitLookup
<1>2. /\ main[c] = "new" /\ mu = None /\ own[c] = None /\ id[c] = None
      /\ \A j \in Conns : conns[c][j] = None
  BY DEF InitLookup, ConnInv
<1>3. i \in Conns
  BY DEF PossibleIds, ConnInv, TypeOK, Ptr
<1>4. /\ commMap' = [commMap EXCEPT ![k] = found]
      /\ ref' = [ref EXCEPT ![Main(c)] = found]
      /\ main' = [main EXCEPT ![c] = "attach"]
      /\ UNCHANGED <<conns, closed, buf, mu, saved, own, writer, op, chan, dst>>
  BY DEF InitLookup
<1>5. /\ k \in Rooms /\ found \in Conns
      /\ RoomOf[found] = k /\ (found # c => main[found] # "new")
  BY DEF RegistryInv, RoomFor
<1>6. PICK room \in Conns :
        /\ k \in Rooms /\ RoomOf[room] = k /\ (room # c => main[room] # "new")
        /\ commMap' = [commMap EXCEPT ![k] = room]
        /\ ref' = [ref EXCEPT ![Main(c)] = room]
        /\ commMap[k] # None => room = commMap[k]
        /\ commMap[k] = None => \A j \in Conns : conns[room][j] = None
  BY <1>2, <1>4, <1>5
<1> HIDE DEF found
<1>7. TypeOK'
  BY <1>1, <1>3, <1>4, <1>6 DEF TypeOK, Ptr, MainPC
<1>8. \A r, l : RoomFor(r, l) => RoomFor(r, l)'
  BY <1>4, <1>6 DEF RoomFor, TypeOK
<1>9. \A h, l, j : ChannelFor(h, l, j) => ChannelFor(h, l, j)'
  BY <1>1, <1>2, <1>4, <1>6 DEF ChannelFor, TypeOK
<1>10. PointersInv'
  BY <1>2, <1>4, <1>6, <1>8, <1>9 DEF PointersInv, HeldInv, RunsUserCode, TypeOK
<1>11. ConnInv'
  BY <1>1, <1>2, <1>3, <1>4, <1>6, <1>8, <1>9 DEF ConnInv, TypeOK, RoomFor, ChannelFor
<1>12. MutexInv'
  BY <1>2, <1>4, <1>6 DEF MutexInv
<1>13. RegistryInv'
  <2>1. RoomFor(room, k)'
    BY <1>4, <1>6 DEF RoomFor, TypeOK
  <2>2. ASSUME NEW l \in Rooms, commMap'[l] # None
        PROVE  RoomFor(commMap[l], l)'
    <3>1. CASE l = k
      BY <2>1, <3>1, <1>4, <1>6 DEF TypeOK
    <3>2. CASE l # k
      BY <2>2, <3>2, <1>4, <1>6, <1>8 DEF RegistryInv, TypeOK
    <3> QED BY <3>1, <3>2
  <2>3. ASSUME NEW r \in Conns, NEW j \in Conns, conns'[r][j] # None
        PROVE  /\ ChannelFor(conns[r][j], RoomOf[r], j)'
               /\ ~closed'[conns'[r][j]]
               /\ \A s \in Conns : conns'[s][j] = conns'[r][j] => s = r
    BY <2>3, <1>4, <1>6, <1>9 DEF RegistryInv
  <2> QED BY <2>2, <2>3 DEF RegistryInv
<1>14. BufferInv'
  BY <1>1, <1>2, <1>4, <1>6 DEF BufferInv, TypeOK
<1>15. EmptyRoomIsTransient'
  <2> SUFFICES ASSUME NEW l \in Rooms, commMap'[l] # None,
                      \A j \in Conns : ~Registered(l, j)'
               PROVE  \E d \in Conns : Minds(d, l)'
    BY DEF EmptyRoomIsTransient
  <2>1. CASE l = k
    BY <2>1, <1>4, <1>6 DEF TypeOK, Minds
  <2>2. CASE l # k
    <3>a. commMap'[l] = commMap[l] /\ commMap[l] # None
      BY <2>2, <1>6 DEF TypeOK
    <3>b. \A j \in Conns : ~Registered(l, j)
      BY <3>a, <1>4 DEF Registered
    <3>1. PICK d \in Conns : Minds(d, l)
      BY <3>a, <3>b DEF EmptyRoomIsTransient
    <3>2. d # c \/ writer[d] = "prune"
      BY <3>1, <1>2 DEF Minds
    <3> QED BY <2>2, <3>1, <3>2, <1>4, <1>6 DEF TypeOK, Minds
  <2> QED BY <2>1, <2>2
<1>16. NoGhostEntry'
  <2> SUFFICES ASSUME NEW l \in Rooms, NEW j \in Conns, Registered(l, j)'
               PROVE  \E d \in Conns : Holds(d, l, j)'
    BY DEF NoGhostEntry
  <2>1. Registered(l, j)
    BY <1>4, <1>6 DEF Registered, TypeOK
  <2>2. PICK d \in Conns : Holds(d, l, j)
    BY <2>1 DEF NoGhostEntry
  <2> QED BY <2>2, <1>1, <1>2, <1>4, <1>6 DEF TypeOK, Holds
<1> QED BY <1>7, <1>10, <1>11, <1>12, <1>13, <1>14, <1>15, <1>16

(* InitConn taking its channel preserves the invariant: the channel is new,
   or the open one already registered under the connection's id. *)
LEMMA InitAttachStep ==
  ASSUME IInv, NEW c \in Conns, InitAttach(c)
  PROVE  IInv'
<1> USE CommAssumption, ThreadParts DEF IInv
<1> DEFINE k == RoomOf[c]
<1>1. /\ main[c] = "attach" /\ own[c] = None /\ id[c] # None /\ writer[c] = "none"
      /\ k \in Rooms /\ RoomFor(ref[Main(c)], k)
  BY DEF InitAttach, ConnInv
<1>2. PICK i \in Conns, room \in Conns :
        /\ i = id[c] /\ room = ref[Main(c)]
        /\ RoomOf[room] = k /\ main[room] # "new"
  BY <1>1 DEF RoomFor, TypeOK, Ptr
<1>3. PICK ch \in Conns :
        /\ conns[room][i] = None => ch = c
        /\ conns[room][i] # None => ch = conns[room][i]
        /\ conns' = [conns EXCEPT ![room] = [@ EXCEPT ![i] = ch]]
        /\ own' = [own EXCEPT ![c] = ch]
  BY <1>2 DEF InitAttach, RegistryInv, ChannelFor
<1>a. /\ ref' = [ref EXCEPT ![Main(c)] = None]
      /\ main' = [main EXCEPT ![c] = "joined"]
      /\ UNCHANGED <<commMap, closed, buf, mu, id, saved, writer, op, chan, dst>>
  BY DEF InitAttach
<1>b. /\ ch # c => own[ch] = ch /\ RoomOf[ch] = k /\ id[ch] = i
      /\ ~closed[ch]
      /\ \A r, j \in Conns : conns[r][j] = ch => r = room /\ j = i
  BY <1>1, <1>2, <1>3 DEF RegistryInv, ChannelFor, ConnInv
<1>4. TypeOK'
  BY <1>1, <1>2, <1>3, <1>a DEF TypeOK, Ptr, MainPC
<1>5. \A r, l : RoomFor(r, l) => RoomFor(r, l)'
  BY <1>1, <1>2, <1>3, <1>a DEF RoomFor, TypeOK
<1>6. \A h, l, j : ChannelFor(h, l, j) => ChannelFor(h, l, j)'
  BY <1>1, <1>2, <1>3, <1>a DEF ChannelFor, TypeOK
<1>7. ChannelFor(ch, k, i)'
  BY <1>1, <1>2, <1>3, <1>a, <1>b DEF ChannelFor, TypeOK
<1>8. PointersInv'
  BY <1>1, <1>2, <1>3, <1>a, <1>5, <1>6 DEF PointersInv, HeldInv, RunsUserCode, TypeOK
<1>9. ConnInv'
  BY <1>1, <1>2, <1>3, <1>a, <1>5, <1>6, <1>7 DEF ConnInv, TypeOK, ChannelFor
<1>10. MutexInv'
  BY <1>1, <1>2, <1>3, <1>a DEF MutexInv, TypeOK
<1>11. RegistryInv'
  <2>1. \A r, j \in Conns :
          \/ r = room /\ j = i /\ conns'[r][j] = ch
          \/ ~(r = room /\ j = i) /\ conns'[r][j] = conns[r][j]
    BY <1>1, <1>2, <1>3, <1>a DEF TypeOK
  <2>2. \A l \in Rooms : commMap'[l] # None => RoomFor(commMap[l], l)'
    BY <1>2, <1>a, <1>5 DEF RegistryInv
  <2>3. \A r, j \in Conns : conns'[r][j] # None =>
          ChannelFor(conns[r][j], RoomOf[r], j)' /\ ~closed'[conns'[r][j]]
    BY <2>1, <1>1, <1>2, <1>3, <1>a, <1>b, <1>6, <1>7 DEF RegistryInv
  <2>4. \A r, s, j \in Conns :
          conns'[r][j] # None /\ conns'[s][j] = conns'[r][j] => s = r
    BY <2>1, <1>3, <1>b DEF RegistryInv
  <2> QED BY <2>2, <2>3, <2>4 DEF RegistryInv
<1>12. BufferInv'
  BY <1>1, <1>2, <1>3, <1>a DEF BufferInv, TypeOK
<1>13. EmptyRoomIsTransient'
  <2> SUFFICES ASSUME NEW l \in Rooms, commMap'[l] # None,
                      \A j \in Conns : ~Registered(l, j)'
               PROVE  \E d \in Conns : Minds(d, l)'
    BY DEF EmptyRoomIsTransient
  <2>1. commMap[l] # room /\ commMap[l] \in Conns
    BY <1>1, <1>2, <1>3, <1>a DEF Registered, TypeOK, Ptr
  <2>2. \A j \in Conns : ~Registered(l, j)
    BY <2>1, <1>1, <1>2, <1>3, <1>a DEF Registered, TypeOK
  <2>3. PICK d \in Conns : Minds(d, l)
    BY <2>2, <1>2, <1>a DEF EmptyRoomIsTransient
  <2>4. CASE main[d] = "attach" /\ ref[Main(d)] = commMap[l]
    <3>1. d # c /\ Main(d) # Main(c)
      BY <2>1, <2>4, <1>2
    <3>2. main'[d] = main[d] /\ ref'[Main(d)] = ref[Main(d)]
      BY <3>1, <1>a DEF TypeOK
    <3> QED BY <2>3, <2>4, <3>2, <1>a DEF Minds
  <2>5. CASE writer[d] = "prune"
    BY <2>3, <2>5, <1>a DEF Minds
  <2> QED BY <2>3, <2>4, <2>5 DEF Minds
<1>14. NoGhostEntry'
  <2> SUFFICES ASSUME NEW l \in Rooms, NEW j \in Conns, Registered(l, j)'
               PROVE  \E d \in Conns : Holds(d, l, j)'
    BY DEF NoGhostEntry
  <2>1. commMap[l] \in Conns /\ RoomOf[commMap[l]] = l
    BY <1>2, <1>a DEF Registered, RegistryInv, RoomFor
  <2>2. CASE commMap[l] = room /\ j = i
    <3>1. RoomOf[c] = l /\ id'[c] = j /\ main'[c] = "joined" /\ writer'[c] = "none"
      BY <2>1, <2>2, <1>1, <1>2, <1>a DEF TypeOK
    <3> QED BY <3>1 DEF Holds
  <2>3. CASE ~(commMap[l] = room /\ j = i)
    <3>1. Registered(l, j)
      BY <2>1, <2>3, <1>1, <1>2, <1>3, <1>a DEF Registered, TypeOK
    <3>2. PICK d \in Conns : Holds(d, l, j)
      BY <3>1 DEF NoGhostEntry
    <3> QED BY <3>2, <1>1, <1>2, <1>3, <1>a DEF TypeOK, Holds
  <2> QED BY <2>2, <2>3
<1> QED BY <1>4, <1>8, <1>9, <1>10, <1>11, <1>12, <1>13, <1>14

(* A connection given up after InitConn (server.go:237-251) keeps the
   invariant: no CloseConn follows, so it holds its entry for ever. *)
LEMMA AbandonStep ==
  ASSUME IInv, NEW c \in Conns, Abandon(c)
  PROVE  IInv'
<1> USE CommAssumption, ThreadParts DEF IInv, Abandon
<1>1. TypeOK'
  BY DEF TypeOK, Ptr, MainPC
<1>2. PointersInv'
  BY DEF TypeOK, PointersInv, HeldInv, RunsUserCode, RoomFor, ChannelFor
<1>3. ConnInv'
  BY DEF TypeOK, ConnInv, RoomFor, ChannelFor
<1>4. RegistryInv'
  BY DEF TypeOK, RegistryInv, RoomFor, ChannelFor
<1>5. /\ MutexInv'
     /\ BufferInv'
  BY DEF MutexInv, BufferInv
<1>6. EmptyRoomIsTransient' /\ NoGhostEntry'
  BY RegistryFrame DEF TypeOK
<1> QED BY <1>1, <1>2, <1>3, <1>4, <1>5, <1>6

(* Upgrading the connection preserves the invariant. *)
LEMMA UpgradeStep ==
  ASSUME IInv, NEW c \in Conns, Upgrade(c)
  PROVE  IInv'
<1> USE CommAssumption, ThreadParts DEF IInv, Upgrade
<1>1. TypeOK'
  BY DEF TypeOK, Ptr, MainPC
<1>2. PointersInv'
  BY DEF TypeOK, PointersInv, HeldInv, RunsUserCode, RoomFor, ChannelFor
<1>3. ConnInv'
  BY DEF TypeOK, ConnInv, RoomFor, ChannelFor
<1>4. RegistryInv'
  BY DEF TypeOK, RegistryInv, RoomFor, ChannelFor
<1>5. /\ MutexInv'
     /\ BufferInv'
  BY DEF MutexInv, BufferInv
<1>6. EmptyRoomIsTransient' /\ NoGhostEntry'
  BY RegistryFrame DEF TypeOK
<1> QED BY <1>1, <1>2, <1>3, <1>4, <1>5, <1>6

(* Starting handleExternalMessages preserves the invariant. *)
LEMMA StartWriterStep ==
  ASSUME IInv, NEW c \in Conns, StartWriter(c)
  PROVE  IInv'
<1> USE CommAssumption, ThreadParts DEF IInv, StartWriter
<1>1. TypeOK'
  BY DEF TypeOK, Ptr, WriterPC
<1>2. PointersInv'
  BY DEF TypeOK, PointersInv, HeldInv, RunsUserCode, RoomFor, ChannelFor
<1>3. ConnInv'
  BY DEF TypeOK, ConnInv, RoomFor, ChannelFor
<1>4. MutexInv'
  BY DEF TypeOK, MutexInv
<1>5. /\ RegistryInv'
     /\ BufferInv'
  BY DEF RegistryInv, RoomFor, ChannelFor, BufferInv
<1>6. EmptyRoomIsTransient' /\ NoGhostEntry'
  BY RegistryFrame DEF TypeOK
<1> QED BY <1>1, <1>2, <1>3, <1>4, <1>5, <1>6

(* The read loop returning preserves the invariant. *)
LEMMA EndReadStep ==
  ASSUME IInv, NEW c \in Conns, EndRead(c)
  PROVE  IInv'
<1> USE CommAssumption, ThreadParts DEF IInv, EndRead
<1>1. TypeOK'
  BY DEF TypeOK, Ptr, MainPC
<1>2. PointersInv'
  BY DEF TypeOK, PointersInv, HeldInv, RunsUserCode, RoomFor, ChannelFor
<1>3. ConnInv'
  BY DEF TypeOK, ConnInv, RoomFor, ChannelFor
<1>4. RegistryInv'
  BY DEF TypeOK, RegistryInv, RoomFor, ChannelFor
<1>5. /\ MutexInv'
     /\ BufferInv'
  BY DEF MutexInv, BufferInv
<1>6. EmptyRoomIsTransient' /\ NoGhostEntry'
  BY RegistryFrame DEF TypeOK
<1> QED BY <1>1, <1>2, <1>3, <1>4, <1>5, <1>6

(* A step inside a message handler that changes the handler's own locals, and
   at most puts an event into a channel, preserves the invariant if the
   pointers the goroutine ends up with are good. *)
LEMMA CallFrame ==
  ASSUME IInv, NEW t \in Threads, op[t] # "none",
         UNCHANGED <<commMap, conns, closed, mu, id, saved, own, main, writer>>,
         buf' \in [Conns -> Seq(Event)], BufferInv',
         op' \in [Threads -> OpPC], ref' \in [Threads -> Ptr],
         chan' \in [Threads -> Ptr], dst' \in [Threads -> Ptr],
         \A s \in Threads : s # t => /\ op'[s] = op[s] /\ ref'[s] = ref[s]
                                     /\ chan'[s] = chan[s] /\ dst'[s] = dst[s],
         op'[t] # "none" => HeldInv(t)'
  PROVE  IInv'
<1> USE ThreadParts DEF IInv
<1>1. \A c \in Conns : /\ t = Main(c) => main[c] = "run"
                       /\ t = Writer(c) => writer[c] = "leaving"
  BY DEF PointersInv, HeldInv, RunsUserCode
<1>2. TypeOK'
  BY DEF TypeOK
<1>3. PointersInv'
  BY DEF PointersInv, HeldInv, RunsUserCode, RoomFor, ChannelFor
<1>4. ConnInv'
  BY <1>1 DEF ConnInv, RoomFor, ChannelFor
<1>5. MutexInv'
  BY <1>1 DEF MutexInv
<1>6. RegistryInv'
  BY DEF RegistryInv, RoomFor, ChannelFor
<1>7. EmptyRoomIsTransient' /\ NoGhostEntry'
  BY <1>1, RegistryFrame
<1> QED BY <1>2, <1>3, <1>4, <1>5, <1>6, <1>7

(* A handler that returns preserves the invariant. *)
LEMMA ReturnStep ==
  ASSUME IInv, NEW t \in Threads, op[t] # "none", Return(t),
         UNCHANGED <<commMap, conns, closed, mu, id, saved, own, main, writer>>,
         buf' \in [Conns -> Seq(Event)], BufferInv'
  PROVE  IInv'
<1>1. /\ op' \in [Threads -> OpPC] /\ ref' \in [Threads -> Ptr]
      /\ chan' \in [Threads -> Ptr] /\ dst' \in [Threads -> Ptr]
      /\ op'[t] = "none"
      /\ \A s \in Threads : s # t => /\ op'[s] = op[s] /\ ref'[s] = ref[s]
                                     /\ chan'[s] = chan[s] /\ dst'[s] = dst[s]
  BY DEF IInv, TypeOK, Return, OpPC, Ptr
<1> QED BY <1>1, CallFrame

(* A handler that goes on with a new pointer preserves the invariant if the
   pointer is good. *)
LEMMA GoOnStep ==
  ASSUME IInv, NEW t \in Threads, op[t] # "none",
         NEW pc \in OpPC, NEW r \in Ptr, NEW h \in Ptr,
         op' = [op EXCEPT ![t] = pc],
         ref' = [ref EXCEPT ![t] = r],
         chan' = [chan EXCEPT ![t] = h],
         pc \in {"asked", "found"} => RoomFor(r, RoomOf[t[1]]),
         pc = "send" => ChannelFor(h, RoomOf[t[1]], dst[t]),
         UNCHANGED <<commMap, conns, closed, buf, mu, id, saved, own, main,
                     writer, dst>>
  PROVE  IInv'
<1>1. /\ op' \in [Threads -> OpPC] /\ ref' \in [Threads -> Ptr]
      /\ chan' \in [Threads -> Ptr] /\ dst' \in [Threads -> Ptr]
      /\ op'[t] = pc /\ ref'[t] = r /\ chan'[t] = h
      /\ \A s \in Threads : s # t => /\ op'[s] = op[s] /\ ref'[s] = ref[s]
                                     /\ chan'[s] = chan[s] /\ dst'[s] = dst[s]
  BY DEF IInv, TypeOK
<1>2. HeldInv(t)'
  BY <1>1 DEF IInv, PointersInv, HeldInv, RunsUserCode, RoomFor, ChannelFor
<1>3. buf' \in [Conns -> Seq(Event)] /\ BufferInv'
  BY DEF IInv, TypeOK, BufferInv
<1> QED BY <1>1, <1>2, <1>3, CallFrame

(* Calling a message handler preserves the invariant. *)
LEMMA SendBeginStep ==
  ASSUME IInv, NEW t \in Threads, SendBegin(t)
  PROVE  IInv'
<1> USE CommAssumption, ThreadParts DEF IInv, SendBegin
<1>1. TypeOK'
  BY DEF TypeOK, Ptr, OpPC
<1>2. PointersInv'
  BY DEF TypeOK, PointersInv, HeldInv, RunsUserCode, RoomFor, ChannelFor
<1>3. /\ ConnInv'
     /\ MutexInv'
     /\ RegistryInv'
     /\ BufferInv'
  BY DEF ConnInv, RoomFor, ChannelFor, MutexInv, RegistryInv, RoomFor, ChannelFor, BufferInv
<1>4. EmptyRoomIsTransient' /\ NoGhostEntry'
  BY RegistryFrame DEF TypeOK
<1> QED BY <1>1, <1>2, <1>3, <1>4

(* UserOnSameNode finding the room preserves the invariant. *)
LEMMA AskRoomStep ==
  ASSUME IInv, NEW t \in Threads, AskRoom(t)
  PROVE  IInv'
<1> USE DEF AskRoom, LookupRoom, SenderRoom
<1> DEFINE room == commMap[RoomOf[t[1]]]
<1>1. op[t] # "none" /\ buf' \in [Conns -> Seq(Event)] /\ BufferInv'
  BY DEF IInv, TypeOK, BufferInv
<1>2. CASE Return(t)
  BY <1>1, <1>2, ReturnStep
<1>3. CASE room # None /\ ref' = [ref EXCEPT ![t] = room]
           /\ op' = [op EXCEPT ![t] = "asked"] /\ UNCHANGED <<dst, chan>>
  <2>1. room \in Ptr /\ RoomFor(room, RoomOf[t[1]])
    BY <1>3, CommAssumption, ThreadParts DEF IInv, TypeOK, RegistryInv
  <2>2. chan[t] \in Ptr /\ chan' = [chan EXCEPT ![t] = chan[t]]
    BY <1>3 DEF IInv, TypeOK
  <2>3. "asked" \in OpPC
    BY DEF OpPC
  <2> HIDE DEF room
  <2> QED BY <1>1, <1>3, <2>1, <2>2, <2>3, GoOnStep
<1> QED BY <1>2, <1>3

(* UserOnSameNode looking the connection up preserves the invariant. *)
LEMMA AskConnStep ==
  ASSUME IInv, NEW t \in Threads, AskConn(t)
  PROVE  IInv'
<1> USE DEF AskConn
<1>1. op[t] # "none" /\ buf' \in [Conns -> Seq(Event)] /\ BufferInv'
  BY DEF IInv, TypeOK, BufferInv
<1>2. CASE Return(t)
  BY <1>1, <1>2, ReturnStep
<1>3. CASE op' = [op EXCEPT ![t] = "find"] /\ ref' = [ref EXCEPT ![t] = None]
           /\ UNCHANGED <<dst, chan>>
  <2>1. chan[t] \in Ptr /\ chan' = [chan EXCEPT ![t] = chan[t]]
    BY <1>3 DEF IInv, TypeOK
  <2> QED BY <1>1, <1>3, <2>1, GoOnStep DEF OpPC, Ptr
<1> QED BY <1>2, <1>3

(* SendEvent finding the room preserves the invariant. *)
LEMMA FindRoomStep ==
  ASSUME IInv, NEW t \in Threads, FindRoom(t)
  PROVE  IInv'
<1> USE DEF FindRoom, LookupRoom, SenderRoom
<1> DEFINE room == commMap[RoomOf[t[1]]]
<1>1. op[t] # "none" /\ buf' \in [Conns -> Seq(Event)] /\ BufferInv'
  BY DEF IInv, TypeOK, BufferInv
<1>2. CASE Return(t)
  BY <1>1, <1>2, ReturnStep
<1>3. CASE room # None /\ ref' = [ref EXCEPT ![t] = room]
           /\ op' = [op EXCEPT ![t] = "found"] /\ UNCHANGED <<dst, chan>>
  <2>1. room \in Ptr /\ RoomFor(room, RoomOf[t[1]])
    BY <1>3, CommAssumption, ThreadParts DEF IInv, TypeOK, RegistryInv
  <2>2. chan[t] \in Ptr /\ chan' = [chan EXCEPT ![t] = chan[t]]
    BY <1>3 DEF IInv, TypeOK
  <2>3. "found" \in OpPC
    BY DEF OpPC
  <2> HIDE DEF room
  <2> QED BY <1>1, <1>3, <2>1, <2>2, <2>3, GoOnStep
<1> QED BY <1>2, <1>3

(* SendEvent fetching the channel preserves the invariant: even in a room
   pruned in the meantime, the channel was made for the target. *)
LEMMA FindChanStep ==
  ASSUME IInv, NEW t \in Threads, FindChan(t)
  PROVE  IInv'
<1> USE DEF FindChan
<1> DEFINE ch == conns[ref[t]][dst[t]]
<1>1. op[t] # "none" /\ buf' \in [Conns -> Seq(Event)] /\ BufferInv'
  BY DEF IInv, TypeOK, BufferInv
<1>2. CASE Return(t)
  BY <1>1, <1>2, ReturnStep
<1>3. CASE ch # None /\ chan' = [chan EXCEPT ![t] = ch]
           /\ op' = [op EXCEPT ![t] = "send"] /\ UNCHANGED <<ref, dst>>
  <2>1. /\ ref[t] \in Conns /\ dst[t] \in Conns
        /\ RoomOf[ref[t]] = RoomOf[t[1]]
    BY DEF IInv, PointersInv, HeldInv, RoomFor
  <2>2. ch \in Ptr /\ ChannelFor(ch, RoomOf[t[1]], dst[t])
    BY <1>3, <2>1 DEF IInv, RegistryInv, ChannelFor, Ptr
  <2>3. ref[t] \in Ptr /\ ref' = [ref EXCEPT ![t] = ref[t]]
    BY <1>3 DEF IInv, TypeOK
  <2> QED BY <1>1, <1>3, <2>2, <2>3, GoOnStep DEF OpPC
<1> QED BY <1>2, <1>3

(* SendEvent's select preserves the invariant: the event goes to a channel of
   its addressee, closed or not. *)
LEMMA SendStep ==
  ASSUME IInv, NEW t \in Threads, Send(t)
  PROVE  IInv'
<1> DEFINE ch == chan[t]
           e == [src |-> t[1], to |-> Address(RoomOf[t[1]], dst[t])]
<1>1. /\ ch \in Conns /\ dst[t] \in Conns
      /\ own[ch] = ch /\ RoomOf[ch] = RoomOf[t[1]] /\ id[ch] = dst[t]
  BY DEF IInv, Send, EventOf, HasSpace, PointersInv, HeldInv, ChannelFor
<1>2. e \in Event /\ e.to = Address(RoomOf[ch], id[ch])
  BY <1>1, CommAssumption, ThreadParts DEF Event, Addresses, Address
<1>3. /\ Append(buf[ch], e) \in Seq(Event)
      /\ \A n \in DOMAIN Append(buf[ch], e) :
           \/ Append(buf[ch], e)[n] = e
           \/ n \in DOMAIN buf[ch] /\ Append(buf[ch], e)[n] = buf[ch][n]
  BY <1>1, <1>2, AppendProperties DEF IInv, TypeOK
<1>4. buf' = buf \/ buf' = [buf EXCEPT ![ch] = Append(buf[ch], e)]
  BY DEF Send, EventOf, HasSpace
<1>5. buf' \in [Conns -> Seq(Event)]
  BY <1>3, <1>4 DEF IInv, TypeOK
<1>6. BufferInv'
  BY <1>1, <1>2, <1>3, <1>4 DEF IInv, TypeOK, BufferInv, Send, EventOf, HasSpace
<1> QED BY <1>5, <1>6, ReturnStep DEF Send, EventOf, HasSpace

(* The writer taking an event preserves the invariant. *)
LEMMA ReceiveStep ==
  ASSUME IInv, NEW c \in Conns, Receive(c)
  PROVE  IInv'
<1> USE DEF IInv, Receive
<1> DEFINE h == own[c]
<1>1. h \in Conns /\ own[h] = h
  BY DEF ConnInv, ChannelFor
<1>2. /\ Tail(buf[h]) \in Seq(Event)
      /\ \A n \in DOMAIN Tail(buf[h]) :
           n + 1 \in DOMAIN buf[h] /\ Tail(buf[h])[n] = buf[h][n + 1]
  BY <1>1, HeadTailProperties DEF TypeOK
<1>3. TypeOK'
  BY <1>1, <1>2 DEF TypeOK
<1>4. BufferInv'
  BY <1>1, <1>2 DEF TypeOK, BufferInv
<1>5. /\ PointersInv' /\ ConnInv' /\ MutexInv' /\ RegistryInv'
      /\ EmptyRoomIsTransient' /\ NoGhostEntry'
  BY DEF PointersInv, HeldInv, RunsUserCode, RoomFor, ChannelFor, ConnInv,
         MutexInv, RegistryInv, EmptyRoomIsTransient, NoGhostEntry, Registered,
         Minds, Holds
<1> QED BY <1>3, <1>4, <1>5

(* The writer returning on a closed channel preserves the invariant. *)
LEMMA ChannelClosedStep ==
  ASSUME IInv, NEW c \in Conns, ChannelClosed(c)
  PROVE  IInv'
<1> USE CommAssumption, ThreadParts DEF IInv, ChannelClosed, Drained, EndServe
<1>1. TypeOK'
  BY DEF TypeOK, Ptr, WriterPC
<1>2. PointersInv'
  BY DEF TypeOK, PointersInv, HeldInv, RunsUserCode, RoomFor, ChannelFor
<1>3. ConnInv'
  BY DEF TypeOK, ConnInv, RoomFor, ChannelFor
<1>4. MutexInv'
  BY DEF TypeOK, MutexInv
<1>5. /\ RegistryInv'
     /\ BufferInv'
  BY DEF RegistryInv, RoomFor, ChannelFor, BufferInv
<1>6. EmptyRoomIsTransient' /\ NoGhostEntry'
  BY RegistryFrame DEF TypeOK
<1> QED BY <1>1, <1>2, <1>3, <1>4, <1>5, <1>6

(* The writer returning for another reason preserves the invariant. *)
LEMMA DisconnectStep ==
  ASSUME IInv, NEW c \in Conns, Disconnect(c)
  PROVE  IInv'
<1> USE CommAssumption, ThreadParts DEF IInv, Disconnect, EndServe
<1>1. TypeOK'
  BY DEF TypeOK, Ptr, WriterPC
<1>2. PointersInv'
  BY DEF TypeOK, PointersInv, HeldInv, RunsUserCode, RoomFor, ChannelFor
<1>3. ConnInv'
  BY DEF TypeOK, ConnInv, RoomFor, ChannelFor
<1>4. MutexInv'
  BY DEF TypeOK, MutexInv
<1>5. /\ RegistryInv'
     /\ BufferInv'
  BY DEF RegistryInv, RoomFor, ChannelFor, BufferInv
<1>6. EmptyRoomIsTransient' /\ NoGhostEntry'
  BY RegistryFrame DEF TypeOK
<1> QED BY <1>1, <1>2, <1>3, <1>4, <1>5, <1>6

(* LeaveRoom preserves the invariant. *)
LEMMA LeaveStep ==
  ASSUME IInv, NEW c \in Conns, Leave(c)
  PROVE  IInv'
<1> USE CommAssumption, ThreadParts DEF IInv, Leave
<1>1. TypeOK'
  BY DEF TypeOK, Ptr, WriterPC
<1>2. PointersInv'
  BY DEF TypeOK, PointersInv, HeldInv, RunsUserCode, RoomFor, ChannelFor
<1>3. ConnInv'
  BY DEF TypeOK, ConnInv, RoomFor, ChannelFor
<1>4. MutexInv'
  BY DEF TypeOK, MutexInv
<1>5. /\ RegistryInv'
     /\ BufferInv'
  BY DEF RegistryInv, RoomFor, ChannelFor, BufferInv
<1>6. EmptyRoomIsTransient' /\ NoGhostEntry'
  BY RegistryFrame DEF TypeOK
<1> QED BY <1>1, <1>2, <1>3, <1>4, <1>5, <1>6

(* CloseConn locking mu preserves the invariant: a connection that finds no
   room held no entry. *)
LEMMA CloseLookupStep ==
  ASSUME IInv, NEW c \in Conns, CloseLookup(c)
  PROVE  IInv'
<1> USE ThreadParts DEF IInv
<1> DEFINE room == commMap[RoomOf[c]]
<1>1. /\ writer[c] = "close" /\ op[Writer(c)] = "none" /\ mu = None
      /\ UNCHANGED <<commMap, conns, closed, buf, id, saved, own, main, op,
                     chan, dst>>
  BY DEF CloseLookup, Lock, PointersInv, HeldInv, RunsUserCode
<1>2. \/ /\ room = None
         /\ writer' = [writer EXCEPT ![c] = "done"]
         /\ UNCHANGED <<mu, ref>>
      \/ /\ room # None
         /\ mu' = c
         /\ ref' = [ref EXCEPT ![Writer(c)] = room]
         /\ writer' = [writer EXCEPT ![c] = "drop"]
  BY DEF CloseLookup, Lock
<1>3. room \in Ptr
  BY CommAssumption DEF TypeOK
<1> HIDE DEF room
<1>4. /\ writer' \in [Conns -> WriterPC] /\ mu' \in Ptr
      /\ ref' \in [Threads -> Ptr]
  <2>1. CASE room = None
    <3>1. writer' = [writer EXCEPT ![c] = "done"] /\ UNCHANGED <<mu, ref>>
      BY <1>2, <2>1
    <3>2. writer' \in [Conns -> WriterPC]
      BY <3>1 DEF TypeOK, WriterPC
    <3>3. mu' \in Ptr /\ ref' \in [Threads -> Ptr]
      BY <3>1 DEF TypeOK
    <3> QED BY <3>2, <3>3
  <2>2. CASE room # None
    <3>1. writer' \in [Conns -> WriterPC]
      BY <1>2, <2>2 DEF TypeOK, WriterPC
    <3>2. ref' \in [Threads -> Ptr]
      <4>1. ref' = [ref EXCEPT ![Writer(c)] = room]
        BY <1>2, <2>2
      <4>2. ref \in [Threads -> Ptr]
        BY DEF TypeOK
      <4> QED BY <4>1, <4>2, <1>3
    <3>3. mu' \in Ptr
      BY <1>2, <2>2 DEF Ptr
    <3> QED BY <3>1, <3>2, <3>3
  <2> QED BY <2>1, <2>2
<1>5. /\ \A d \in Conns : d # c => writer'[d] = writer[d]
      /\ writer'[c] \in {"drop", "done"}
      /\ \A d \in Conns : ref'[Main(d)] = ref[Main(d)]
      /\ \A d \in Conns : d # c => ref'[Writer(d)] = ref[Writer(d)]
      /\ \A t \in Threads : op[t] # "none" => ref'[t] = ref[t]
  BY <1>1, <1>2, <1>4 DEF TypeOK
<1>6. TypeOK'
  BY <1>1, <1>4 DEF TypeOK
<1>7. PointersInv'
  BY <1>1, <1>5 DEF PointersInv, HeldInv, RunsUserCode, RoomFor, ChannelFor
<1>8. ConnInv'
  BY <1>1, <1>5 DEF ConnInv, RoomFor, ChannelFor
<1>9. MutexInv'
  BY <1>1, <1>2, <1>5, CommAssumption DEF MutexInv, TypeOK, room
<1>10. RegistryInv' /\ BufferInv'
  BY <1>1 DEF RegistryInv, BufferInv, RoomFor, ChannelFor
<1>11. EmptyRoomIsTransient' /\ NoGhostEntry'
  <2>1. \A d \in Conns : writer[d] \notin {"prune", "keep", "done"} =>
          \/ writer'[d] \notin {"prune", "keep", "done"}
          \/ commMap[RoomOf[d]] = None
    BY <1>2, <1>5 DEF TypeOK, room
  <2> QED BY <2>1, <1>1, <1>5, RegistryFrame
<1> QED BY <1>6, <1>7, <1>8, <1>9, <1>10, <1>11

(* CloseConn closing the channel preserves the invariant: the channel is open
   and in no other CommRoom, and a room left empty is about to be pruned. *)
LEMMA CloseDropStep ==
  ASSUME IInv, NEW c \in Conns, CloseDrop(c)
  PROVE  IInv'
<1> USE ThreadParts DEF IInv
<1> DEFINE k == RoomOf[c]
<1>1. /\ writer[c] = "drop" /\ mu = c /\ id[c] # None /\ op[Writer(c)] = "none"
      /\ k \in Rooms /\ commMap[k] # None /\ ref[Writer(c)] = commMap[k]
      /\ RoomFor(commMap[k], k)
  BY CommAssumption DEF CloseDrop, Forget, IsEmpty, MutexInv, ConnInv, RegistryInv, PointersInv,
     HeldInv, RunsUserCode
<1>2. PICK i \in Conns, room \in Conns :
        /\ i = id[c] /\ room = commMap[k] /\ room = ref[Writer(c)]
        /\ RoomOf[room] = k
  BY <1>1 DEF RoomFor, TypeOK, Ptr
<1>3. PICK ch \in Ptr : ch = conns[room][i]
  BY <1>2 DEF TypeOK
<1>4. ch # None => ChannelFor(ch, k, i)
  BY <1>2, <1>3 DEF RegistryInv
<1>5. /\ closed' = IF ch = None THEN closed ELSE [closed EXCEPT ![ch] = TRUE]
      /\ conns' = [conns EXCEPT ![room] = [@ EXCEPT ![i] = None]]
      /\ writer' = [writer EXCEPT ![c] =
           IF \A j \in Conns : conns'[room][j] = None THEN "prune" ELSE "keep"]
      /\ UNCHANGED <<commMap, buf, mu, id, saved, own, main, op, ref, chan, dst>>
  BY <1>2, <1>3 DEF CloseDrop, Forget, IsEmpty
<1>6. /\ writer'[c] \in {"prune", "keep"}
      /\ (\A j \in Conns : conns'[room][j] = None) => writer'[c] = "prune"
      /\ \A d \in Conns : d # c => writer'[d] = writer[d]
      /\ writer' \in [Conns -> WriterPC]
  BY <1>5 DEF TypeOK, WriterPC
<1>7. /\ \A r, j \in Conns :
           conns'[r][j] = IF r = room /\ j = i THEN None ELSE conns[r][j]
      /\ conns' \in [Conns -> [Conns -> Ptr]]
  BY <1>2, <1>5 DEF TypeOK, Ptr
<1>8. /\ \A h \in Conns : closed'[h] <=> (closed[h] \/ h = ch)
      /\ closed' \in [Conns -> BOOLEAN]
  BY <1>4, <1>5, CommAssumption DEF TypeOK, ChannelFor
<1>9. TypeOK'
  BY <1>5, <1>6, <1>7, <1>8 DEF TypeOK
<1>10. PointersInv'
  BY <1>1, <1>5, <1>6 DEF PointersInv, HeldInv, RunsUserCode, RoomFor, ChannelFor
<1>11. ConnInv'
  <2>1. \A d \in Conns : closed'[d] => own'[d] = d
    BY <1>4, <1>5, <1>8 DEF ConnInv, ChannelFor
  <2>2. \A d \in Conns : main'[d] = "new" => \A j \in Conns : conns'[d][j] = None
    BY <1>5, <1>7 DEF ConnInv
  <2>3. \A d \in Conns : writer'[d] # "none" => main'[d] \in {"run", "done"}
    BY <1>1, <1>5, <1>6 DEF ConnInv
  <2> QED BY <2>1, <2>2, <2>3, <1>5 DEF ConnInv, RoomFor, ChannelFor
<1>12. MutexInv'
  BY <1>1, <1>5, <1>6 DEF MutexInv
<1>13. RegistryInv'
  <2>1. \A l \in Rooms : commMap'[l] # None => RoomFor(commMap[l], l)'
    BY <1>5 DEF RegistryInv, RoomFor
  <2>2. ASSUME NEW r \in Conns, NEW j \in Conns, conns'[r][j] # None
        PROVE  /\ conns'[r][j] = conns[r][j] /\ conns[r][j] # None
               /\ conns[r][j] # ch /\ conns[r][j] \in Conns
    BY <2>2, <1>3, <1>4, <1>7 DEF RegistryInv, ChannelFor
  <2>3. ASSUME NEW r \in Conns, NEW j \in Conns, conns'[r][j] # None
        PROVE  /\ ChannelFor(conns[r][j], RoomOf[r], j)'
               /\ ~closed'[conns'[r][j]]
    BY <2>2, <2>3, <1>5, <1>8 DEF RegistryInv, ChannelFor
  <2>4. ASSUME NEW r \in Conns, NEW j \in Conns, NEW s \in Conns,
               conns'[r][j] # None, conns'[s][j] = conns'[r][j]
        PROVE  s = r
    BY <2>2, <2>4 DEF RegistryInv
  <2> QED BY <2>1, <2>3, <2>4 DEF RegistryInv
<1>14. BufferInv'
  BY <1>5 DEF BufferInv
<1>15. EmptyRoomIsTransient'
  <2> SUFFICES ASSUME NEW l \in Rooms, commMap'[l] # None,
                      \A j \in Conns : ~Registered(l, j)'
               PROVE  \E d \in Conns : Minds(d, l)'
    BY DEF EmptyRoomIsTransient
  <2>1. commMap[l] \in Conns /\ RoomOf[commMap[l]] = l
    BY <1>5 DEF RegistryInv, RoomFor
  <2>2. CASE commMap[l] = room
    BY <2>1, <2>2, <1>2, <1>5, <1>6 DEF Registered, Minds
  <2>3. CASE commMap[l] # room
    <3>1. \A j \in Conns : ~Registered(l, j)
      BY <2>1, <2>3, <1>5, <1>7 DEF Registered
    <3>2. PICK d \in Conns : Minds(d, l)
      BY <3>1, <1>5 DEF EmptyRoomIsTransient
    <3> QED BY <3>2, <1>1, <1>5, <1>6 DEF Minds
  <2> QED BY <2>2, <2>3
<1>16. NoGhostEntry'
  <2> SUFFICES ASSUME NEW l \in Rooms, NEW j \in Conns, Registered(l, j)'
               PROVE  \E d \in Conns : Holds(d, l, j)'
    BY DEF NoGhostEntry
  <2>1. commMap[l] \in Conns
    BY <1>5 DEF Registered, RegistryInv, RoomFor
  <2>2. Registered(l, j) /\ ~(commMap[l] = room /\ j = i)
    BY <2>1, <1>5, <1>7 DEF Registered
  <2>3. PICK d \in Conns : Holds(d, l, j)
    BY <2>2 DEF NoGhostEntry
  <2>4. d # c
    BY <2>2, <2>3, <1>2 DEF Holds
  <2> QED BY <2>3, <2>4, <1>5, <1>6 DEF Holds
<1> QED BY <1>9, <1>10, <1>11, <1>12, <1>13, <1>14, <1>15, <1>16

(* CloseConn forgetting the room and releasing mu preserves the invariant:
   mu kept the room in commMap from the lookup on. *)
LEMMA ClosePruneStep ==
  ASSUME IInv, NEW c \in Conns, ClosePrune(c)
  PROVE  IInv'
<1> USE CommAssumption, ThreadParts DEF IInv, ClosePrune, Unlock
<1>1. TypeOK'
  BY DEF TypeOK, Ptr, WriterPC
<1>2. PointersInv'
  BY DEF TypeOK, PointersInv, HeldInv, RunsUserCode, RoomFor, ChannelFor
<1>3. ConnInv'
  BY DEF TypeOK, ConnInv, RoomFor, ChannelFor
<1>4. MutexInv'
  BY DEF TypeOK, MutexInv
<1>5. RegistryInv'
  BY DEF TypeOK, RegistryInv, RoomFor, ChannelFor
<1>6. EmptyRoomIsTransient'
  <2> SUFFICES ASSUME NEW l \in Rooms, commMap'[l] # None,
                      \A j \in Conns : ~Registered(l, j)'
               PROVE  \E d \in Conns : Minds(d, l)'
    BY DEF EmptyRoomIsTransient
  <2>1. commMap'[l] = commMap[l] /\ (l = RoomOf[c] => writer[c] = "keep")
    BY DEF TypeOK
  <2>2. \A j \in Conns : ~Registered(l, j)
    BY <2>1 DEF Registered
  <2>3. PICK d \in Conns : Minds(d, l)
    BY <2>1, <2>2 DEF EmptyRoomIsTransient
  <2>4. writer[d] = "prune" => d # c
    BY <2>1, <2>3 DEF Minds
  <2>5. /\ main'[d] = main[d] /\ ref'[Main(d)] = ref[Main(d)]
        /\ d # c => writer'[d] = writer[d]
    BY DEF TypeOK
  <2> QED BY <2>1, <2>3, <2>4, <2>5 DEF Minds
<1>7. NoGhostEntry'
  BY DEF TypeOK, NoGhostEntry, Registered, Holds
<1>8. BufferInv'
  BY DEF BufferInv
<1> QED BY <1>1, <1>2, <1>3, <1>4, <1>5, <1>6, <1>7, <1>8

(* The process starts with an empty registry, which satisfies the invariant. *)
LEMMA InitIInv == Init => IInv
<1> SUFFICES ASSUME Init PROVE IInv
  OBVIOUS
<1> USE DEF Init
<1>1. TypeOK
  BY DEF TypeOK, Ptr, MainPC, WriterPC, OpPC
<1>2. PointersInv /\ ConnInv /\ MutexInv /\ RegistryInv
  BY DEF PointersInv, ConnInv, MutexInv, RegistryInv
<1>3. BufferInv /\ EmptyRoomIsTransient /\ NoGhostEntry
  BY DEF BufferInv, EmptyRoomIsTransient, NoGhostEntry, Registered
<1> QED BY <1>1, <1>2, <1>3 DEF IInv

(* Every step of every goroutine preserves the invariant. *)
LEMMA NextIInv == IInv /\ [Next]_vars => IInv'
<1> SUFFICES ASSUME IInv, [Next]_vars PROVE IInv'
  OBVIOUS
<1>1. ASSUME NEW c \in Conns, ConnStep(c) PROVE IInv'
  BY <1>1, InitLookupStep, InitAttachStep, AbandonStep, UpgradeStep,
     StartWriterStep, EndReadStep, ReceiveStep, ChannelClosedStep,
     DisconnectStep, LeaveStep, CloseLookupStep, CloseDropStep, ClosePruneStep
     DEF ConnStep
<1>2. ASSUME NEW t \in Threads, SendBegin(t) \/ MessageStep(t) PROVE IInv'
  BY <1>2, SendBeginStep, AskRoomStep, AskConnStep, FindRoomStep, FindChanStep,
     SendStep DEF MessageStep
<1>3. CASE UNCHANGED vars
  BY <1>3 DEF vars, IInv, TypeOK, PointersInv, HeldInv, RunsUserCode, ConnInv,
     MutexInv, RegistryInv, RoomFor, ChannelFor, BufferInv,
     EmptyRoomIsTransient, Minds, NoGhostEntry, Holds, Registered
<1> QED BY <1>1, <1>2, <1>3 DEF Next

(* The registry of internal/comm always satisfies the inductive invariant. *)
THEOREM Invariance == Spec => []IInv
BY InitIInv, NextIInv, PTL DEF Spec

(* The types of the registry and of every goroutine's locals hold in every
   reachable state.  No pointer the code dereferences is nil: the typing of
   conns[room][id] and buf[ch] rests on it. *)
THEOREM TypeCorrect == Spec => []TypeOK
<1>1. IInv => TypeOK
  BY DEF IInv
<1> QED BY <1>1, Invariance, PTL

(* However many connections share ids, InitConn never hands out a closed
   channel and CloseConn never closes one twice. *)
THEOREM ChannelsFoundAreOpen == Spec => []NeverFindsClosed
<1>1. IInv => NeverFindsClosed
  BY DEF IInv, RegistryInv, NeverFindsClosed
<1> QED BY <1>1, Invariance, PTL

(* An empty CommRoom stays in commMap only while an InitConn is about to fill
   it or a CloseConn to delete it. *)
THEOREM LastOneOutPrunes == Spec => []EmptyRoomIsTransient
<1>1. IInv => EmptyRoomIsTransient
  BY DEF IInv
<1> QED BY <1>1, Invariance, PTL

(* Whatever UserOnSameNode can find belongs to a connection that has not been
   through CloseConn. *)
THEOREM NoGhosts == Spec => []NoGhostEntry
<1>1. IInv => NoGhostEntry
  BY DEF IInv
<1> QED BY <1>1, Invariance, PTL

(* An event a writer goroutine takes from its channel was sent to its
   connection id and room. *)
THEOREM MessagesReachTheirAddressee == Spec => []ReaderIsAddressee
<1>1. IInv => ReaderIsAddressee
  <2> SUFFICES ASSUME IInv, NEW c \in Conns, own[c] # None,
                      NEW n \in DOMAIN buf[own[c]]
               PROVE  buf[own[c]][n].to = Address(RoomOf[c], id[c])
    BY DEF ReaderIsAddressee
  <2>1. ChannelFor(own[c], RoomOf[c], id[c])
    BY DEF IInv, ConnInv
  <2> QED BY <2>1 DEF IInv, BufferInv, ChannelFor
<1> QED BY <1>1, Invariance, PTL

(* The empty registry is a set of unopened mailboxes. *)
LEMMA MailboxInit == Init => Box!Init
<1> SUFFICES ASSUME Init PROVE Box!Init
  OBVIOUS
<1>1. \A h \in Conns : AddressOf(h) = NoAddress
  BY CommAssumption DEF Init, AddressOf, Created
<1> QED BY <1>1 DEF Init, Box!Init

(* One step of the registry is one step of the mailboxes, or none. *)
LEMMA MailboxNext == IInv /\ [Next]_vars => [Box!Next]_(Box!vars)
<1> SUFFICES ASSUME IInv, [Next]_vars PROVE [Box!Next]_(Box!vars)
  OBVIOUS
<1> DEFINE addrs == [h \in Conns |-> AddressOf(h)]
<1>1. ASSUME UNCHANGED <<closed, buf>>, \A h \in Conns : AddressOf(h)' = AddressOf(h)
      PROVE  UNCHANGED Box!vars
  BY <1>1 DEF Box!vars
<1>2. ASSUME UNCHANGED <<own, id>>
      PROVE  \A h \in Conns : AddressOf(h)' = AddressOf(h)
  BY <1>2 DEF AddressOf, Created, NoAddress, Address
<1>3. ASSUME NEW c \in Conns, InitLookup(c)
      PROVE  UNCHANGED Box!vars
  <2>1. own[c] = None
    BY <1>3 DEF InitLookup, IInv, ConnInv
  <2>2. UNCHANGED <<own, closed, buf>> /\ \A h \in Conns : h # c => id'[h] = id[h]
    BY <1>3 DEF InitLookup, IInv, TypeOK
  <2>3. \A h \in Conns : AddressOf(h)' = AddressOf(h)
    BY <2>1, <2>2, CommAssumption DEF AddressOf, Created, NoAddress, Address
  <2> QED BY <1>1, <2>2, <2>3
<1>4. ASSUME NEW c \in Conns, InitAttach(c)
      PROVE  [Box!Next]_(Box!vars)
  <2>1. /\ own[c] = None /\ id[c] \in Conns /\ RoomOf[c] \in Rooms
        /\ UNCHANGED <<closed, buf, id>>
    BY <1>4, CommAssumption DEF InitAttach, IInv, ConnInv, TypeOK, Ptr
  <2>2. PICK ch : own' = [own EXCEPT ![c] = ch]
    BY <1>4 DEF InitAttach
  <2>3. \A h \in Conns : h # c => AddressOf(h)' = AddressOf(h)
    BY <2>1, <2>2 DEF AddressOf, Created, NoAddress, Address, IInv, TypeOK
  <2>4. AddressOf(c) = NoAddress
    BY <2>1, CommAssumption DEF AddressOf, Created
  <2>5. CASE ch = c
    <3>1. AddressOf(c)' = Address(RoomOf[c], id[c])
      BY <2>1, <2>2, <2>5 DEF AddressOf, Created, Address, IInv, TypeOK
    <3>2. Address(RoomOf[c], id[c]) \in Addresses
      BY <2>1 DEF Addresses, Address
    <3>3. addrs' = [addrs EXCEPT ![c] = Address(RoomOf[c], id[c])]
      BY <2>3, <3>1
    <3>4. addrs[c] = NoAddress
      BY <2>4
    <3>5. Box!Open(c, Address(RoomOf[c], id[c]))
      BY <2>1, <3>3, <3>4 DEF Box!Open
    <3> QED BY <3>2, <3>5 DEF Box!Next
  <2>6. CASE ch # c
    <3>1. AddressOf(c)' = AddressOf(c)
      BY <2>1, <2>2, <2>4, <2>6 DEF AddressOf, Created, IInv, TypeOK, NoAddress, Address
    <3> QED BY <1>1, <2>1, <2>3, <3>1
  <2> QED BY <2>5, <2>6
<1>5. ASSUME NEW t \in Threads, Send(t)
      PROVE  [Box!Next]_(Box!vars)
  <2> DEFINE ch == chan[t]
             e == [src |-> t[1], to |-> Address(RoomOf[t[1]], dst[t])]
  <2>1. /\ ch \in Conns /\ dst[t] \in Conns /\ UNCHANGED <<own, id, closed>>
        /\ own[ch] = ch /\ RoomOf[ch] = RoomOf[t[1]] /\ id[ch] = dst[t]
    BY <1>5 DEF IInv, Send, EventOf, HasSpace, PointersInv, HeldInv, ChannelFor
  <2>2. e \in Event
    BY <2>1, CommAssumption, ThreadParts DEF Event, Addresses, Address
  <2>3. addrs[ch] = e.to /\ addrs' = addrs
    BY <2>1, <1>2 DEF AddressOf, Created
  <2>4. CASE ~closed[ch] /\ Len(buf[ch]) < ChanSize
    <3>1. buf' = [buf EXCEPT ![ch] = Append(@, e)]
      BY <1>5, <2>4 DEF Send, EventOf, HasSpace
    <3>2. Box!Put(ch, e)
      BY <2>1, <2>3, <2>4, <3>1 DEF Box!Put
    <3> QED BY <2>1, <2>2, <3>2 DEF Box!Next
  <2>5. CASE ~(~closed[ch] /\ Len(buf[ch]) < ChanSize)
    <3>1. buf' = buf
      BY <1>5, <2>5 DEF Send, EventOf, HasSpace
    <3> QED BY <1>1, <1>2, <2>1, <3>1
  <2> QED BY <2>4, <2>5
<1>6. ASSUME NEW c \in Conns, Receive(c)
      PROVE  [Box!Next]_(Box!vars)
  <2>1. own[c] \in Conns /\ UNCHANGED <<own, id, closed>>
    BY <1>6 DEF Receive, IInv, ConnInv, ChannelFor
  <2>2. Box!Take(own[c])
    BY <1>2, <1>6, <2>1 DEF Receive, Box!Take
  <2> QED BY <2>1, <2>2 DEF Box!Next
<1>7. ASSUME NEW c \in Conns, CloseDrop(c)
      PROVE  [Box!Next]_(Box!vars)
  <2> DEFINE ch == conns[ref[Writer(c)]][id[c]]
  <2>1. UNCHANGED <<own, id, buf>>
    BY <1>7 DEF CloseDrop, Forget, IsEmpty
  <2>2. CASE ch = None
    BY <1>1, <1>2, <1>7, <2>1, <2>2 DEF CloseDrop, Forget, IsEmpty
  <2>3. CASE ch # None
    <3>1. ref[Writer(c)] \in Conns /\ id[c] \in Conns
      <4>1. /\ commMap[RoomOf[c]] # None /\ ref[Writer(c)] = commMap[RoomOf[c]]
            /\ RoomOf[c] \in Rooms /\ id[c] # None
        BY <1>7, CommAssumption DEF CloseDrop, Forget, IsEmpty, IInv, MutexInv, ConnInv
      <4> QED BY <4>1 DEF IInv, TypeOK, RegistryInv, RoomFor, Ptr
    <3>2. ch \in Conns /\ own[ch] = ch /\ ~closed[ch]
      BY <2>3, <3>1 DEF IInv, RegistryInv, ChannelFor
    <3>3. addrs[ch] # NoAddress
      BY <3>1, <3>2, CommAssumption
         DEF AddressOf, Created, NoAddress, Address, IInv, ConnInv
    <3>4. Box!Close(ch)
      BY <1>2, <1>7, <2>1, <2>3, <3>2, <3>3 DEF CloseDrop, Forget, IsEmpty, Box!Close
    <3> QED BY <3>2, <3>4 DEF Box!Next
  <2> QED BY <2>2, <2>3
<1>8. ASSUME NEW c \in Conns, ConnStep(c)
      PROVE  [Box!Next]_(Box!vars)
  <2>1. CASE UNCHANGED <<own, id, closed, buf>>
    BY <1>1, <1>2, <2>1
  <2>2. CASE ~UNCHANGED <<own, id, closed, buf>>
    <3>1. InitLookup(c) \/ InitAttach(c) \/ Receive(c) \/ CloseDrop(c)
      BY <1>8, <2>2 DEF ConnStep, Abandon, Upgrade, StartWriter, EndRead,
         ChannelClosed, Disconnect, EndServe, Leave, CloseLookup, ClosePrune
    <3> QED BY <3>1, <1>3, <1>4, <1>6, <1>7
  <2> QED BY <2>1, <2>2
<1>9. ASSUME NEW t \in Threads, SendBegin(t) \/ MessageStep(t)
      PROVE  [Box!Next]_(Box!vars)
  <2>1. CASE UNCHANGED <<own, id, closed, buf>>
    BY <1>1, <1>2, <2>1
  <2>2. CASE ~UNCHANGED <<own, id, closed, buf>>
    <3>1. Send(t)
      BY <1>9, <2>2 DEF SendBegin, MessageStep, AskRoom, FindRoom, LookupRoom, SenderRoom,
         AskConn, FindChan
    <3> QED BY <3>1, <1>5
  <2> QED BY <2>1, <2>2
<1>10. CASE UNCHANGED vars
  BY <1>1, <1>2, <1>10 DEF vars
<1> QED BY <1>8, <1>9, <1>10 DEF Next

(* Every channel of internal/comm is a mailbox: opened once for one address,
   filled in order and only while open, closed once. *)
THEOREM ImplementsMailbox == Spec => MailboxSpec
BY InitIInv, NextIInv, MailboxInit, MailboxNext, PTL DEF Spec, MailboxSpec, Box!Spec

=============================================================================
