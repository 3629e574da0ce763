----------------------------- MODULE RateLimiter -----------------------------
(***************************************************************************)
(* internal/limiter in one server process, with the counters it exchanges  *)
(* with Redis (redis/limiter.go) and the calls internal/server makes:      *)
(* handleConnection calls RegisterNewConnection, then RegisterNewRequest   *)
(* for each frame; onConnectionClose calls DumpConnectionRequests in the   *)
(* other goroutine of the connection; a ticker and Start call OnDump.      *)
(* RATE_LIMIT is switched on and off by internal/cfg.                      *)
(*                                                                         *)
(* A call takes globalMu for reading, then the stripe of its IP address;   *)
(* OnDump takes globalMu for writing.  rateMap is read and written in      *)
(* separate steps, so what the locks are for shows.                        *)
(***************************************************************************)
EXTENDS Naturals, FiniteSets

CONSTANTS
  Conns,      \* the connections
  Ips,        \* the client addresses
  IpOf,       \* the address of a connection
  Stripes,    \* the mutexes of lockMap
  hash,       \* the stripe of an address
  Max,        \* the greatest MAX_REQUESTS_PER_WINDOW
  Ttl,        \* RATE_TTL, in ticks
  MaxTime,    \* bound on the clock
  MaxFrames,  \* bound on the frames received
  MaxPosts,   \* bound on the changes of the configuration
  MayFail,    \* may Redis commands fail
  None        \* an absent entry, a free mutex

ASSUME LimiterAssumption ==
  /\ IpOf \in [Conns -> Ips]
  /\ hash \in [Ips -> Stripes]
  /\ Max \in Nat \ {0} /\ Ttl \in Nat \ {0}
  /\ MaxTime \in Nat /\ MaxFrames \in Nat /\ MaxPosts \in Nat
  /\ MayFail \in BOOLEAN

VARIABLES
  rateMap,    \* address -> entry
  rate,       \* Redis: address -> count and time of expiry
  readers,    \* the goroutines that hold globalMu for reading
  owner,      \* stripe -> the goroutine that holds it
  dumper,     \* where OnDump is
  left,       \* the addresses OnDump has yet to visit
  life,       \* connection -> "new", "open", "unread" (its read loop has
              \* returned, its writer has not) or "over"
  call,       \* goroutine -> the limiter function it is in
  at,         \* goroutine -> where it is in that function
  local,      \* goroutine -> its local copy of an entry
  limiting,   \* RATE_LIMIT
  limit,      \* MAX_REQUESTS_PER_WINDOW
  posts,      \* changes of the configuration so far
  now,        \* the clock
  frames,     \* frames received so far
  passed,     \* history: frames accepted since the address's window began,
              \* or since it ended
  recent      \* history: of those, since its last RegisterNewConnection

locks == <<readers, owner>>
dumpVars == <<dumper, left>>
callVars == <<call, at, local>>
history == <<passed, recent>>
maps == <<rateMap, rate>>
config == <<limiting, limit, posts>>
env == <<config, now, frames>>
vars == <<maps, locks, dumpVars, life, callVars, env, history>>

Threads == Conns \X {"main", "writer"}
Main(c) == <<c, "main">>
Writer(c) == <<c, "writer">>
ip(t) == IpOf[t[1]]

(* rateMapEntry; LastRequest is never read.  A missing entry reads as      *)
(* zeroEntry, whose window started long before the clock does.             *)
Entry == [num : Nat, connected : BOOLEAN, start : Nat]
zeroEntry == [num |-> 0, connected |-> FALSE, start |-> 0]
Epoch == Ttl

(* A Redis value; go-redis sends no expiry for a duration that is not      *)
(* positive, and the key then stays.                                       *)
Never == 0
Stored == [num : Nat, exp : Nat]

ASSUME NoneAssumption == None \notin Threads /\ None \notin Entry \cup Stored

(* Type invariant. *)
TypeOK ==
  /\ rateMap \in [Ips -> Entry \cup {None}]
  /\ rate \in [Ips -> Stored \cup {None}]
  /\ readers \subseteq Threads
  /\ owner \in [Stripes -> readers \cup {None}]
  /\ dumper \in {"idle", "waiting", "dumping"}
  /\ left \subseteq Ips
  /\ life \in [Conns -> {"new", "open", "unread", "over"}]
  /\ call \in [Threads -> {"none", "register", "request", "dump", "dumped"}]
  /\ at \in [Threads -> {"rlock", "lock", "in", "judge", "out", "set"}]
  /\ local \in [Threads -> Entry]
  /\ limiting \in BOOLEAN /\ limit \in 0 .. Max /\ posts \in Nat
  /\ now \in Nat /\ frames \in Nat
  /\ passed \in [Ips -> Nat] /\ recent \in [Ips -> Nat]

Init ==
  /\ rateMap = [a \in Ips |-> None]
  /\ rate = [a \in Ips |-> None]
  /\ readers = {}
  /\ owner = [s \in Stripes |-> None]
  /\ dumper = "idle" /\ left = {}
  /\ life = [c \in Conns |-> "new"]
  /\ call = [t \in Threads |-> "none"]
  /\ at = [t \in Threads |-> "rlock"]
  /\ local = [t \in Threads |-> zeroEntry]
  /\ limiting \in BOOLEAN    \* FALSE in development
  /\ limit = Max /\ posts = 0
  /\ now = Epoch
  /\ frames = 0
  /\ passed = [a \in Ips |-> 0] /\ recent = [a \in Ips |-> 0]

-----------------------------------------------------------------------------
(* The lock of a call.                                                     *)

Begin(t, f) ==
  /\ call[t] = "none"
  /\ call' = [call EXCEPT ![t] = f]
  /\ at' = [at EXCEPT ![t] = "rlock"]
  /\ UNCHANGED <<local, maps, locks, dumpVars, life, config, now, history>>

(* globalMu.RLock: a waiting writer goes first. *)
RLock(t) ==
  /\ call[t] \in {"register", "request", "dump"} /\ at[t] = "rlock"
  /\ dumper = "idle"
  /\ readers' = readers \cup {t}
  /\ at' = [at EXCEPT ![t] = "lock"]
  /\ UNCHANGED <<maps, owner, dumpVars, life, call, local, config, now,
                 frames, history>>

LockStripe(t) ==
  /\ call[t] # "none" /\ at[t] = "lock"
  /\ owner[hash[ip(t)]] = None
  /\ owner' = [owner EXCEPT ![hash[ip(t)]] = t]
  /\ at' = [at EXCEPT ![t] = "in"]
  /\ UNCHANGED <<maps, readers, dumpVars, life, call, local, env, history>>

(* Mutant: unlock releases globalMu but not the stripe. *)
UnlockKeepsStripe(t) == UNCHANGED owner /\ readers' = readers \ {t}
Unlock(t) ==
  /\ owner' = [owner EXCEPT ![hash[ip(t)]] = None]
  /\ readers' = readers \ {t}

(* The function returns; what was local is forgotten. *)
Return(t, to) ==
  /\ call' = [call EXCEPT ![t] = to]
  /\ at' = [at EXCEPT ![t] = "rlock"]
  /\ local' = [local EXCEPT ![t] = zeroEntry]

EntryOf(a) == IF rateMap[a] = None THEN zeroEntry ELSE rateMap[a]
Expired(e) == now - e.start >= Ttl

-----------------------------------------------------------------------------
(* RegisterNewConnection.                                                  *)

Connect(c) ==
  /\ life[c] = "new" /\ limiting
  /\ Begin(Main(c), "register")
  /\ UNCHANGED frames

(* With RATE_LIMIT off nothing is registered; frames then leave no trace.  *)
ConnectUnlimited(c) ==
  /\ life[c] = "new" /\ ~limiting
  /\ life' = [life EXCEPT ![c] = "open"]
  /\ UNCHANGED <<maps, locks, dumpVars, callVars, env, history>>

(* GetCurrentRequests under the stripe.  On an error the call returns,     *)
(* without unlocking, and so does handleConnection.                        *)
RegisterGet(c) ==
  LET t == Main(c)
      a == IpOf[c]
      v == IF rate[a] = None THEN 0 ELSE rate[a].num
  IN  /\ call[t] = "register" /\ at[t] = "in"
      /\ \/ /\ local' = [local EXCEPT ![t].num = v + 1]
            /\ at' = [at EXCEPT ![t] = "out"]
            /\ UNCHANGED <<call, life>>
         \/ /\ MayFail
            /\ Return(t, "none")
            /\ life' = [life EXCEPT ![c] = "over"]
      /\ UNCHANGED <<maps, locks, dumpVars, env, history>>

(* The entry is written, then the verdict of handleConnection. *)
RegisterPut(c) ==
  LET t == Main(c)
      a == IpOf[c]
      n == local[t].num
  IN  /\ call[t] = "register" /\ at[t] = "out"
      /\ rateMap' = [rateMap EXCEPT ![a] =
           IF @ = None THEN [num |-> n, connected |-> TRUE, start |-> now]
           ELSE [@ EXCEPT !.num = n, !.connected = TRUE]]
      /\ passed' = IF rateMap[a] = None THEN [passed EXCEPT ![a] = 0] ELSE passed
      /\ recent' = [recent EXCEPT ![a] = 0]
      /\ Unlock(t)
      /\ Return(t, "none")
      /\ life' = [life EXCEPT ![c] = IF n > limit THEN "over" ELSE "open"]
      /\ UNCHANGED <<rate, dumpVars, env>>

(* handleConnection returns before the connection is served: a bad path,   *)
(* or an error of CheckUserID, JoinRoom or UpgradeHTTP.                    *)
Abandon(c) ==
  /\ life[c] = "open"
  /\ call[Main(c)] = "none" /\ call[Writer(c)] = "none"
  /\ life' = [life EXCEPT ![c] = "over"]
  /\ UNCHANGED <<maps, locks, dumpVars, callVars, env, history>>

-----------------------------------------------------------------------------
(* RegisterNewRequest.                                                     *)

Frame(c) ==
  /\ life[c] = "open" /\ limiting /\ frames < MaxFrames
  /\ Begin(Main(c), "request")
  /\ frames' = frames + 1

(* The entry is read.  A window that is over is replaced by a new one, and *)
(* the frame accepted. *)
RequestGet(c) ==
  LET t == Main(c)
      a == IpOf[c]
      e == EntryOf(a)
  IN  /\ call[t] = "request" /\ at[t] = "in"
      /\ \/ /\ Expired(e)
            /\ local' = [local EXCEPT ![t] = [e EXCEPT !.start = now, !.num = 0]]
            /\ at' = [at EXCEPT ![t] = "out"]
            /\ passed' = [passed EXCEPT ![a] = 1]
            /\ recent' = [recent EXCEPT ![a] = 1]
         \/ /\ ~Expired(e)
            /\ local' = [local EXCEPT ![t] = e]
            /\ at' = [at EXCEPT ![t] = "judge"]
            /\ UNCHANGED history
      /\ UNCHANGED <<maps, locks, dumpVars, life, call, config, now,
                     frames>>

(* Mutant: one frame over the limit. *)
BelowOrAt(e) == e.num <= limit
Below(e) == e.num < limit

(* Is it accepted?  The clock is read again: a frame that is judged after  *)
(* the end of its window is accepted whatever the count, and is not one of *)
(* that window's.                                                          *)
Ended(e) == now - e.start > Ttl

RequestJudge(c) ==
  LET t == Main(c)
      a == IpOf[c]
      e == local[t]
      Accepted(n) == IF Ended(e) THEN 1 ELSE IF Below(e) THEN n + 1 ELSE n
  IN  /\ call[t] = "request" /\ at[t] = "judge"
      /\ passed' = [passed EXCEPT ![a] = Accepted(@)]
      /\ recent' = [recent EXCEPT ![a] = Accepted(@)]
      /\ at' = [at EXCEPT ![t] = "out"]
      /\ UNCHANGED <<maps, locks, dumpVars, life, call, local, env>>

(* The deferred function counts the request, accepted or not. *)
RequestPut(c) ==
  LET t == Main(c)
      a == IpOf[c]
  IN  /\ call[t] = "request" /\ at[t] = "out"
      /\ rateMap' = [rateMap EXCEPT ![a] = [local[t] EXCEPT !.num = @ + 1]]
      /\ Unlock(t)
      /\ Return(t, "none")
      /\ UNCHANGED <<rate, dumpVars, life, env, history>>

-----------------------------------------------------------------------------
(* DumpConnectionRequests, in onConnectionClose.                           *)

CloseConnection(c) ==
  /\ life[c] \in {"open", "unread"}
  /\ Begin(Writer(c), "dump")
  /\ UNCHANGED frames

DumpOneGet(c) ==
  LET t == Writer(c)
      a == IpOf[c]
      e == EntryOf(a)
  IN  /\ call[t] = "dump" /\ at[t] = "in"
      /\ \/ /\ Expired(e)
            /\ rateMap' = [rateMap EXCEPT ![a] = None]
            /\ Unlock(t)
            /\ Return(t, "dumped")
         \/ /\ ~Expired(e)
            /\ rateMap' = [rateMap EXCEPT ![a].connected = FALSE]
            /\ local' = [local EXCEPT ![t] = [e EXCEPT !.connected = FALSE]]
            /\ at' = [at EXCEPT ![t] = "out"]
            /\ UNCHANGED <<locks, call>>
      /\ UNCHANGED <<rate, dumpVars, life, env, history>>

(* The time to live is computed from a second reading of the clock, and    *)
(* kept in local.start from here on.                                       *)
DumpOneTtl(c) ==
  LET t == Writer(c)
  IN  /\ call[t] = "dump" /\ at[t] = "out"
      /\ local' = [local EXCEPT ![t].start =
                     IF Expired(local[t]) THEN Never ELSE @ + Ttl - now]
      /\ at' = [at EXCEPT ![t] = "set"]
      /\ Unlock(t)
      /\ UNCHANGED <<maps, dumpVars, life, call, env, history>>

(* SetCurrentRequests, with no lock held; an error is ignored.  Redis      *)
(* counts the time to live from when the command arrives.                  *)
DumpOneSet(c) ==
  LET t == Writer(c)
      e == local[t]
      ttl == e.start
  IN  /\ call[t] = "dump" /\ at[t] = "set"
      /\ \/ rate' = [rate EXCEPT ![IpOf[c]] =
             [num |-> e.num, exp |-> IF ttl = Never THEN Never ELSE now + ttl]]
         \/ MayFail /\ UNCHANGED rate
      /\ Return(t, "dumped")
      /\ UNCHANGED <<rateMap, locks, dumpVars, life, env, history>>

(* The read loop returns, before or after the writer. *)
EndRead(c) ==
  /\ life[c] = "open"
  /\ call[Main(c)] = "none"
  /\ life' = [life EXCEPT ![c] =
                IF call[Writer(c)] = "none" THEN "unread" ELSE "over"]
  /\ UNCHANGED <<maps, locks, dumpVars, callVars, env, history>>

-----------------------------------------------------------------------------
(* OnDump.                                                                 *)

DumpStart ==
  /\ dumper = "idle"
  /\ dumper' = "waiting"
  /\ UNCHANGED <<maps, locks, left, life, callVars, env, history>>

(* Mutant: OnDump takes globalMu for reading, too. *)
MayLockAlways == TRUE
MayLock == readers = {}

DumpLock ==
  /\ dumper = "waiting" /\ MayLock
  /\ dumper' = "dumping"
  /\ left' = {a \in Ips : rateMap[a] # None}
  /\ UNCHANGED <<maps, locks, life, callVars, env, history>>

(* Mutant: entries without a connection go, their window over or not. *)
Unconnected(e) == ~e.connected
Forgettable(e) == Expired(e) /\ ~e.connected

(* One turn of the loop, in the random order of the map.  A window that    *)
(* is about to end may do so between the two readings of the clock, and    *)
(* the command that sets the time to live may arrive a tick later.         *)
DumpEntry(a) ==
  LET e == rateMap[a]
  IN  /\ dumper = "dumping" /\ a \in left
      /\ left' = left \ {a}
      /\ \/ /\ Forgettable(e)
            /\ rateMap' = [rateMap EXCEPT ![a] = None]
            /\ UNCHANGED <<rate, dumper>>
         \/ /\ now + 1 - e.start >= Ttl /\ (Expired(e) => e.connected)
            /\ UNCHANGED <<maps, dumper>>
         \/ /\ ~Expired(e)
            /\ \E late \in {0, 1} :
                 rate' = [rate EXCEPT ![a] =
                            [num |-> e.num, exp |-> e.start + Ttl + late]]
            /\ UNCHANGED <<rateMap, dumper>>
      /\ UNCHANGED <<locks, life, callVars, env, history>>

(* An error of Redis ends the loop. *)
DumpFails(a) ==
  /\ MayFail
  /\ dumper = "dumping" /\ a \in left /\ ~Expired(rateMap[a])
  /\ dumper' = "idle" /\ left' = {}
  /\ UNCHANGED <<maps, locks, life, callVars, env, history>>

DumpEnd ==
  /\ dumper = "dumping" /\ left = {}
  /\ dumper' = "idle"
  /\ UNCHANGED <<maps, locks, left, life, callVars, env, history>>

(* handleConfigPost stores what the request brings, at any time. *)
Configure(on, max) ==
  /\ posts < MaxPosts /\ <<on, max>> # <<limiting, limit>>
  /\ posts' = posts + 1
  /\ limiting' = on /\ limit' = max
  /\ UNCHANGED <<maps, locks, dumpVars, life, callVars, now, frames, history>>

(* The clock, and the expiry of keys in Redis. *)
Tick ==
  /\ now < MaxTime
  /\ now' = now + 1
  /\ rate' = [a \in Ips |->
                IF rate[a] # None /\ rate[a].exp # Never /\ rate[a].exp <= now + 1
                THEN None ELSE rate[a]]
  /\ UNCHANGED <<rateMap, locks, dumpVars, life, callVars, config, frames,
                 history>>

-----------------------------------------------------------------------------
BodyStep(c) ==
  \/ RegisterGet(c)
  \/ RegisterPut(c)
  \/ RequestGet(c)
  \/ RequestJudge(c)
  \/ RequestPut(c)
  \/ DumpOneGet(c)
  \/ DumpOneTtl(c)
  \/ DumpOneSet(c)

DumpStep == DumpLock \/ DumpEnd \/ \E a \in Ips : DumpEntry(a) \/ DumpFails(a)

ClientStep(c) ==
  \/ Connect(c)
  \/ ConnectUnlimited(c)
  \/ Abandon(c)
  \/ Frame(c)
  \/ CloseConnection(c)
  \/ EndRead(c)

Next ==
  \/ \E t \in Threads : RLock(t) \/ LockStripe(t)
  \/ \E c \in Conns : BodyStep(c) \/ ClientStep(c)
  \/ DumpStart \/ DumpStep
  \/ \E on \in BOOLEAN, max \in 0 .. Max : Configure(on, max)
  \/ Tick

Spec == Init /\ [][Next]_vars

(* sync.Mutex and sync.RWMutex starve no one; Redis answers or times out.  *)
Fairness ==
  /\ \A t \in Threads : SF_vars(RLock(t) \/ LockStripe(t))
  /\ \A c \in Conns : WF_vars(BodyStep(c))
  /\ WF_vars(DumpStep)

FairSpec == Spec /\ Fairness

-----------------------------------------------------------------------------
(* Properties.                                                             *)

(* A frame is accepted only below the limit: at most Max in a window since *)
(* the address last registered a connection, whichever of its connections  *)
(* they come from and whatever OnDump and DumpConnectionRequests do.       *)
LimitSinceConnect == \A a \in Ips : recent[a] <= Max

(* A window that is still running is never forgotten, and a new one never  *)
(* starts before the last is over.                                         *)
WindowsDoNotOverlap ==
  [][\A a \in Ips : rateMap[a] # None =>
       \/ rateMap'[a] # None /\ rateMap'[a].start = rateMap[a].start
       \/ Expired(rateMap[a])]_rateMap

(* While OnDump is in rateMap no call is, and two calls that are there     *)
(* have different stripes, whatever calls fail on the way (locks.go).      *)
InMap(t) == \/ call[t] = "register" /\ at[t] \in {"in", "out"}
            \/ call[t] = "request" /\ at[t] \in {"in", "judge", "out"}
            \/ call[t] = "dump" /\ at[t] = "in"
LocksExclude ==
  /\ dumper = "dumping" => \A t \in Threads : ~InMap(t)
  /\ \A s, t \in Threads :
       (s # t /\ InMap(s) /\ InMap(t)) => hash[ip(s)] # hash[ip(t)]

(* Every limiter call and every OnDump gets its locks and returns, unless  *)
(* a RegisterNewConnection returned with its locks on an error of Redis    *)
(* (limiter.go:88-92).                                                     *)
LockKept == \E c \in Conns : Main(c) \in readers /\ life[c] = "over"
CallsReturnUnlessKept ==
  /\ \A t \in Threads :
       call[t] \in {"register", "request", "dump"}
         ~> (call[t] \in {"none", "dumped"} \/ LockKept)
  /\ dumper = "waiting" ~> (dumper = "idle" \/ LockKept)

(* VIOLATED: they return in any case ("Every function in this package will *)
(* return a boolean").                                                     *)
CallsReturn ==
  /\ \A t \in Threads :
       call[t] \in {"register", "request", "dump"}
         ~> call[t] \in {"none", "dumped"}
  /\ dumper = "waiting" ~> dumper = "idle"

(* VIOLATED: at most Max frames are accepted in a window ("The user will   *)
(* be rate limited if they have exceeded the max number of requests and    *)
(* the time since their window started is less than the max").             *)
LimitPerWindow == \A a \in Ips : passed[a] <= Max

(* VIOLATED: a count in Redis has a TTL and can expire. *)
CountsExpire == \A a \in Ips : rate[a] # None => rate[a].exp # Never

(* VIOLATED: OnDump will "also clear out any disconnections": after its    *)
(* visit there is no entry with an expired window for an address without   *)
(* connections.                                                            *)
DumpClearsDisconnected ==
  [][\A a \in Ips :
       (/\ a \in left /\ a \notin left' /\ dumper' = "dumping"
        /\ Expired(rateMap[a])
        /\ \A c \in Conns : IpOf[c] = a => life[c] = "over")
       => rateMap'[a] = None]_<<dumper, left>>

(* VIOLATED: two goroutines are never in rateMap at once with one of them  *)
(* writing, which the Go runtime answers with a fatal error.               *)
Writes(t) == call[t] # "request" \/ at[t] = "out"
NoConcurrentMapWrite ==
  \A s, t \in Threads : (s # t /\ InMap(s) /\ InMap(t)) => ~Writes(s)
=============================================================================
