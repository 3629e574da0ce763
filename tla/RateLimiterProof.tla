-------------------------- MODULE RateLimiterProof ---------------------------
(***************************************************************************)
(* Theorems about RateLimiter: for any connections, addresses and stripes, *)
(* any limit and any window, the locks keep calls and dumps apart, and     *)
(* what they protect, the limit and the windows, holds.                    *)
(***************************************************************************)
EXTENDS RateLimiter, TLAPS

(* Goroutines that are between lock and unlock. *)
Locked(t) == at[t] \in {"in", "judge", "out"}

(* Who has which lock.  A call that failed may have left readers and owner *)
(* behind, so neither implies that somebody is inside.                     *)
LockInv ==
  /\ dumper = "dumping" => readers = {}
  /\ \A t \in Threads : at[t] = "lock" => t \in readers
  /\ \A t \in Threads : Locked(t) => owner[hash[ip(t)]] = t
  /\ \A s \in Stripes : owner[s] # None => hash[ip(owner[s])] = s

(* A request that has read an entry still has its window in hand: only the *)
(* end of the window takes it away.                                        *)
Judging(t) == call[t] = "request" /\ at[t] = "judge"
Counting(t) == call[t] = "request" /\ at[t] = "out"
WindowOf(t) ==
  ((Judging(t) \/ Counting(t)) /\ rateMap[ip(t)] # None) =>
    \/ local[t].start = rateMap[ip(t)].start
    \/ Expired(rateMap[ip(t)])

(* An entry counts at least the frames accepted, but for one that a request *)
(* has accepted and is about to count.                                     *)
CountOf(t) ==
  /\ Judging(t) => recent[ip(t)] <= local[t].num
  /\ Counting(t) => recent[ip(t)] <= local[t].num + 1
CountAt(a) ==
  /\ recent[a] <= Max
  /\ (rateMap[a] # None /\ \A t \in Threads : ip(t) = a => ~Counting(t))
       => recent[a] <= rateMap[a].num

MapInv ==
  /\ now >= Ttl
  /\ \A t \in Threads : WindowOf(t) /\ CountOf(t)
  /\ \A a \in Ips : CountAt(a)

(* What a dump has yet to visit is there: no call takes it away meanwhile. *)
LeftInv == \A a \in left : dumper = "dumping" /\ rateMap[a] # None

IInv == TypeOK /\ LockInv /\ MapInv /\ LeftInv

-----------------------------------------------------------------------------
(* What the proofs use of goroutines, addresses and stripes. *)
LEMMA ThreadParts ==
  /\ \A c \in Conns : /\ Main(c) \in Threads /\ ip(Main(c)) = IpOf[c]
                      /\ Writer(c) \in Threads /\ ip(Writer(c)) = IpOf[c]
  /\ \A t \in Threads : ip(t) \in Ips /\ hash[ip(t)] \in Stripes
  /\ None \notin Threads
BY LimiterAssumption, NoneAssumption DEF Threads, Main, Writer, ip

(* Of those with one stripe, one is inside, and none while OnDump is. *)
LEMMA Exclusion ==
  ASSUME TypeOK, LockInv, NEW t \in Threads, Locked(t)
  PROVE  /\ t \in readers /\ dumper # "dumping"
         /\ \A s \in Threads :
              (Locked(s) /\ hash[ip(s)] = hash[ip(t)]) => s = t
<1>1. owner[hash[ip(t)]] = t
  BY DEF LockInv
<1>2. t \in readers
  BY <1>1, ThreadParts DEF TypeOK
<1>3. \A s \in Threads : Locked(s) => owner[hash[ip(s)]] = s
  BY DEF LockInv
<1> QED
  BY <1>1, <1>2, <1>3 DEF LockInv

(* unlock, by a goroutine that has the lock. *)
LEMMA UnlockInv ==
  ASSUME IInv, NEW t \in Threads, Locked(t), Unlock(t),
         NEW to \in {"rlock", "set"}, at' = [at EXCEPT ![t] = to],
         dumper' = dumper
  PROVE  /\ readers' \subseteq Threads
         /\ owner' \in [Stripes -> readers' \cup {None}]
         /\ LockInv'
<1> DEFINE h == hash[ip(t)]
<1>1. /\ readers' = readers \ {t} /\ owner' = [owner EXCEPT ![h] = None]
      /\ h \in Stripes
  BY ThreadParts DEF Unlock
<1>2. /\ owner \in [Stripes -> readers \cup {None}] /\ readers \subseteq Threads
      /\ at \in [Threads -> {"rlock", "lock", "in", "judge", "out", "set"}]
  BY DEF IInv, TypeOK
<1>3. owner[h] = t /\ \A s \in Stripes : owner[s] = t => s = h
  BY ThreadParts DEF IInv, LockInv
<1> HIDE DEF h
<1>4. owner' \in [Stripes -> readers' \cup {None}]
  BY <1>1, <1>2, <1>3
<1>5. \A s \in Threads \ {t} : at'[s] = at[s]
  BY <1>2
<1>6. at'[t] = to
  BY <1>2
<1>7. (dumper = "dumping" => readers = {})'
  BY <1>1 DEF IInv, LockInv
<1>8. (\A s \in Threads : at[s] = "lock" => s \in readers)'
  BY <1>1, <1>5, <1>6 DEF IInv, LockInv
<1>9. \A s \in Threads : Locked(s)' => (owner[hash[ip(s)]])' = s
  <2> SUFFICES ASSUME NEW s \in Threads, Locked(s)'
               PROVE  owner'[hash[ip(s)]] = s
    OBVIOUS
  <2>1. s # t /\ Locked(s)
    BY <1>5, <1>6 DEF Locked
  <2>2. owner[hash[ip(s)]] = s
    BY <2>1 DEF IInv, LockInv
  <2>3. hash[ip(s)] # h
    BY <1>3, <2>1, <2>2
  <2> QED
    BY <1>1, <1>2, <2>2, <2>3, ThreadParts
<1>10. (\A s \in Stripes : owner[s] # None => hash[ip(owner[s])] = s)'
  BY <1>1, <1>2 DEF IInv, LockInv
<1> QED
  BY <1>1, <1>2, <1>4, <1>7, <1>8, <1>9, <1>10 DEF LockInv

(* A step inside of the lock disturbs nobody else with the same stripe. *)
LEMMA InsideMapInv ==
  ASSUME IInv, NEW t \in Threads, Locked(t),
         \A s \in Threads \ {t} :
           call'[s] = call[s] /\ at'[s] = at[s] /\ local'[s] = local[s],
         \A a \in Ips \ {ip(t)} :
           rateMap'[a] = rateMap[a] /\ recent'[a] = recent[a],
         now' = now, WindowOf(t)', CountOf(t)', CountAt(ip(t))'
  PROVE  MapInv'
<1>1. ASSUME NEW s \in Threads, s # t
      PROVE  WindowOf(s)' /\ CountOf(s)'
  <2>1. (Judging(s)' <=> Judging(s)) /\ (Counting(s)' <=> Counting(s))
    BY <1>1 DEF Judging, Counting
  <2>2. CASE Judging(s) \/ Counting(s)
    <3>1. ip(s) # ip(t)
      BY <1>1, <2>2, Exclusion DEF IInv, Judging, Counting, Locked
    <3>2. /\ rateMap'[ip(s)] = rateMap[ip(s)] /\ recent'[ip(s)] = recent[ip(s)]
          /\ local'[s] = local[s]
      BY <1>1, <3>1, ThreadParts
    <3> QED
      BY <2>1, <3>2 DEF IInv, MapInv, WindowOf, CountOf, Expired
  <2>3. CASE ~(Judging(s) \/ Counting(s))
    BY <2>1, <2>3 DEF WindowOf, CountOf
  <2> QED
    BY <2>2, <2>3
<1>2. ASSUME NEW a \in Ips, a # ip(t)
      PROVE  CountAt(a)'
  <2>1. \A s \in Threads : ip(s) = a => (Counting(s)' <=> Counting(s))
    BY <1>2 DEF Counting
  <2> QED
    BY <1>2, <2>1 DEF IInv, MapInv, CountAt
<1> QED
  BY <1>1, <1>2 DEF IInv, MapInv

(* A step that touches neither entries nor decisions. *)
LEMMA OutsideMapInv ==
  ASSUME IInv, UNCHANGED <<rateMap, recent>>, now' \in Nat, now' >= now,
         \A s \in Threads : /\ Judging(s)' => Judging(s) /\ local'[s] = local[s]
                            /\ Counting(s)' => local'[s] = local[s]
                            /\ Counting(s)' <=> Counting(s)
  PROVE  MapInv'
<1>1. ASSUME NEW s \in Threads PROVE WindowOf(s)'
  <2>1. rateMap[ip(s)] # None => rateMap[ip(s)] \in Entry
    BY ThreadParts DEF IInv, TypeOK
  <2>2. (rateMap[ip(s)] # None /\ Expired(rateMap[ip(s)]))
          => Expired(rateMap[ip(s)])'
    BY <2>1, LimiterAssumption DEF IInv, TypeOK, Entry, Expired
  <2> QED
    BY <2>2 DEF IInv, MapInv, WindowOf
<1>2. ASSUME NEW s \in Threads PROVE CountOf(s)'
  BY DEF IInv, MapInv, CountOf
<1>3. ASSUME NEW a \in Ips PROVE CountAt(a)'
  BY DEF IInv, MapInv, CountAt
<1>4. now' >= Ttl
  BY LimiterAssumption DEF IInv, MapInv, TypeOK
<1> QED
  BY <1>1, <1>2, <1>3, <1>4 DEF MapInv

-----------------------------------------------------------------------------
(* The locks of a call.                                                    *)

LEMMA BeginInv ==
  ASSUME IInv, NEW t \in Threads, NEW f \in {"register", "request", "dump"},
         Begin(t, f), frames' \in Nat
  PROVE  IInv'
<1>1. /\ call' = [call EXCEPT ![t] = f] /\ at' = [at EXCEPT ![t] = "rlock"]
      /\ UNCHANGED <<local, maps, locks, dumpVars, life, config, now, history>>
  BY DEF Begin
<1>2. TypeOK'
  BY <1>1 DEF IInv, TypeOK, maps, locks, dumpVars, config, history
<1>3. at'[t] = "rlock" /\ \A s \in Threads \ {t} : at'[s] = at[s] /\ call'[s] = call[s]
  BY <1>1 DEF IInv, TypeOK
<1>4. call[t] = "none"
  BY DEF Begin
<1>5. LockInv'
  BY <1>1, <1>3 DEF IInv, LockInv, Locked, locks, dumpVars
<1>6. MapInv'
  <2>1. ASSUME NEW s \in Threads
        PROVE  /\ Judging(s)' => Judging(s)
               /\ Counting(s)' <=> Counting(s)
    BY <1>3, <1>4 DEF Judging, Counting
  <2>2. now' \in Nat /\ now' >= now /\ UNCHANGED <<rateMap, recent, local>>
    BY <1>1 DEF IInv, TypeOK, maps, history
  <2> QED
    BY <2>1, <2>2, OutsideMapInv
<1>7. LeftInv'
  BY <1>1 DEF IInv, LeftInv, maps, dumpVars
<1> QED
  BY <1>2, <1>5, <1>6, <1>7 DEF IInv

LEMMA RLockInv ==
  ASSUME IInv, NEW t \in Threads, RLock(t)
  PROVE  IInv'
<1>1. /\ dumper = "idle" /\ readers' = readers \cup {t}
      /\ at' = [at EXCEPT ![t] = "lock"] /\ at[t] = "rlock"
      /\ UNCHANGED <<maps, owner, dumpVars, life, call, local, config, now,
                      frames, history>>
  BY DEF RLock
<1>2. TypeOK'
  <2>1. owner \in [Stripes -> readers' \cup {None}]
    BY <1>1 DEF IInv, TypeOK
  <2> QED
    BY <1>1, <2>1 DEF IInv, TypeOK, maps, dumpVars, config, history
<1>3. at'[t] = "lock" /\ \A s \in Threads \ {t} : at'[s] = at[s]
  BY <1>1 DEF IInv, TypeOK
<1>5. LockInv'
  BY <1>1, <1>3 DEF IInv, LockInv, Locked, dumpVars
<1>6. MapInv'
  <2>1. ASSUME NEW s \in Threads
        PROVE  /\ Judging(s)' => Judging(s)
               /\ Counting(s)' <=> Counting(s)
    BY <1>1, <1>3 DEF Judging, Counting
  <2>2. now' \in Nat /\ now' >= now /\ UNCHANGED <<rateMap, recent, local>>
    BY <1>1 DEF IInv, TypeOK, maps, history
  <2> QED
    BY <2>1, <2>2, OutsideMapInv
<1>7. LeftInv'
  BY <1>1 DEF IInv, LeftInv, maps, dumpVars
<1> QED
  BY <1>2, <1>5, <1>6, <1>7 DEF IInv

LEMMA LockStripeInv ==
  ASSUME IInv, NEW t \in Threads, LockStripe(t)
  PROVE  IInv'
<1> DEFINE h == hash[ip(t)]
<1>1. /\ at[t] = "lock" /\ owner[h] = None
      /\ owner' = [owner EXCEPT ![h] = t] /\ at' = [at EXCEPT ![t] = "in"]
      /\ UNCHANGED <<maps, readers, dumpVars, life, call, local, env, history>>
  BY DEF LockStripe
<1>2. t \in readers /\ h \in Stripes
  BY <1>1, ThreadParts DEF IInv, LockInv
<1>3. at'[t] = "in" /\ \A s \in Threads \ {t} : at'[s] = at[s]
  BY <1>1 DEF IInv, TypeOK
<1>4. owner'[h] = t /\ \A s \in Stripes \ {h} : owner'[s] = owner[s]
  BY <1>1, <1>2 DEF IInv, TypeOK
<1>5. TypeOK'
  <2>1. owner' \in [Stripes -> readers' \cup {None}]
    BY <1>1, <1>2 DEF IInv, TypeOK
  <2> QED
    BY <1>1, <2>1 DEF IInv, TypeOK, maps, dumpVars, env, config, history
<1>6. LockInv'
  <2>1. ASSUME NEW s \in Threads, Locked(s)'
        PROVE  owner'[hash[ip(s)]] = s
    <3>1. CASE s = t
      BY <1>4, <3>1
    <3>2. CASE s # t
      <4>1. owner[hash[ip(s)]] = s
        BY <1>3, <2>1, <3>2 DEF IInv, LockInv, Locked
      <4> QED
        BY <1>1, <1>4, <4>1, ThreadParts
    <3> QED
      BY <3>1, <3>2
  <2>2. ASSUME NEW s \in Stripes, owner'[s] # None
        PROVE  hash[ip(owner'[s])] = s
    BY <1>4, <2>2 DEF IInv, LockInv
  <2>3. (dumper = "dumping" => readers = {})'
    BY <1>1 DEF IInv, LockInv, dumpVars
  <2>4. (\A s \in Threads : at[s] = "lock" => s \in readers)'
    BY <1>1, <1>3 DEF IInv, LockInv
  <2> QED
    BY <2>1, <2>2, <2>3, <2>4 DEF LockInv
<1>7. MapInv'
  <2>1. ASSUME NEW s \in Threads
        PROVE  /\ Judging(s)' => Judging(s)
               /\ Counting(s)' <=> Counting(s)
    BY <1>1, <1>3 DEF Judging, Counting
  <2>2. now' \in Nat /\ now' >= now /\ UNCHANGED <<rateMap, recent, local>>
    BY <1>1 DEF IInv, TypeOK, maps, history, env
  <2> QED
    BY <2>1, <2>2, OutsideMapInv
<1>8. LeftInv'
  BY <1>1 DEF IInv, LeftInv, maps, dumpVars
<1> QED
  BY <1>5, <1>6, <1>7, <1>8 DEF IInv

-----------------------------------------------------------------------------
(* The steps inside of the lock. *)

(* One that keeps the lock, be it because the call fails. *)
LEMMA KeepLockInv ==
  ASSUME IInv, NEW t \in Threads, Locked(t), UNCHANGED locks, dumper' = dumper,
         NEW to \in {"rlock", "judge", "out"}, at' = [at EXCEPT ![t] = to]
  PROVE  LockInv'
<1>1. at'[t] = to /\ \A s \in Threads \ {t} : at'[s] = at[s]
  BY DEF IInv, TypeOK
<1> QED
  BY <1>1 DEF IInv, LockInv, Locked, locks

(* No dump is under way. *)
LEMMA NothingLeft ==
  ASSUME IInv, NEW t \in Threads, Locked(t)
  PROVE  left = {} /\ (left' = left => LeftInv')
BY Exclusion DEF IInv, LeftInv

LEMMA EntryOfType ==
  ASSUME TypeOK, NEW a \in Ips
  PROVE  /\ EntryOf(a) \in Entry /\ zeroEntry \in Entry
         /\ now >= Ttl => Expired(zeroEntry)
         /\ (now >= Ttl /\ ~Expired(EntryOf(a)))
              => rateMap[a] # None /\ EntryOf(a) = rateMap[a]
<1>1. zeroEntry \in Entry
  BY DEF zeroEntry, Entry
<1>2. now >= Ttl => Expired(zeroEntry)
  BY LimiterAssumption DEF TypeOK, zeroEntry, Expired
<1> QED
  BY <1>1, <1>2 DEF TypeOK, EntryOf

LEMMA RegisterGetInv ==
  ASSUME IInv, NEW c \in Conns, RegisterGet(c)
  PROVE  IInv'
<1> DEFINE t == Main(c)
<1> DEFINE v == IF rate[IpOf[c]] = None THEN 0 ELSE rate[IpOf[c]].num
<1>1. t \in Threads /\ IpOf[c] \in Ips
  BY ThreadParts
<1>2. /\ call[t] = "register" /\ at[t] = "in" /\ Locked(t)
      /\ UNCHANGED <<maps, locks, dumpVars, env, history>>
  BY DEF RegisterGet, Locked
<1>3. v \in Nat
  BY <1>1 DEF IInv, TypeOK, Stored
<1>4. local[t] \in Entry /\ zeroEntry \in Entry
  BY <1>1 DEF IInv, TypeOK, zeroEntry, Entry
<1>5. \/ /\ local' = [local EXCEPT ![t].num = v + 1]
         /\ at' = [at EXCEPT ![t] = "out"]
         /\ UNCHANGED <<call, life>>
      \/ /\ call' = [call EXCEPT ![t] = "none"]
         /\ at' = [at EXCEPT ![t] = "rlock"]
         /\ local' = [local EXCEPT ![t] = zeroEntry]
         /\ life' = [life EXCEPT ![c] = "over"]
  BY DEF RegisterGet, Return
<1>6. /\ at' \in [Threads -> {"rlock", "lock", "in", "judge", "out", "set"}]
      /\ call' \in [Threads -> {"none", "register", "request", "dump", "dumped"}]
      /\ life' \in [Conns -> {"new", "open", "unread", "over"}]
  BY <1>5 DEF IInv, TypeOK
<1>7. local' \in [Threads -> Entry]
  <2>1. [local[t] EXCEPT !.num = v + 1] \in Entry
    BY <1>3, <1>4 DEF Entry
  <2>2. \/ local' = [local EXCEPT ![t] = [local[t] EXCEPT !.num = v + 1]]
        \/ local' = [local EXCEPT ![t] = zeroEntry]
    BY <1>5
  <2> QED
    BY <1>4, <2>1, <2>2 DEF IInv, TypeOK
<1>8. TypeOK'
  BY <1>2, <1>6, <1>7 DEF IInv, TypeOK, maps, locks, dumpVars, env, config, history
<1>9. LockInv'
  BY <1>1, <1>2, <1>5, KeepLockInv DEF dumpVars
<1>10. MapInv'
  <2>1. \A s \in Threads \ {t} :
          call'[s] = call[s] /\ at'[s] = at[s] /\ local'[s] = local[s]
    BY <1>5 DEF IInv, TypeOK
  <2>2. call'[t] # "request"
    BY <1>1, <1>2, <1>5 DEF IInv, TypeOK
  <2>3. \A s \in Threads : /\ Judging(s)' => Judging(s) /\ local'[s] = local[s]
                           /\ Counting(s)' => local'[s] = local[s]
                           /\ Counting(s)' <=> Counting(s)
    BY <1>2, <2>1, <2>2 DEF Judging, Counting
  <2>4. now' \in Nat /\ now' >= now /\ UNCHANGED <<rateMap, recent>>
    BY <1>2 DEF IInv, TypeOK, maps, history, env
  <2> QED
    BY <2>3, <2>4, OutsideMapInv
<1>11. LeftInv'
  BY <1>1, <1>2, NothingLeft DEF dumpVars
<1> QED
  BY <1>8, <1>9, <1>10, <1>11 DEF IInv

LEMMA RegisterPutInv ==
  ASSUME IInv, NEW c \in Conns, RegisterPut(c)
  PROVE  IInv'
<1> DEFINE t == Main(c)
           a == IpOf[c]
           n == local[t].num
           e == IF rateMap[a] = None THEN [num |-> n, connected |-> TRUE, start |-> now]
                ELSE [rateMap[a] EXCEPT !.num = n, !.connected = TRUE]
<1>1. t \in Threads /\ a \in Ips /\ ip(t) = a
  BY ThreadParts
<1>2. /\ call[t] = "register" /\ at[t] = "out" /\ Locked(t)
      /\ UNCHANGED <<rate, dumpVars, env>>
  BY DEF RegisterPut, Locked
<1>3. /\ call' = [call EXCEPT ![t] = "none"] /\ at' = [at EXCEPT ![t] = "rlock"]
      /\ local' = [local EXCEPT ![t] = zeroEntry] /\ Unlock(t)
  BY DEF RegisterPut, Return
<1>4. /\ rateMap' = [rateMap EXCEPT ![a] = e]
      /\ recent' = [recent EXCEPT ![a] = 0]
      /\ passed' \in [Ips -> Nat]
      /\ life' \in [Conns -> {"new", "open", "unread", "over"}]
  BY <1>1 DEF RegisterPut, IInv, TypeOK
<1>5. /\ readers' \subseteq Threads /\ owner' \in [Stripes -> readers' \cup {None}]
      /\ LockInv'
  BY <1>1, <1>2, <1>3, UnlockInv DEF dumpVars
<1>6. e \in Entry /\ zeroEntry \in Entry
  <2>1. n \in Nat /\ now \in Nat
    BY <1>1 DEF IInv, TypeOK, Entry
  <2>2. CASE rateMap[a] = None
    BY <2>1, <2>2 DEF Entry, zeroEntry
  <2>3. CASE rateMap[a] # None
    <3>1. rateMap[a] \in Entry
      BY <1>1, <2>3 DEF IInv, TypeOK
    <3> QED
      BY <2>1, <2>3, <3>1 DEF Entry, zeroEntry
  <2> QED
    BY <2>2, <2>3
<1> HIDE DEF e
<1>7. TypeOK'
  <2>1. rateMap' \in [Ips -> Entry \cup {None}] /\ recent' \in [Ips -> Nat]
    BY <1>4, <1>6 DEF IInv, TypeOK
  <2>2. /\ at' \in [Threads -> {"rlock", "lock", "in", "judge", "out", "set"}]
        /\ call' \in [Threads -> {"none", "register", "request", "dump", "dumped"}]
        /\ local' \in [Threads -> Entry]
    BY <1>3, <1>6 DEF IInv, TypeOK
  <2> QED
    BY <1>2, <1>4, <1>5, <2>1, <2>2 DEF IInv, TypeOK, dumpVars, env, config
<1>8. MapInv'
  <2>1. \A s \in Threads \ {t} :
          call'[s] = call[s] /\ at'[s] = at[s] /\ local'[s] = local[s]
    BY <1>3 DEF IInv, TypeOK
  <2>2. \A b \in Ips \ {a} : rateMap'[b] = rateMap[b] /\ recent'[b] = recent[b]
    BY <1>4 DEF IInv, TypeOK
  <2>3. call'[t] = "none"
    BY <1>1, <1>3 DEF IInv, TypeOK
  <2>4. WindowOf(t)' /\ CountOf(t)'
    BY <2>3 DEF WindowOf, CountOf, Judging, Counting
  <2>5. rateMap'[a] = e /\ recent'[a] = 0
    BY <1>1, <1>4 DEF IInv, TypeOK
  <2>6. CountAt(ip(t))'
    BY <1>1, <1>6, <2>5, LimiterAssumption DEF CountAt, Entry
  <2>7. now' = now
    BY <1>2 DEF env
  <2> QED
    BY <1>1, <1>2, <2>1, <2>2, <2>4, <2>6, <2>7, InsideMapInv
<1>9. LeftInv'
  BY <1>1, <1>2, NothingLeft DEF dumpVars
<1> QED
  BY <1>5, <1>7, <1>8, <1>9 DEF IInv

(* Before a call decides, its address's entry is exact enough. *)
LEMMA NobodyCounting ==
  ASSUME IInv, NEW t \in Threads, Locked(t), ~Counting(t)
  PROVE  /\ \A s \in Threads : ip(s) = ip(t) => ~Counting(s)
         /\ recent[ip(t)] <= Max
         /\ rateMap[ip(t)] # None => recent[ip(t)] <= rateMap[ip(t)].num
<1>1. ASSUME NEW s \in Threads, ip(s) = ip(t)
      PROVE  ~Counting(s)
  BY <1>1, Exclusion DEF IInv, Counting, Locked
<1>2. CountAt(ip(t))
  BY ThreadParts DEF IInv, MapInv
<1> QED
  BY <1>1, <1>2 DEF CountAt

LEMMA RequestGetInv ==
  ASSUME IInv, NEW c \in Conns, RequestGet(c)
  PROVE  IInv'
<1> DEFINE t == Main(c)
           a == IpOf[c]
           e == EntryOf(a)
           new == [e EXCEPT !.start = now, !.num = 0]
<1>1. t \in Threads /\ a \in Ips /\ ip(t) = a
  BY ThreadParts
<1>2. /\ call[t] = "request" /\ at[t] = "in" /\ Locked(t) /\ ~Counting(t)
      /\ UNCHANGED <<maps, locks, dumpVars, life, call, config, now, frames>>
  BY DEF RequestGet, Locked, Counting
<1>3. e \in Entry /\ now \in Nat
  BY <1>1, EntryOfType DEF IInv, TypeOK
<1>4. /\ at' = [at EXCEPT ![t] = IF Expired(e) THEN "out" ELSE "judge"]
      /\ local' = [local EXCEPT ![t] = IF Expired(e) THEN new ELSE e]
      /\ recent' = IF Expired(e) THEN [recent EXCEPT ![a] = 1] ELSE recent
      /\ passed' = IF Expired(e) THEN [passed EXCEPT ![a] = 1] ELSE passed
  BY DEF RequestGet, history
<1>5. new \in Entry /\ new.num = 0
  BY <1>3 DEF Entry
<1>6. ~Expired(e) => rateMap[a] # None /\ e = rateMap[a]
  BY <1>1, EntryOfType DEF IInv, MapInv
<1>7. rateMap[a] # None => rateMap[a] = e
  BY DEF EntryOf
<1> HIDE DEF new, e
<1>8. TypeOK'
  <2>1. /\ at' \in [Threads -> {"rlock", "lock", "in", "judge", "out", "set"}]
        /\ local' \in [Threads -> Entry]
        /\ recent' \in [Ips -> Nat] /\ passed' \in [Ips -> Nat]
    BY <1>3, <1>4, <1>5 DEF IInv, TypeOK
  <2> QED
    BY <1>2, <2>1 DEF IInv, TypeOK, maps, locks, dumpVars, config
<1>9. LockInv'
  BY <1>1, <1>2, <1>4, KeepLockInv DEF dumpVars
<1>10. MapInv'
  <2>1. \A s \in Threads \ {t} :
          call'[s] = call[s] /\ at'[s] = at[s] /\ local'[s] = local[s]
    BY <1>2, <1>4 DEF IInv, TypeOK
  <2>2. \A b \in Ips \ {a} : rateMap'[b] = rateMap[b] /\ recent'[b] = recent[b]
    BY <1>2, <1>4 DEF IInv, TypeOK, maps
  <2>3. /\ call'[t] = "request" /\ now' = now /\ rateMap' = rateMap
        /\ at'[t] = IF Expired(e) THEN "out" ELSE "judge"
        /\ local'[t] = IF Expired(e) THEN new ELSE e
        /\ recent'[a] = IF Expired(e) THEN 1 ELSE recent[a]
    BY <1>1, <1>2, <1>4 DEF IInv, TypeOK, maps
  <2>4. WindowOf(t)'
    BY <1>1, <1>6, <1>7, <2>3 DEF WindowOf, Expired
  <2>5. recent[a] <= Max /\ (rateMap[a] # None => recent[a] <= rateMap[a].num)
    BY <1>1, <1>2, NobodyCounting
  <2>6. CountOf(t)'
    BY <1>1, <1>5, <1>6, <2>3, <2>5 DEF CountOf, Judging, Counting
  <2>7. CountAt(a)'
    <3>1. recent'[a] <= Max
      BY <2>3, <2>5, LimiterAssumption
    <3>2. Expired(e) => Counting(t)'
      BY <2>3 DEF Counting
    <3>3. ~Expired(e) /\ rateMap'[a] # None => recent'[a] <= rateMap'[a].num
      BY <2>3, <2>5
    <3> QED
      BY <1>1, <3>1, <3>2, <3>3 DEF CountAt
  <2> QED
    BY <1>1, <1>2, <2>1, <2>2, <2>3, <2>4, <2>6, <2>7, InsideMapInv
<1>11. LeftInv'
  BY <1>1, <1>2, NothingLeft DEF dumpVars
<1> QED
  BY <1>8, <1>9, <1>10, <1>11 DEF IInv

LEMMA RequestJudgeInv ==
  ASSUME IInv, NEW c \in Conns, RequestJudge(c)
  PROVE  IInv'
<1> DEFINE t == Main(c)
           a == IpOf[c]
           Accepted(n) == IF Ended(local[t]) THEN 1
                          ELSE IF Below(local[t]) THEN n + 1 ELSE n
           new == Accepted(recent[a])
<1>1. t \in Threads /\ a \in Ips /\ ip(t) = a
  BY ThreadParts
<1>2. /\ call[t] = "request" /\ at[t] = "judge"
      /\ Locked(t) /\ ~Counting(t) /\ Judging(t)
      /\ passed' = [passed EXCEPT ![a] = Accepted(@)]
      /\ recent' = [recent EXCEPT ![a] = new]
      /\ at' = [at EXCEPT ![t] = "out"]
      /\ UNCHANGED <<maps, locks, dumpVars, life, call, local, env>>
  BY DEF RequestJudge, Locked, Counting, Judging
<1>3. local[t] \in Entry /\ recent[a] \in Nat /\ limit \in 0 .. Max
  BY <1>1 DEF IInv, TypeOK
<1>4. /\ new \in {1, recent[a], recent[a] + 1}
      /\ new = recent[a] + 1 => new = 1 \/ local[t].num < limit
  BY <1>3 DEF Below
<1>5. Accepted(passed[a]) \in Nat /\ new \in Nat
  <2>1. passed[a] \in Nat
    BY <1>1 DEF IInv, TypeOK
  <2>2. \A n \in Nat : Accepted(n) \in {1, n, n + 1}
    OBVIOUS
  <2> HIDE DEF Accepted
  <2>3. Accepted(passed[a]) \in {1, passed[a], passed[a] + 1}
    BY <2>1, <2>2
  <2> QED
    BY <1>3, <1>4, <2>1, <2>3
<1> HIDE DEF Accepted, new
<1>6. TypeOK'
  <2>1. /\ at' \in [Threads -> {"rlock", "lock", "in", "judge", "out", "set"}]
        /\ recent' \in [Ips -> Nat] /\ passed' \in [Ips -> Nat]
    BY <1>1, <1>2, <1>5 DEF IInv, TypeOK
  <2> QED
    BY <1>2, <2>1 DEF IInv, TypeOK, maps, locks, dumpVars, env, config
<1>7. LockInv'
  BY <1>1, <1>2, KeepLockInv DEF dumpVars
<1>8. MapInv'
  <2>1. \A s \in Threads \ {t} :
          call'[s] = call[s] /\ at'[s] = at[s] /\ local'[s] = local[s]
    BY <1>2 DEF IInv, TypeOK
  <2>2. \A b \in Ips \ {a} : rateMap'[b] = rateMap[b] /\ recent'[b] = recent[b]
    BY <1>2 DEF IInv, TypeOK, maps
  <2>3. /\ call'[t] = "request" /\ at'[t] = "out" /\ local'[t] = local[t]
        /\ now' = now /\ rateMap' = rateMap /\ recent'[a] = new
    BY <1>1, <1>2 DEF IInv, TypeOK, maps, env
  <2>4. WindowOf(t)'
    BY <1>1, <1>2, <2>3 DEF IInv, MapInv, WindowOf, Expired
  <2>5. recent[a] <= Max /\ recent[a] <= local[t].num
    BY <1>1, <1>2, NobodyCounting DEF IInv, MapInv, CountOf
  <2>6. CountOf(t)'
    BY <1>1, <1>3, <1>4, <2>3, <2>5 DEF CountOf, Judging, Counting, Entry
  <2>7. CountAt(a)'
    <3>1. recent'[a] <= Max
      BY <1>3, <1>4, <2>3, <2>5, LimiterAssumption DEF Entry
    <3>2. Counting(t)'
      BY <2>3 DEF Counting
    <3> QED
      BY <1>1, <3>1, <3>2 DEF CountAt
  <2> QED
    BY <1>1, <1>2, <2>1, <2>2, <2>3, <2>4, <2>6, <2>7, InsideMapInv
<1>9. LeftInv'
  BY <1>1, <1>2, NothingLeft DEF dumpVars
<1> QED
  BY <1>6, <1>7, <1>8, <1>9 DEF IInv

LEMMA RequestPutInv ==
  ASSUME IInv, NEW c \in Conns, RequestPut(c)
  PROVE  IInv'
<1> DEFINE t == Main(c)
           a == IpOf[c]
           e == [local[t] EXCEPT !.num = local[t].num + 1]
<1>1. t \in Threads /\ a \in Ips /\ ip(t) = a
  BY ThreadParts
<1>2. /\ call[t] = "request" /\ at[t] = "out" /\ Locked(t) /\ Counting(t)
      /\ UNCHANGED <<rate, dumpVars, life, env, history>>
  BY DEF RequestPut, Locked, Counting
<1>3. /\ call' = [call EXCEPT ![t] = "none"] /\ at' = [at EXCEPT ![t] = "rlock"]
      /\ local' = [local EXCEPT ![t] = zeroEntry] /\ Unlock(t)
      /\ rateMap' = [rateMap EXCEPT ![a] = e]
  BY DEF RequestPut, Return
<1>4. e \in Entry /\ e.num = local[t].num + 1 /\ zeroEntry \in Entry
  BY <1>1 DEF IInv, TypeOK, Entry, zeroEntry
<1>5. /\ readers' \subseteq Threads /\ owner' \in [Stripes -> readers' \cup {None}]
      /\ LockInv'
  BY <1>1, <1>2, <1>3, UnlockInv DEF dumpVars
<1> HIDE DEF e
<1>6. TypeOK'
  <2>1. /\ at' \in [Threads -> {"rlock", "lock", "in", "judge", "out", "set"}]
        /\ call' \in [Threads -> {"none", "register", "request", "dump", "dumped"}]
        /\ local' \in [Threads -> Entry] /\ rateMap' \in [Ips -> Entry \cup {None}]
    BY <1>3, <1>4 DEF IInv, TypeOK
  <2> QED
    BY <1>2, <1>5, <2>1 DEF IInv, TypeOK, dumpVars, env, config, history
<1>7. MapInv'
  <2>1. \A s \in Threads \ {t} :
          call'[s] = call[s] /\ at'[s] = at[s] /\ local'[s] = local[s]
    BY <1>3 DEF IInv, TypeOK
  <2>2. \A b \in Ips \ {a} : rateMap'[b] = rateMap[b] /\ recent'[b] = recent[b]
    BY <1>2, <1>3 DEF IInv, TypeOK, history
  <2>3. /\ call'[t] = "none" /\ rateMap'[a] = e /\ recent'[a] = recent[a]
        /\ now' = now
    BY <1>1, <1>2, <1>3 DEF IInv, TypeOK, env, history
  <2>4. WindowOf(t)' /\ CountOf(t)'
    BY <2>3 DEF WindowOf, CountOf, Judging, Counting
  <2>5. recent[a] <= Max /\ recent[a] <= local[t].num + 1
    BY <1>1, <1>2 DEF IInv, MapInv, CountOf, CountAt
  <2>6. CountAt(a)'
    BY <1>4, <2>3, <2>5 DEF CountAt
  <2> QED
    BY <1>1, <1>2, <2>1, <2>2, <2>3, <2>4, <2>6, InsideMapInv
<1>8. LeftInv'
  BY <1>1, <1>2, NothingLeft DEF dumpVars
<1> QED
  BY <1>5, <1>6, <1>7, <1>8 DEF IInv

LEMMA DumpOneGetInv ==
  ASSUME IInv, NEW c \in Conns, DumpOneGet(c)
  PROVE  IInv'
<1> DEFINE t == Writer(c)
           a == IpOf[c]
           e == EntryOf(a)
           off == [e EXCEPT !.connected = FALSE]
<1>1. t \in Threads /\ a \in Ips /\ ip(t) = a
  BY ThreadParts
<1>2. /\ call[t] = "dump" /\ at[t] = "in" /\ Locked(t) /\ ~Counting(t)
      /\ UNCHANGED <<rate, dumpVars, life, env, history>>
  BY DEF DumpOneGet, Locked, Counting
<1>3. e \in Entry /\ zeroEntry \in Entry
  BY <1>1, EntryOfType DEF IInv
<1>4. ~Expired(e) => rateMap[a] # None /\ e = rateMap[a]
  BY <1>1, EntryOfType DEF IInv, MapInv
<1>5. off \in Entry /\ off.num = e.num
  BY <1>3 DEF Entry
<1>6. /\ rateMap' = [rateMap EXCEPT ![a] = IF Expired(e) THEN None ELSE off]
      /\ at' = [at EXCEPT ![t] = IF Expired(e) THEN "rlock" ELSE "out"]
      /\ call' = IF Expired(e) THEN [call EXCEPT ![t] = "dumped"] ELSE call
      /\ local' = [local EXCEPT ![t] = IF Expired(e) THEN zeroEntry ELSE off]
      /\ Expired(e) => Unlock(t)
      /\ ~Expired(e) => UNCHANGED locks
  BY <1>4 DEF DumpOneGet, Return
<1> HIDE DEF e, off
<1>7. /\ readers' \subseteq Threads /\ owner' \in [Stripes -> readers' \cup {None}]
      /\ LockInv'
  <2>1. CASE Expired(e)
    <3>1. at' = [at EXCEPT ![t] = "rlock"] /\ Unlock(t) /\ dumper' = dumper
      BY <1>2, <1>6, <2>1 DEF dumpVars
    <3> QED
      BY <1>1, <1>2, <3>1, UnlockInv
  <2>2. CASE ~Expired(e)
    <3>1. at' = [at EXCEPT ![t] = "out"] /\ UNCHANGED locks /\ dumper' = dumper
      BY <1>2, <1>6, <2>2 DEF dumpVars
    <3> QED
      BY <1>1, <1>2, <3>1, KeepLockInv DEF locks, IInv, TypeOK
  <2> QED
    BY <2>1, <2>2
<1>8. TypeOK'
  <2>1. /\ at' \in [Threads -> {"rlock", "lock", "in", "judge", "out", "set"}]
        /\ call' \in [Threads -> {"none", "register", "request", "dump", "dumped"}]
        /\ local' \in [Threads -> Entry] /\ rateMap' \in [Ips -> Entry \cup {None}]
    BY <1>3, <1>5, <1>6 DEF IInv, TypeOK
  <2> QED
    BY <1>2, <1>7, <2>1 DEF IInv, TypeOK, dumpVars, env, config, history
<1>9. MapInv'
  <2>1. \A s \in Threads \ {t} :
          call'[s] = call[s] /\ at'[s] = at[s] /\ local'[s] = local[s]
    BY <1>6 DEF IInv, TypeOK
  <2>2. \A b \in Ips \ {a} : rateMap'[b] = rateMap[b] /\ recent'[b] = recent[b]
    BY <1>2, <1>6 DEF IInv, TypeOK, history
  <2>3. /\ call'[t] # "request" /\ recent'[a] = recent[a] /\ now' = now
        /\ rateMap'[a] = IF Expired(e) THEN None ELSE off
    BY <1>1, <1>2, <1>6 DEF IInv, TypeOK, env, history
  <2>4. WindowOf(t)' /\ CountOf(t)'
    BY <2>3 DEF WindowOf, CountOf, Judging, Counting
  <2>5. recent[a] <= Max /\ (rateMap[a] # None => recent[a] <= rateMap[a].num)
    BY <1>1, <1>2, NobodyCounting
  <2>6. CountAt(a)'
    BY <1>4, <1>5, <2>3, <2>5 DEF CountAt
  <2> QED
    BY <1>1, <1>2, <2>1, <2>2, <2>3, <2>4, <2>6, InsideMapInv
<1>10. LeftInv'
  BY <1>1, <1>2, NothingLeft DEF dumpVars
<1> QED
  BY <1>7, <1>8, <1>9, <1>10 DEF IInv

LEMMA DumpOneTtlInv ==
  ASSUME IInv, NEW c \in Conns, DumpOneTtl(c)
  PROVE  IInv'
<1> DEFINE t == Writer(c)
           ttl == IF Expired(local[t]) THEN Never ELSE local[t].start + Ttl - now
<1>1. t \in Threads
  BY ThreadParts
<1>2. /\ call[t] = "dump" /\ at[t] = "out" /\ Locked(t) /\ Unlock(t)
      /\ local' = [local EXCEPT ![t] = [local[t] EXCEPT !.start = ttl]]
      /\ at' = [at EXCEPT ![t] = "set"]
      /\ UNCHANGED <<maps, dumpVars, life, call, env, history>>
  BY DEF DumpOneTtl, Locked
<1>3. local[t] \in Entry
  BY <1>1 DEF IInv, TypeOK
<1>4. [local[t] EXCEPT !.start = ttl] \in Entry
  <2>1. local[t].start \in Nat /\ now \in Nat /\ Ttl \in Nat
    BY <1>3, LimiterAssumption DEF IInv, TypeOK, Entry
  <2>2. ttl \in Nat
    BY <2>1 DEF Expired, Never
  <2> QED
    BY <1>3, <2>2 DEF Entry
<1> HIDE DEF ttl
<1>5. /\ readers' \subseteq Threads /\ owner' \in [Stripes -> readers' \cup {None}]
      /\ LockInv'
  BY <1>1, <1>2, UnlockInv DEF dumpVars
<1>6. TypeOK'
  <2>1. /\ at' \in [Threads -> {"rlock", "lock", "in", "judge", "out", "set"}]
        /\ local' \in [Threads -> Entry]
    BY <1>2, <1>4 DEF IInv, TypeOK
  <2> QED
    BY <1>2, <1>5, <2>1 DEF IInv, TypeOK, maps, dumpVars, env, config, history
<1>7. MapInv'
  <2>1. /\ \A s \in Threads \ {t} : at'[s] = at[s] /\ local'[s] = local[s]
        /\ call' = call
    BY <1>2 DEF IInv, TypeOK
  <2>2. \A s \in Threads : /\ Judging(s)' => Judging(s) /\ local'[s] = local[s]
                           /\ Counting(s)' => local'[s] = local[s]
                           /\ Counting(s)' <=> Counting(s)
    BY <1>2, <2>1 DEF Judging, Counting
  <2>3. now' \in Nat /\ now' >= now /\ UNCHANGED <<rateMap, recent>>
    BY <1>2 DEF IInv, TypeOK, maps, history, env
  <2> QED
    BY <2>2, <2>3, OutsideMapInv
<1>8. LeftInv'
  BY <1>1, <1>2, NothingLeft DEF dumpVars
<1> QED
  BY <1>5, <1>6, <1>7, <1>8 DEF IInv

LEMMA DumpOneSetInv ==
  ASSUME IInv, NEW c \in Conns, DumpOneSet(c)
  PROVE  IInv'
<1> DEFINE t == Writer(c)
           a == IpOf[c]
           e == local[t]
           v == [num |-> e.num,
                 exp |-> IF e.start = Never THEN Never ELSE now + e.start]
<1>1. t \in Threads /\ a \in Ips /\ e \in Entry /\ zeroEntry \in Entry
  BY ThreadParts DEF IInv, TypeOK, zeroEntry, Entry
<1>2. /\ call[t] = "dump" /\ at[t] = "set"
      /\ rate' = [rate EXCEPT ![a] = v] \/ UNCHANGED rate
      /\ call' = [call EXCEPT ![t] = "dumped"] /\ at' = [at EXCEPT ![t] = "rlock"]
      /\ local' = [local EXCEPT ![t] = zeroEntry]
      /\ UNCHANGED <<rateMap, locks, dumpVars, life, env, history>>
  BY DEF DumpOneSet, Return
<1>3. v \in Stored
  BY <1>1 DEF IInv, TypeOK, Entry, Stored, Never
<1> HIDE DEF v
<1>4. /\ \A s \in Threads \ {t} :
           call'[s] = call[s] /\ at'[s] = at[s] /\ local'[s] = local[s]
      /\ at'[t] = "rlock"
  BY <1>1, <1>2 DEF IInv, TypeOK
<1>5. TypeOK'
  <2>1. rate' \in [Ips -> Stored \cup {None}]
    BY <1>1, <1>2, <1>3 DEF IInv, TypeOK
  <2>2. /\ at' \in [Threads -> {"rlock", "lock", "in", "judge", "out", "set"}]
        /\ call' \in [Threads -> {"none", "register", "request", "dump", "dumped"}]
        /\ local' \in [Threads -> Entry]
    BY <1>1, <1>2 DEF IInv, TypeOK
  <2> QED
    BY <1>2, <2>1, <2>2 DEF IInv, TypeOK, locks, dumpVars, env, config, history
<1>6. LockInv'
  BY <1>2, <1>4 DEF IInv, LockInv, Locked, locks, dumpVars
<1>7. MapInv'
  <2>1. \A s \in Threads : /\ Judging(s)' => Judging(s) /\ local'[s] = local[s]
                           /\ Counting(s)' => local'[s] = local[s]
                           /\ Counting(s)' <=> Counting(s)
    BY <1>2, <1>4 DEF Judging, Counting
  <2>2. now' \in Nat /\ now' >= now /\ UNCHANGED <<rateMap, recent>>
    BY <1>2 DEF IInv, TypeOK, history, env
  <2> QED
    BY <2>1, <2>2, OutsideMapInv
<1>8. LeftInv'
  BY <1>2 DEF IInv, LeftInv, dumpVars
<1> QED
  BY <1>5, <1>6, <1>7, <1>8 DEF IInv

-----------------------------------------------------------------------------
(* The other steps. *)

(* What happens to connections and to the configuration is not looked at. *)
LEMMA OtherInv ==
  ASSUME IInv,
         UNCHANGED <<maps, locks, dumpVars, callVars, now, frames, history>>,
         life' \in [Conns -> {"new", "open", "unread", "over"}],
         limiting' \in BOOLEAN, limit' \in 0 .. Max, posts' \in Nat
  PROVE  IInv'
<1>1. TypeOK'
  BY DEF IInv, TypeOK, maps, locks, dumpVars, callVars, history
<1>2. LockInv'
  BY DEF IInv, LockInv, Locked, locks, dumpVars, callVars
<1>3. MapInv'
  <2>1. \A s \in Threads : /\ Judging(s)' <=> Judging(s)
                           /\ Counting(s)' <=> Counting(s)
                           /\ local'[s] = local[s]
    BY DEF Judging, Counting, callVars
  <2>2. now' \in Nat /\ now' >= now /\ UNCHANGED <<rateMap, recent>>
    BY DEF IInv, TypeOK, maps, history
  <2> QED
    BY <2>1, <2>2, OutsideMapInv
<1>4. LeftInv'
  BY DEF IInv, LeftInv, maps, dumpVars
<1> QED
  BY <1>1, <1>2, <1>3, <1>4 DEF IInv

LEMMA ClientInv ==
  ASSUME IInv, NEW c \in Conns, ClientStep(c)
  PROVE  IInv'
<1>1. /\ limiting \in BOOLEAN /\ limit \in 0 .. Max /\ posts \in Nat
      /\ frames \in Nat /\ life \in [Conns -> {"new", "open", "unread", "over"}]
  BY DEF IInv, TypeOK
<1>2. CASE Connect(c)
  BY <1>1, <1>2, ThreadParts, BeginInv DEF Connect
<1>3. CASE ConnectUnlimited(c)
  BY <1>1, <1>3, OtherInv DEF ConnectUnlimited, env, config
<1>4. CASE Abandon(c)
  BY <1>1, <1>4, OtherInv DEF Abandon, env, config
<1>5. CASE Frame(c)
  BY <1>1, <1>5, ThreadParts, BeginInv DEF Frame
<1>6. CASE CloseConnection(c)
  BY <1>1, <1>6, ThreadParts, BeginInv DEF CloseConnection
<1>7. CASE EndRead(c)
  BY <1>1, <1>7, OtherInv DEF EndRead, env, config
<1> QED
  BY <1>2, <1>3, <1>4, <1>5, <1>6, <1>7 DEF ClientStep

LEMMA BodyInv ==
  ASSUME IInv, NEW c \in Conns, BodyStep(c)
  PROVE  IInv'
BY RegisterGetInv, RegisterPutInv, RequestGetInv, RequestJudgeInv, RequestPutInv,
   DumpOneGetInv, DumpOneTtlInv, DumpOneSetInv DEF BodyStep

(* OnDump comes and goes.  It enters rateMap when no call is there. *)
LEMMA DumperInv ==
  ASSUME IInv, DumpStart \/ DumpLock \/ DumpEnd \/ (\E a \in Ips : DumpFails(a))
  PROVE  IInv'
<1>1. /\ UNCHANGED <<maps, locks, life, callVars, env, history>>
      /\ dumper' \in {"idle", "waiting", "dumping"}
      /\ left' \subseteq Ips
      /\ dumper' = "dumping" => readers = {}
      /\ \A a \in left' : dumper' = "dumping" /\ rateMap[a] # None
  <2>1. CASE DumpStart
    BY <2>1 DEF DumpStart, dumpVars, IInv, TypeOK, LockInv, LeftInv
  <2>2. CASE DumpLock
    BY <2>2 DEF DumpLock, MayLock, dumpVars
  <2>3. CASE DumpEnd
    BY <2>3 DEF DumpEnd, dumpVars
  <2>4. CASE \E a \in Ips : DumpFails(a)
    BY <2>4 DEF DumpFails, dumpVars
  <2> QED
    BY <2>1, <2>2, <2>3, <2>4
<1>2. TypeOK'
  BY <1>1 DEF IInv, TypeOK, maps, locks, callVars, env, config, history
<1>3. LockInv'
  BY <1>1 DEF IInv, LockInv, Locked, locks, callVars
<1>4. MapInv'
  <2>1. \A s \in Threads : /\ Judging(s)' <=> Judging(s)
                           /\ Counting(s)' <=> Counting(s)
                           /\ local'[s] = local[s]
    BY <1>1 DEF Judging, Counting, callVars
  <2>2. now' \in Nat /\ now' >= now /\ UNCHANGED <<rateMap, recent>>
    BY <1>1 DEF IInv, TypeOK, maps, env, history
  <2> QED
    BY <2>1, <2>2, OutsideMapInv
<1>5. LeftInv'
  BY <1>1 DEF LeftInv, maps
<1> QED
  BY <1>2, <1>3, <1>4, <1>5 DEF IInv

LEMMA DumpEntryInv ==
  ASSUME IInv, NEW a \in Ips, DumpEntry(a)
  PROVE  IInv'
<1> DEFINE e == rateMap[a]
           v(late) == [num |-> e.num, exp |-> e.start + Ttl + late]
<1>1. /\ dumper = "dumping" /\ a \in left /\ left' = left \ {a}
      /\ UNCHANGED <<dumper, locks, life, callVars, env, history>>
      /\ \/ rateMap' = [rateMap EXCEPT ![a] = None] /\ UNCHANGED rate
         \/ UNCHANGED maps
         \/ /\ \E late \in {0, 1} : rate' = [rate EXCEPT ![a] = v(late)]
            /\ UNCHANGED rateMap
  BY DEF DumpEntry, maps
<1>2. e \in Entry
  BY <1>1 DEF IInv, TypeOK, LeftInv
<1>3. \A late \in {0, 1} : v(late) \in Stored
  BY <1>2, LimiterAssumption DEF Entry, Stored
<1> HIDE DEF v
<1>4. \A t \in Threads : ~Locked(t) /\ ~Judging(t) /\ ~Counting(t)
  BY <1>1, Exclusion DEF IInv, Judging, Counting, Locked
<1>5. TypeOK'
  <2>1. rateMap' \in [Ips -> Entry \cup {None}] /\ rate' \in [Ips -> Stored \cup {None}]
    BY <1>1, <1>3 DEF IInv, TypeOK, maps
  <2> QED
    BY <1>1, <2>1 DEF IInv, TypeOK, locks, callVars, env, config, history
<1>6. LockInv'
  BY <1>1 DEF IInv, LockInv, Locked, locks, callVars
<1>7. \A b \in Ips : rateMap'[b] = rateMap[b] \/ (b = a /\ rateMap'[b] = None)
  BY <1>1 DEF IInv, TypeOK, maps
<1>8. MapInv'
  <2>1. \A t \in Threads : ~Judging(t)' /\ ~Counting(t)'
    BY <1>1, <1>4 DEF Judging, Counting, callVars
  <2>2. \A t \in Threads : WindowOf(t)' /\ CountOf(t)'
    BY <2>1 DEF WindowOf, CountOf
  <2>3. ASSUME NEW b \in Ips PROVE CountAt(b)'
    BY <1>1, <1>4, <1>7 DEF IInv, MapInv, CountAt, history
  <2>4. (now >= Ttl)'
    BY <1>1 DEF IInv, MapInv, env
  <2> QED
    BY <2>2, <2>3, <2>4 DEF MapInv
<1>9. LeftInv'
  BY <1>1, <1>7 DEF IInv, TypeOK, LeftInv
<1> QED
  BY <1>5, <1>6, <1>8, <1>9 DEF IInv

LEMMA TickInv ==
  ASSUME IInv, Tick
  PROVE  IInv'
<1>1. /\ now' = now + 1
      /\ rate' = [a \in Ips |->
                    IF rate[a] # None /\ rate[a].exp # Never /\ rate[a].exp <= now + 1
                    THEN None ELSE rate[a]]
      /\ UNCHANGED <<rateMap, locks, dumpVars, life, callVars, config, frames, history>>
  BY DEF Tick
<1>2. TypeOK'
  <2>1. rate' \in [Ips -> Stored \cup {None}] /\ now' \in Nat
    BY <1>1 DEF IInv, TypeOK
  <2> QED
    BY <1>1, <2>1 DEF IInv, TypeOK, locks, dumpVars, callVars, config, history
<1>3. LockInv'
  BY <1>1 DEF IInv, LockInv, Locked, locks, dumpVars, callVars
<1>4. MapInv'
  <2>1. \A s \in Threads : /\ Judging(s)' <=> Judging(s)
                           /\ Counting(s)' <=> Counting(s)
                           /\ local'[s] = local[s]
    BY <1>1 DEF Judging, Counting, callVars
  <2>2. now' \in Nat /\ now' >= now /\ UNCHANGED <<rateMap, recent>>
    BY <1>1 DEF IInv, TypeOK, history
  <2> QED
    BY <2>1, <2>2, OutsideMapInv
<1>5. LeftInv'
  BY <1>1 DEF IInv, LeftInv, dumpVars
<1> QED
  BY <1>2, <1>3, <1>4, <1>5 DEF IInv

-----------------------------------------------------------------------------
(* The invariant holds in the beginning, and every step keeps it. *)

LEMMA InitInv == Init => IInv
<1> SUFFICES ASSUME Init PROVE IInv
  OBVIOUS
<1>1. TypeOK
  BY LimiterAssumption DEF Init, TypeOK, Entry, zeroEntry, Epoch
<1>2. LockInv
  BY DEF Init, LockInv, Locked
<1>3. MapInv
  <2>1. \A t \in Threads : WindowOf(t) /\ CountOf(t)
    BY DEF Init, WindowOf, CountOf, Judging, Counting
  <2>2. \A a \in Ips : CountAt(a)
    BY LimiterAssumption DEF Init, CountAt
  <2>3. now >= Ttl
    BY LimiterAssumption DEF Init, Epoch
  <2> QED
    BY <2>1, <2>2, <2>3 DEF MapInv
<1>4. LeftInv
  BY DEF Init, LeftInv
<1> QED
  BY <1>1, <1>2, <1>3, <1>4 DEF IInv

LEMMA StepInv == IInv /\ [Next]_vars => IInv'
<1> SUFFICES ASSUME IInv, [Next]_vars PROVE IInv'
  OBVIOUS
<1>1. CASE \E t \in Threads : RLock(t) \/ LockStripe(t)
  BY <1>1, RLockInv, LockStripeInv
<1>2. CASE \E c \in Conns : BodyStep(c) \/ ClientStep(c)
  BY <1>2, BodyInv, ClientInv
<1>3. CASE DumpStart \/ DumpStep
  BY <1>3, DumperInv, DumpEntryInv DEF DumpStep
<1>4. CASE \E on \in BOOLEAN, max \in 0 .. Max : Configure(on, max)
  <2>1. PICK on \in BOOLEAN, max \in 0 .. Max : Configure(on, max)
    BY <1>4
  <2> QED
    BY <2>1, OtherInv DEF Configure, IInv, TypeOK
<1>5. CASE Tick
  BY <1>5, TickInv
<1>6. CASE UNCHANGED vars
  BY <1>6, OtherInv DEF vars, env, config, IInv, TypeOK
<1> QED
  BY <1>1, <1>2, <1>3, <1>4, <1>5, <1>6 DEF Next

(* Whatever the schedule, the errors of Redis and the configuration do. *)
THEOREM Invariance == Spec => []IInv
BY InitInv, StepInv, PTL DEF Spec

(* The variables keep their types, and a stripe is only ever owned by a     *)
(* goroutine that has globalMu for reading. *)
THEOREM TypeCorrect == Spec => []TypeOK
<1>1. IInv => TypeOK
  BY DEF IInv
<1> QED
  BY <1>1, Invariance, PTL

(* No call is in rateMap together with OnDump, nor two calls of one stripe, *)
(* even after calls that failed with their locks held (locks.go). *)
THEOREM LocksKeepApart == Spec => []LocksExclude
<1>1. IInv => LocksExclude
  <2> SUFFICES ASSUME IInv PROVE LocksExclude
    OBVIOUS
  <2>1. \A t \in Threads : InMap(t) => Locked(t)
    BY DEF InMap, Locked
  <2> QED
    BY <2>1, Exclusion DEF IInv, LocksExclude
<1> QED
  BY <1>1, Invariance, PTL

(* No more than the greatest limit of frames is accepted of an address in a *)
(* window since it last registered a connection (limiter.go). *)
THEOREM LimitHolds == Spec => []LimitSinceConnect
<1>1. IInv => LimitSinceConnect
  BY DEF IInv, MapInv, CountAt, LimitSinceConnect
<1> QED
  BY <1>1, Invariance, PTL

(* What a step does to the window of an address. *)
WindowKept ==
  \A a \in Ips : rateMap[a] # None =>
    \/ rateMap'[a] # None /\ rateMap'[a].start = rateMap[a].start
    \/ Expired(rateMap[a])

LEMMA CallKeepsWindow ==
  ASSUME IInv, NEW c \in Conns, BodyStep(c)
  PROVE  WindowKept
<1> DEFINE a == IpOf[c]
<1>1. a \in Ips /\ ip(Main(c)) = a /\ Main(c) \in Threads
  BY ThreadParts
<1>2. rateMap \in [Ips -> Entry \cup {None}] /\ local \in [Threads -> Entry]
  BY DEF IInv, TypeOK
<1>3. None \notin Entry
  BY NoneAssumption
<1>4. CASE rateMap' = rateMap
  BY <1>4 DEF WindowKept
<1>5. CASE RegisterPut(c)
  <2> DEFINE n == local[Main(c)].num
             e == IF rateMap[a] = None
                  THEN [num |-> n, connected |-> TRUE, start |-> now]
                  ELSE [rateMap[a] EXCEPT !.num = n, !.connected = TRUE]
  <2>1. rateMap' = [rateMap EXCEPT ![a] = e]
    BY <1>5 DEF RegisterPut
  <2>2. n \in Nat
    BY <1>1, <1>2 DEF Entry
  <2>3. rateMap[a] # None => e \in Entry /\ e.start = rateMap[a].start
    <3> SUFFICES ASSUME rateMap[a] # None
                 PROVE  e \in Entry /\ e.start = rateMap[a].start
      OBVIOUS
    <3>1. rateMap[a] \in Entry
      BY <1>1, <1>2
    <3>2. e = [rateMap[a] EXCEPT !.num = n, !.connected = TRUE]
      OBVIOUS
    <3> HIDE DEF e, n
    <3> QED
      BY <2>2, <3>1, <3>2 DEF Entry
  <2> HIDE DEF e
  <2> QED
    BY <1>1, <1>2, <1>3, <2>1, <2>3 DEF WindowKept
<1>6. CASE RequestPut(c)
  <2> DEFINE e == [local[Main(c)] EXCEPT !.num = local[Main(c)].num + 1]
  <2>1. rateMap' = [rateMap EXCEPT ![a] = e]
    BY <1>6 DEF RequestPut
  <2>2. e \in Entry /\ e.start = local[Main(c)].start
    BY <1>1, <1>2 DEF Entry
  <2>3. rateMap[a] # None => e.start = rateMap[a].start \/ Expired(rateMap[a])
    BY <1>1, <1>6, <2>2 DEF IInv, MapInv, WindowOf, Counting, RequestPut
  <2> HIDE DEF e
  <2> QED
    BY <1>1, <1>2, <1>3, <2>1, <2>2, <2>3 DEF WindowKept
<1>7. CASE DumpOneGet(c)
  <2>1. CASE Expired(EntryOf(a)) /\ rateMap' = [rateMap EXCEPT ![a] = None]
    BY <1>1, <1>2, <2>1 DEF WindowKept, EntryOf
  <2>2. CASE /\ ~Expired(EntryOf(a))
             /\ rateMap' = [rateMap EXCEPT ![a] = [rateMap[a] EXCEPT !.connected = FALSE]]
    <3>1. rateMap[a] \in Entry
      BY <1>1, <1>2, <2>2, EntryOfType DEF IInv, MapInv
    <3> DEFINE e == [rateMap[a] EXCEPT !.connected = FALSE]
    <3>2. e \in Entry /\ e.start = rateMap[a].start
      BY <3>1 DEF Entry
    <3>3. rateMap' = [rateMap EXCEPT ![a] = e]
      BY <2>2
    <3> HIDE DEF e
    <3> QED
      BY <1>1, <1>2, <1>3, <3>2, <3>3 DEF WindowKept
  <2> QED
    BY <1>7, <2>1, <2>2 DEF DumpOneGet
<1> QED
  BY <1>4, <1>5, <1>6, <1>7
     DEF BodyStep, RegisterGet, RequestGet, RequestJudge, DumpOneTtl, DumpOneSet, maps

(* A window that is running is never forgotten and never replaced: neither  *)
(* by RegisterNewConnection, nor by the entry a request wrote back, nor by  *)
(* a dump. *)
THEOREM NoWindowIsForgotten == Spec => WindowsDoNotOverlap
<1>1. IInv /\ [Next]_vars => [WindowKept]_rateMap
  <2> SUFFICES ASSUME IInv, Next PROVE WindowKept \/ UNCHANGED rateMap
    BY DEF vars, maps
  <2>1. CASE \E c \in Conns : BodyStep(c)
    BY <2>1, CallKeepsWindow
  <2>2. CASE \E a \in Ips : DumpEntry(a)
    BY <2>2 DEF DumpEntry, Forgettable, WindowKept, maps, IInv, TypeOK
  <2>3. CASE \E c \in Conns : ClientStep(c)
    BY <2>3 DEF ClientStep, Connect, ConnectUnlimited, Abandon, Frame,
                CloseConnection, EndRead, Begin, maps
  <2>4. CASE \/ \E t \in Threads : RLock(t) \/ LockStripe(t)
             \/ DumpStart \/ DumpLock \/ DumpEnd \/ Tick
             \/ \E a \in Ips : DumpFails(a)
             \/ \E on \in BOOLEAN, max \in 0 .. Max : Configure(on, max)
    BY <2>4 DEF RLock, LockStripe, DumpStart, DumpLock, DumpEnd, Tick, DumpFails,
                Configure, maps
  <2> QED
    BY <2>1, <2>2, <2>3, <2>4 DEF Next, DumpStep
<1> QED
  BY <1>1, Invariance, PTL DEF Spec, WindowsDoNotOverlap, WindowKept
=============================================================================
