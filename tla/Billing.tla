------------------------------- MODULE Billing -------------------------------
(***************************************************************************)
(* internal/billing in one server process: what recordBilling counts for   *)
(* an instance and what OnBillingDump adds to the instance's document in   *)
(* Firestore.  OnBillingDump is called by the ticker of init and, on       *)
(* shutdown, by Start.                                                     *)
(*                                                                         *)
(* The eleven counters of a billingInfo behave alike; two of them stand    *)
(* for all: "count" and "bytes", which an operation increments in this     *)
(* order (FirestoreWrite, FirestoreRead, OutboundFetch), each by 1.        *)
(*                                                                         *)
(* A step is one operation of the RWMutex billing.mu, one atomic operation *)
(* or one call of Firestore.  A billingInfo is named by the call of        *)
(* recordBilling that allocates it.                                        *)
(***************************************************************************)
EXTENDS Naturals, FiniteSets

CONSTANTS
  Calls,      \* the calls of recordBilling there ever are
  Instances,  \* the instance ids
  InstanceOf, \* the instance a call is about
  Dumpers,    \* the goroutines that call OnBillingDump
  Ticker,     \* the one of them that does so for ever, init's
  MaxFailures,   \* bound on the dumps that fail
  None        \* an absent entry, a free mutex

ASSUME BillingAssumption ==
  /\ InstanceOf \in [Calls -> Instances]
  /\ Ticker \in Dumpers
  /\ MaxFailures \in Nat
  /\ None \notin Calls \cup Dumpers \cup Instances
  /\ Calls \cap Dumpers = {}
  /\ IsFiniteSet(Calls) /\ IsFiniteSet(Dumpers)

VARIABLES
  internalMap,  \* instance -> its billingInfo
  info,         \* billingInfo -> the value of its counters
  readers,      \* the goroutines that hold mu for reading
  writer,       \* the call that holds mu for writing, or None
  waiting,      \* the call whose mu.Lock waits for the readers to leave
  pc,           \* call -> where it is
  ptr,          \* call -> its local "info"
  dpc,          \* dumper -> where it is
  todo,         \* dumper -> the instances its loop has yet to visit
  cur,          \* dumper -> the instance it dumps
  taken,        \* dumper -> what it has swapped out for it
  doc,          \* Firestore: instance -> its counters
  failed,       \* number of dumps that failed
  dropped       \* history: instance -> what failed dumps took

lockVars == <<readers, writer, waiting>>
callVars == <<pc, ptr>>
dumpVars == <<dpc, todo, cur, taken>>
docVars == <<doc, failed, dropped>>
vars == <<internalMap, info, lockVars, callVars, dumpVars, docVars>>

Fields == {"count", "bytes"}
Counters == [Fields -> Nat]
Zero == [f \in Fields |-> 0]
Plus(x, y) == [f \in Fields |-> x[f] + y[f]]

Goroutines == Calls \cup Dumpers

(* Type invariant. *)
TypeOK ==
  /\ internalMap \in [Instances -> Calls \cup {None}]
  /\ info \in [Calls -> Counters]
  /\ readers \subseteq Goroutines
  /\ writer \in Calls \cup {None}
  /\ waiting \in Calls \cup {None}
  /\ pc \in [Calls -> {"new", "look", "lock", "relook", "count", "bytes",
                       "unlock", "done"}]
  /\ ptr \in [Calls -> Calls \cup {None}]
  /\ dpc \in [Dumpers -> {"idle", "loop", "count", "bytes", "set"}]
  /\ todo \in [Dumpers -> SUBSET Instances]
  /\ cur \in [Dumpers -> Instances \cup {None}]
  /\ taken \in [Dumpers -> Counters]
  /\ doc \in [Instances -> Counters]
  /\ failed \in Nat
  /\ dropped \in [Instances -> Counters]

Init ==
  /\ internalMap = [i \in Instances |-> None]
  /\ info = [b \in Calls |-> Zero]
  /\ readers = {} /\ writer = None /\ waiting = None
  /\ pc = [c \in Calls |-> "new"]
  /\ ptr = [c \in Calls |-> None]
  /\ dpc = [d \in Dumpers |-> "idle"]
  /\ todo = [d \in Dumpers |-> {}]
  /\ cur = [d \in Dumpers |-> None]
  /\ taken = [d \in Dumpers |-> Zero]
  /\ doc = [i \in Instances |-> Zero]
  /\ failed = 0
  /\ dropped = [i \in Instances |-> Zero]

-----------------------------------------------------------------------------
(* sync.RWMutex: a Lock waits for the readers there are, and holds up the  *)
(* readers that come.                                                      *)

RLock(g) ==
  /\ writer = None /\ waiting = None
  /\ readers' = readers \cup {g}
  /\ UNCHANGED <<writer, waiting>>

RUnlock(g) ==
  /\ readers' = readers \ {g}
  /\ UNCHANGED <<writer, waiting>>

-----------------------------------------------------------------------------
(* recordBilling.                                                          *)

Goto(c, to) == pc' = [pc EXCEPT ![c] = to]

RecordRLock(c) ==
  /\ pc[c] = "new"
  /\ RLock(c)
  /\ Goto(c, "look")
  /\ UNCHANGED <<internalMap, info, ptr, dumpVars, docVars>>

(* Found: increment under the read lock.  Else give it up. *)
RecordLook(c) ==
  /\ pc[c] = "look"
  /\ LET b == internalMap[InstanceOf[c]]
     IN  \/ /\ b # None
            /\ ptr' = [ptr EXCEPT ![c] = b]
            /\ Goto(c, "count")
            /\ UNCHANGED lockVars
         \/ /\ b = None
            /\ RUnlock(c)
            /\ Goto(c, "lock")
            /\ UNCHANGED ptr
  /\ UNCHANGED <<internalMap, info, dumpVars, docVars>>

(* mu.Lock is called ... *)
RecordWait(c) ==
  /\ pc[c] = "lock"
  /\ writer = None /\ waiting = None
  /\ waiting' = c
  /\ UNCHANGED <<readers, writer, internalMap, info, callVars, dumpVars, docVars>>

(* Mutant: the lock is taken for reading again. *)
RecordLockShared(c) ==
  /\ waiting = c
  /\ readers' = readers \cup {c} /\ waiting' = None
  /\ Goto(c, "relook")
  /\ UNCHANGED <<writer, internalMap, info, ptr, dumpVars, docVars>>

(* ... and gets the lock. *)
RecordLock(c) ==
  /\ waiting = c /\ readers = {}
  /\ writer' = c /\ waiting' = None
  /\ Goto(c, "relook")
  /\ UNCHANGED <<readers, internalMap, info, ptr, dumpVars, docVars>>

(* Mutant: no second look. *)
NoRelook(c) == None
Relook(c) == internalMap[InstanceOf[c]]

(* Look again; a new billingInfo is incremented after mu.Unlock. *)
RecordRelook(c) ==
  /\ pc[c] = "relook"
  /\ LET i == InstanceOf[c]
         b == Relook(c)
     IN  \/ /\ b # None
            /\ ptr' = [ptr EXCEPT ![c] = b]
            /\ UNCHANGED <<internalMap, writer>>
         \/ /\ b = None
            /\ ptr' = [ptr EXCEPT ![c] = c]
            /\ internalMap' = [internalMap EXCEPT ![i] = c]
            /\ writer' = None
  /\ Goto(c, "count")
  /\ UNCHANGED <<readers, waiting, info, dumpVars, docVars>>

(* increment: an atomic Add to each counter. *)
Add(c, f, from, to) ==
  /\ pc[c] = from
  /\ info' = [info EXCEPT ![ptr[c]][f] = @ + 1]
  /\ Goto(c, to)
  /\ UNCHANGED <<internalMap, lockVars, ptr, dumpVars, docVars>>

AddCount(c) == Add(c, "count", "count", "bytes")
AddBytes(c) == Add(c, "bytes", "bytes", "unlock")

(* RUnlock, Unlock, or neither, depending on where the entry was found. *)
RecordUnlock(c) ==
  /\ pc[c] = "unlock"
  /\ readers' = readers \ {c}
  /\ writer' = IF writer = c THEN None ELSE writer
  /\ Goto(c, "done")
  /\ UNCHANGED <<waiting, internalMap, info, ptr, dumpVars, docVars>>

-----------------------------------------------------------------------------
(* OnBillingDump; mu is held for reading all along.  (Start calls it once; *)
(* here it may again.)                                                     *)

Keys == {i \in Instances : internalMap[i] # None}

(* RLock, and the loop over the map begins. *)
DumpStart(d) ==
  /\ dpc[d] = "idle"
  /\ RLock(d)
  /\ dpc' = [dpc EXCEPT ![d] = "loop"]
  /\ todo' = [todo EXCEPT ![d] = Keys]
  /\ UNCHANGED <<internalMap, info, callVars, cur, taken, docVars>>

(* The next instance, in the random order of the map. *)
DumpNext(d, i) ==
  /\ dpc[d] = "loop" /\ i \in todo[d]
  /\ todo' = [todo EXCEPT ![d] = @ \ {i}]
  /\ cur' = [cur EXCEPT ![d] = i]
  /\ dpc' = [dpc EXCEPT ![d] = "count"]
  /\ UNCHANGED <<internalMap, info, lockVars, callVars, taken, docVars>>

(* dumpSingleServicie: Swap(0), counter by counter. *)
Swap(d, f, from, to) ==
  LET b == internalMap[cur[d]]
  IN  /\ dpc[d] = from
      /\ taken' = [taken EXCEPT ![d][f] = info[b][f]]
      /\ info' = [info EXCEPT ![b][f] = 0]
      /\ dpc' = [dpc EXCEPT ![d] = to]
      /\ UNCHANGED <<internalMap, lockVars, callVars, todo, cur, docVars>>

SwapCount(d) == Swap(d, "count", "count", "bytes")
SwapBytes(d) == Swap(d, "bytes", "bytes", "set")

(* Mutant: what was sent is subtracted from the counters, as would be      *)
(* right had they been loaded and not swapped.                             *)
SetAndSubtract(d) ==
  LET b == internalMap[cur[d]]
  IN  /\ dpc[d] = "set"
      /\ doc' = [doc EXCEPT ![cur[d]] = Plus(@, taken[d])]
      /\ info' = [info EXCEPT ![b] = [f \in Fields |-> @[f] - taken[d][f]]]
      /\ taken' = [taken EXCEPT ![d] = Zero]
      /\ cur' = [cur EXCEPT ![d] = None]
      /\ dpc' = [dpc EXCEPT ![d] = "loop"]
      /\ UNCHANGED <<internalMap, lockVars, callVars, todo, failed, dropped>>

(* ref.Set adds what was taken to the document. *)
DumpSet(d) ==
  /\ dpc[d] = "set"
  /\ doc' = [doc EXCEPT ![cur[d]] = Plus(@, taken[d])]
  /\ taken' = [taken EXCEPT ![d] = Zero]
  /\ cur' = [cur EXCEPT ![d] = None]
  /\ dpc' = [dpc EXCEPT ![d] = "loop"]
  /\ UNCHANGED <<internalMap, info, lockVars, callVars, todo, failed, dropped>>

(* There is no client, or ref.Set returns an error, having had its effect  *)
(* or not (a timeout).  The dump ends, and nobody keeps what was taken.    *)
DumpFails(d) ==
  /\ dpc[d] \in {"count", "set"}
  /\ failed < MaxFailures
  /\ failed' = failed + 1
  /\ \/ /\ doc' = [doc EXCEPT ![cur[d]] = Plus(@, taken[d])]
        /\ UNCHANGED dropped
     \/ /\ dropped' = [dropped EXCEPT ![cur[d]] = Plus(@, taken[d])]
        /\ UNCHANGED doc
  /\ taken' = [taken EXCEPT ![d] = Zero]
  /\ cur' = [cur EXCEPT ![d] = None]
  /\ todo' = [todo EXCEPT ![d] = {}]
  /\ dpc' = [dpc EXCEPT ![d] = "idle"]
  /\ RUnlock(d)
  /\ UNCHANGED <<internalMap, info, callVars>>

(* Mutant: no RUnlock. *)
EndLocked(d) == UNCHANGED lockVars
EndUnlocked(d) == RUnlock(d)

(* The deferred RUnlock. *)
DumpEnd(d) ==
  /\ dpc[d] = "loop" /\ todo[d] = {}
  /\ dpc' = [dpc EXCEPT ![d] = "idle"]
  /\ EndUnlocked(d)
  /\ UNCHANGED <<internalMap, info, callVars, todo, cur, taken, docVars>>

-----------------------------------------------------------------------------
(* The steps of a call once it was made. *)
RecordStep(c) ==
  \/ RecordLook(c)
  \/ RecordWait(c)
  \/ RecordLock(c)
  \/ RecordRelook(c)
  \/ AddCount(c)
  \/ AddBytes(c)
  \/ RecordUnlock(c)

DumpStep(d) ==
  \/ \E i \in Instances : DumpNext(d, i)
  \/ SwapCount(d)
  \/ SwapBytes(d)
  \/ DumpSet(d)
  \/ DumpFails(d)
  \/ DumpEnd(d)

Next ==
  \/ \E c \in Calls : RecordRLock(c) \/ RecordStep(c)
  \/ \E d \in Dumpers : DumpStart(d) \/ DumpStep(d)

Spec == Init /\ [][Next]_vars

(* Calls and dumps go on once they have begun: RWMutex starves no one and  *)
(* the dump's context bounds ref.Set.  The ticker never stops.             *)
Fairness ==
  /\ \A c \in Calls : SF_vars(RecordStep(c))
  /\ \A d \in Dumpers : WF_vars(DumpStep(d))
  /\ SF_vars(DumpStart(Ticker))

FairSpec == Spec /\ Fairness

-----------------------------------------------------------------------------
(* Properties.                                                             *)

(* How often counter f of instance i was incremented. *)
Made(i, f) ==
  Cardinality({c \in Calls :
    /\ InstanceOf[c] = i
    /\ pc[c] \in IF f = "count" THEN {"bytes", "unlock", "done"}
                 ELSE {"unlock", "done"}})

Pending(i, f) == IF internalMap[i] = None THEN 0 ELSE info[internalMap[i]][f]

(* What dumps in progress have swapped out of counter f of instance i,     *)
(* unit by unit.                                                           *)
Units(d, f) == {d} \X (1..taken[d][f])
InTransit(i, f) ==
  Cardinality(UNION {Units(d, f) : d \in {e \in Dumpers : cur[e] = i}})

(* Every operation is billed once: what was counted is in the billingInfo, *)
(* on its way, in the document, or was dropped by a failed dump, however   *)
(* calls for a new instance and overlapping dumps interleave.              *)
BilledOnce ==
  \A i \in Instances, f \in Fields :
    Made(i, f) = Pending(i, f) + InTransit(i, f) + doc[i][f] + dropped[i][f]

(* internalMap is not written while a call looks into it or a dump's loop  *)
(* runs over it, which would end the process, even when a call that found  *)
(* no entry has to give up the read lock and take the other.               *)
MapIsGuarded ==
  \A c \in Calls : pc[c] = "relook" =>
    /\ \A b \in Calls \ {c} : pc[b] \notin {"look", "relook"}
    /\ \A d \in Dumpers : dpc[d] = "idle"

(* What a call counted is billed in the end, unless a dump failed with it: *)
(* neither the lock nor the arrival of new instances holds up calls or     *)
(* dumps for ever, and no increment stays in an abandoned billingInfo.     *)
EverythingIsBilled ==
  \A c \in Calls :
    LET i == InstanceOf[c]
    IN  pc[c] = "look" ~>
          /\ pc[c] = "done"
          /\ \A f \in Fields : doc[i][f] + dropped[i][f] = Made(i, f)
=============================================================================
