---------------------------- MODULE MetricsProof -----------------------------
(***************************************************************************)
(* Theorems about Metrics: for any connections, calls and event types and  *)
(* any number of scrapes.                                                  *)
(*                                                                         *)
(* A counter is what has been added to it (ConnInv, CallInv), so that the  *)
(* order of the additions keeps the counters of a type in order.  What a   *)
(* scrape has loaded was true of the counters once and they have grown     *)
(* since (PageInv), so that the order of the loads keeps the page in order *)
(* and the next page above it.                                             *)
(***************************************************************************)
EXTENDS Metrics, FiniteSetTheorems, SequenceTheorems, TLAPS

Names == {"executions", "durationMs", "errors"}

ConnInv ==
  /\ connectionsTotal = Cardinality({c \in Conns : conn[c] # "new"})
  /\ connectionsActive = Cardinality({c \in Conns : conn[c] = "open"})

(* The calls of type t that have done n additions. *)
Done(t, n) == {c \in Calls : EventType[c] = t /\ at[c] > n}

(* All calls of a type add to the one eventStats that is in events. *)
CallInv ==
  /\ \A c \in Calls : at[c] # 0 =>
       events[EventType[c]] # None /\ stats[c] = events[EventType[c]]
  /\ \A t \in Types : events[t] # None => EventType[events[t]] = t
  /\ \A s \in Calls : events[EventType[s]] # s =>
       \A k \in Names : counter[k][s] = 0
  /\ \A t \in Types : events[t] # None =>
       /\ counter["executions"][events[t]] = Cardinality(Done(t, 1))
       /\ counter["durationMs"][events[t]] = Cardinality(Done(t, 2))
       /\ counter["errors"][events[t]] <= Cardinality(Done(t, 3))

(* Line i of type t, if it were loaded now. *)
Now(t, i) == counter[Lines[i]][events[t]]

LinesInv(t) ==
  LET new == shown.line[t]
      old == last.line[t]
  IN  /\ Len(new) <= 4 /\ Len(old) <= 4
      /\ Len(new) > 0 \/ Len(old) > 0 => events[t] # None
      /\ \A i \in 1..4 :
           /\ i <= Len(new) => new[i] <= Now(t, i)
           /\ i <= Len(old) => old[i] <= Now(t, i)
           /\ i <= Len(new) /\ i <= Len(old) => old[i] <= new[i]
      /\ Len(new) = 4 => new[2] <= new[4] /\ new[3] <= new[4]
      /\ scraper = "idle" /\ Len(old) = 4 => Len(new) = 4

PageInv ==
  /\ last.total <= connectionsTotal /\ shown.total <= connectionsTotal
  /\ scraper = "total" => shown.active <= connectionsTotal
  /\ scraper \in {"events", "idle"} =>
       shown.active <= shown.total /\ last.total <= shown.total
  /\ \A t \in Types : LinesInv(t)

IInv == TypeOK /\ ConnInv /\ CallInv /\ PageInv

-----------------------------------------------------------------------------
LEMMA OrderParts ==
  /\ DOMAIN Order = 1..3
  /\ Order[1] = "executions" /\ Order[2] = "durationMs" /\ Order[3] = "errors"
BY DEF Order

LEMMA LinesParts ==
  /\ DOMAIN Lines = 1..4 /\ Len(Lines) = 4 /\ \A i \in 1..4 : Lines[i] \in Names
  /\ Lines[1] = "executions" /\ Lines[2] = "errors"
  /\ Lines[3] = "durationMs" /\ Lines[4] = "executions"
BY DEF Lines, Names

LEMMA TypesParts == \A c \in Calls : EventType[c] \in Types
BY DEF Types

(* A page and its parts. *)
LEMMA PageParts ==
  /\ Empty \in Page
  /\ \A p \in Page : /\ p.active \in Nat /\ p.total \in Nat
                     /\ p.line \in [Types -> Seq(Nat)]
                     /\ \A t \in Types : p.line[t] \in Seq(Nat) /\ Len(p.line[t]) \in Nat
BY DEF Empty, Page

(* What a line would show is a number, which grows with the counters. *)
LEMMA NowType ==
  ASSUME TypeOK, NEW t \in Types, events[t] # None
  PROVE  /\ events[t] \in Calls
         /\ \A k \in Names : counter[k][events[t]] \in Nat
         /\ \A i \in 1..4 : Now(t, i) \in Nat
<1>1. events[t] \in Calls /\ counter \in [Names -> [Calls -> Nat]]
  BY DEF TypeOK, Names
<1>2. \A k \in Names : counter[k][events[t]] \in Nat
  BY <1>1
<1> QED
  BY <1>1, <1>2, LinesParts DEF Now

(* A step that adds to no counter. *)
LEMMA CountersKept ==
  ASSUME TypeOK, UNCHANGED <<events, counter>>
  PROVE  \A t \in Types : events[t] # None =>
           /\ events'[t] = events[t]
           /\ \A k \in Names : counter[k][events[t]] <= counter'[k][events[t]]
<1> SUFFICES ASSUME NEW t \in Types, events[t] # None, NEW k \in Names
             PROVE  counter[k][events[t]] <= counter'[k][events[t]]
  OBVIOUS
<1>1. counter[k][events[t]] \in Nat
  BY NowType
<1> QED
  BY <1>1

(* The page is not touched, and no counter shrinks. *)
LEMMA PageKept ==
  ASSUME TypeOK, TypeOK', PageInv, UNCHANGED scrapeVars,
         connectionsTotal <= connectionsTotal',
         \A t \in Types : events[t] # None =>
           /\ events'[t] = events[t]
           /\ \A k \in Names : counter[k][events[t]] <= counter'[k][events[t]]
  PROVE  PageInv'
<1>1. shown' = shown /\ last' = last /\ scraper' = scraper
  BY DEF scrapeVars
<1>2. shown \in Page /\ last \in Page /\ connectionsTotal \in Nat /\ connectionsTotal' \in Nat
  BY DEF TypeOK
<1>3. /\ last'.total <= connectionsTotal' /\ shown'.total <= connectionsTotal'
      /\ scraper' = "total" => shown'.active <= connectionsTotal'
      /\ scraper' \in {"events", "idle"} =>
           shown'.active <= shown'.total /\ last'.total <= shown'.total
  BY <1>1, <1>2, PageParts DEF PageInv
<1>4. ASSUME NEW t \in Types
      PROVE  LinesInv(t)'
  <2> DEFINE new == shown.line[t]
             old == last.line[t]
  <2>1. LinesInv(t)
    BY DEF PageInv
  <2>2. CASE events[t] = None
    <3>1. Len(new) \in Nat /\ Len(old) \in Nat
      BY <1>2, PageParts
    <3>2. Len(new) = 0 /\ Len(old) = 0
      BY <2>1, <2>2, <3>1 DEF LinesInv
    <3> QED
      BY <1>1, <3>2 DEF LinesInv
  <2>3. CASE events[t] # None
    <3>1. \A i \in 1..4 : Now(t, i) \in Nat /\ Now(t, i)' \in Nat /\ Now(t, i) <= Now(t, i)'
      <4>1. events'[t] = events[t] /\ events'[t] # None
        BY <2>3
      <4>2. \A i \in 1..4 : Now(t, i) \in Nat
        BY <2>3, NowType
      <4>3. \A i \in 1..4 : Now(t, i)' \in Nat
        <5>1. events'[t] \in Calls /\ counter' \in [Names -> [Calls -> Nat]]
          BY <4>1 DEF TypeOK, Names
        <5> QED
          BY <5>1, LinesParts DEF Now
      <4>4. \A i \in 1..4 : Now(t, i) <= Now(t, i)'
        BY <2>3, <4>1, LinesParts DEF Now
      <4> QED
        BY <4>2, <4>3, <4>4
    <3>2. /\ new \in Seq(Nat) /\ Len(new) \in Nat
          /\ old \in Seq(Nat) /\ Len(old) \in Nat
      BY <1>2, PageParts
    <3>3. ASSUME NEW i \in 1..4
          PROVE  /\ i <= Len(new) => new[i] <= Now(t, i)'
                 /\ i <= Len(old) => old[i] <= Now(t, i)'
      <4>1. /\ i <= Len(new) => new[i] <= Now(t, i)
            /\ i <= Len(old) => old[i] <= Now(t, i)
        BY <2>1 DEF LinesInv
      <4>2. Now(t, i) \in Nat /\ Now(t, i)' \in Nat /\ Now(t, i) <= Now(t, i)'
        BY <3>1
      <4> HIDE DEF new, old
      <4>3. i <= Len(new) => new[i] \in Nat
        BY <3>2, ElementOfSeq
      <4>4. i <= Len(old) => old[i] \in Nat
        BY <3>2, ElementOfSeq
      <4> QED
        BY <4>1, <4>2, <4>3, <4>4
    <3>4. events'[t] # None
      BY <2>3
    <3> QED
      BY <1>1, <2>1, <3>3, <3>4 DEF LinesInv
  <2> QED
    BY <2>2, <2>3
<1> QED
  BY <1>3, <1>4 DEF PageInv

-----------------------------------------------------------------------------
LEMMA InitInv == Init => IInv
<1> SUFFICES ASSUME Init PROVE IInv
  OBVIOUS
<1>1. TypeOK
  BY PageParts, MetricsAssumption DEF Init, TypeOK
<1>2. ConnInv
  <2>1. {c \in Conns : conn[c] # "new"} = {} /\ {c \in Conns : conn[c] = "open"} = {}
    BY DEF Init
  <2> QED
    BY <2>1, FS_EmptySet DEF Init, ConnInv
<1>3. CallInv
  BY TypesParts DEF Init, CallInv, Names
<1>4. PageInv
  <2>1. /\ shown = Empty /\ last = Empty /\ connectionsTotal = 0
        /\ scraper = "idle"
    BY DEF Init
  <2>2. /\ Empty.active = 0 /\ Empty.total = 0
        /\ \A t \in Types : Empty.line[t] = <<>>
    BY DEF Empty
  <2>3. Len(<<>>) = 0
    OBVIOUS
  <2>4. \A t \in Types : LinesInv(t)
    BY <2>1, <2>2, <2>3 DEF LinesInv
  <2> QED
    BY <2>1, <2>2, <2>4 DEF PageInv
<1> QED
  BY <1>1, <1>2, <1>3, <1>4 DEF IInv

-----------------------------------------------------------------------------
(* Connections. *)

LEMMA ConnFinite ==
  ASSUME NEW S \in SUBSET Conns
  PROVE  IsFiniteSet(S) /\ Cardinality(S) \in Nat
BY MetricsAssumption, FS_Subset, FS_CardinalityType

(* What remains to be shown of a step that only opens or closes one. *)
LEMMA ConnFrame ==
  ASSUME IInv, TypeOK', ConnInv', UNCHANGED <<callVars, scrapeVars>>,
         connectionsTotal <= connectionsTotal'
  PROVE  IInv'
<1>1. TypeOK /\ CallInv /\ PageInv
  BY DEF IInv
<1>2. CallInv'
  BY <1>1 DEF CallInv, Done, callVars
<1>3. PageInv'
  BY <1>1, CountersKept, PageKept DEF callVars
<1> QED
  BY <1>2, <1>3 DEF IInv

LEMMA OpenInv ==
  ASSUME IInv, NEW c \in Conns, Open(c)
  PROVE  IInv'
<1> DEFINE Opened == {d \in Conns : conn[d] # "new"}
           Live == {d \in Conns : conn[d] = "open"}
<1>0. TypeOK /\ ConnInv /\ CallInv /\ PageInv
  BY DEF IInv
<1>1. UNCHANGED <<callVars, scrapeVars>>
  BY DEF Open
<1>2. /\ conn \in [Conns -> {"new", "opening", "open", "closed"}]
      /\ connectionsTotal \in Nat /\ connectionsActive \in Nat
      /\ connectionsTotal = Cardinality(Opened)
      /\ connectionsActive = Cardinality(Live)
  BY <1>0 DEF TypeOK, ConnInv
<1>3. IsFiniteSet(Opened) /\ IsFiniteSet(Live)
  BY ConnFinite
<1>4. CASE /\ ConnStep(c, "new", "opening")
           /\ connectionsTotal' = connectionsTotal + 1
           /\ UNCHANGED connectionsActive
  <2>1. c \notin Opened /\ Opened' = Opened \cup {c} /\ Live' = Live
    BY <1>2, <1>4 DEF ConnStep
  <2>2. Cardinality(Opened \cup {c}) = Cardinality(Opened) + 1
    BY <1>3, <2>1, FS_AddElement
  <2>3. ConnInv'
    BY <1>2, <1>4, <2>1, <2>2 DEF ConnInv
  <2>4. conn' \in [Conns -> {"new", "opening", "open", "closed"}]
    BY <1>2, <1>4 DEF ConnStep
  <2>5. TypeOK'
    BY <1>0, <1>1, <1>2, <1>4, <2>4 DEF TypeOK, callVars, scrapeVars
  <2>6. connectionsTotal <= connectionsTotal'
    BY <1>2, <1>4
  <2> QED
    BY <1>1, <2>3, <2>5, <2>6, ConnFrame
<1>5. CASE /\ ConnStep(c, "opening", "open")
           /\ connectionsActive' = connectionsActive + 1
           /\ UNCHANGED connectionsTotal
  <2>1. c \notin Live /\ Opened' = Opened /\ Live' = Live \cup {c}
    BY <1>2, <1>5 DEF ConnStep
  <2>2. Cardinality(Live \cup {c}) = Cardinality(Live) + 1
    BY <1>3, <2>1, FS_AddElement
  <2>3. ConnInv'
    BY <1>2, <1>5, <2>1, <2>2 DEF ConnInv
  <2>4. conn' \in [Conns -> {"new", "opening", "open", "closed"}]
    BY <1>2, <1>5 DEF ConnStep
  <2>5. TypeOK'
    BY <1>0, <1>1, <1>2, <1>5, <2>4 DEF TypeOK, callVars, scrapeVars
  <2>6. connectionsTotal <= connectionsTotal'
    BY <1>2, <1>5
  <2> QED
    BY <1>1, <2>3, <2>5, <2>6, ConnFrame
<1> QED
  BY <1>4, <1>5 DEF Open

LEMMA CloseInv ==
  ASSUME IInv, NEW c \in Conns, Close(c)
  PROVE  IInv'
<1> DEFINE Opened == {d \in Conns : conn[d] # "new"}
           Live == {d \in Conns : conn[d] = "open"}
<1>0. TypeOK /\ ConnInv /\ CallInv /\ PageInv
  BY DEF IInv
<1>1. /\ conn[c] = "open" /\ conn' = [conn EXCEPT ![c] = "closed"]
      /\ connectionsActive' = connectionsActive - 1
      /\ UNCHANGED <<connectionsTotal, callVars, scrapeVars>>
  BY DEF Close, MayClose
<1>2. /\ conn \in [Conns -> {"new", "opening", "open", "closed"}]
      /\ connectionsTotal \in Nat /\ connectionsActive \in Nat
      /\ connectionsTotal = Cardinality(Opened)
      /\ connectionsActive = Cardinality(Live)
  BY <1>0 DEF TypeOK, ConnInv
<1>3. IsFiniteSet(Live) /\ IsFiniteSet(Live \ {c}) /\ Cardinality(Live \ {c}) \in Nat
  BY ConnFinite
<1>4. c \in Live /\ Opened' = Opened /\ Live' = Live \ {c}
  BY <1>1, <1>2
<1>5. Cardinality(Live \ {c}) = Cardinality(Live) - 1
  BY <1>3, <1>4, FS_RemoveElement
<1>6. ConnInv' /\ connectionsActive' \in Nat
  BY <1>1, <1>2, <1>3, <1>4, <1>5 DEF ConnInv
<1>7. conn' \in [Conns -> {"new", "opening", "open", "closed"}]
  BY <1>1, <1>2
<1>8. TypeOK'
  BY <1>0, <1>1, <1>6, <1>7 DEF TypeOK, callVars, scrapeVars
<1>9. connectionsTotal <= connectionsTotal'
  BY <1>1, <1>2
<1> QED
  BY <1>1, <1>6, <1>8, <1>9, ConnFrame

-----------------------------------------------------------------------------
(* SandboxExecution.                                                       *)

LEMMA DoneFinite ==
  ASSUME NEW t, NEW n
  PROVE  IsFiniteSet(Done(t, n)) /\ Cardinality(Done(t, n)) \in Nat
<1>1. Done(t, n) \subseteq Calls
  BY DEF Done
<1> QED
  BY <1>1, MetricsAssumption, FS_Subset, FS_CardinalityType

(* What remains to be shown of a step of a call. *)
LEMMA CallFrame ==
  ASSUME IInv, TypeOK', CallInv', UNCHANGED <<connVars, scrapeVars>>,
         \A t \in Types : events[t] # None =>
           /\ events'[t] = events[t]
           /\ \A k \in Names : counter[k][events[t]] <= counter'[k][events[t]]
  PROVE  IInv'
<1>1. ConnInv' /\ connectionsTotal <= connectionsTotal'
  BY DEF IInv, ConnInv, TypeOK, connVars
<1> QED
  BY <1>1, PageKept DEF IInv

LEMMA LookInv ==
  ASSUME IInv, NEW c \in Calls, Look(c)
  PROVE  IInv'
<1> DEFINE t == EventType[c]
<1>0. TypeOK /\ CallInv
  BY DEF IInv
<1>1. /\ at[c] = 0 /\ UNCHANGED <<events, counter, connVars, scrapeVars>>
      /\ at \in [Calls -> 0..4] /\ stats \in [Calls -> Calls \cup {None}]
      /\ insert \subseteq Calls
      /\ events[t] \in Calls \cup {None}
  BY <1>0, TypesParts DEF Look, TypeOK
<1>2. CASE events[t] # None /\ Use(c, events[t]) /\ UNCHANGED insert
  <2>1. /\ at' \in [Calls -> 0..4] /\ stats' \in [Calls -> Calls \cup {None}]
        /\ at'[c] = 1 /\ stats'[c] = events[t]
        /\ \A d \in Calls \ {c} : at'[d] = at[d] /\ stats'[d] = stats[d]
    BY <1>1, <1>2 DEF Use
  <2>2. TypeOK'
    BY <1>0, <1>1, <1>2, <2>1 DEF TypeOK, connVars, scrapeVars
  <2>3. \A n \in 1..3 : \A u : Done(u, n)' = Done(u, n)
    BY <1>1, <2>1 DEF Done
  <2>4. CallInv'
    <3>1. \A d \in Calls : at'[d] # 0 =>
            events'[EventType[d]] # None /\ stats'[d] = events'[EventType[d]]
      BY <1>0, <1>1, <1>2, <2>1 DEF CallInv
    <3> QED
      BY <1>0, <1>1, <2>3, <3>1 DEF CallInv
  <2> QED
    BY <1>0, <1>1, <2>2, <2>4, CallFrame, CountersKept
<1>3. CASE insert' = insert \cup {c} /\ UNCHANGED <<stats, at>>
  <2>1. TypeOK'
    BY <1>0, <1>1, <1>3 DEF TypeOK, connVars, scrapeVars
  <2>2. \A n, u : Done(u, n)' = Done(u, n)
    BY <1>3 DEF Done
  <2>3. CallInv'
    BY <1>0, <1>1, <1>3, <2>2 DEF CallInv
  <2> QED
    BY <1>0, <1>1, <2>1, <2>3, CallFrame, CountersKept
<1> QED
  BY <1>2, <1>3 DEF Look

LEMMA InsertInv ==
  ASSUME IInv, NEW c \in Calls, Insert(c)
  PROVE  IInv'
<1> DEFINE t == EventType[c]
           s == Relook(c)
<1>0. TypeOK /\ CallInv
  BY DEF IInv
<1>1. /\ at[c] = 0 /\ UNCHANGED <<counter, insert, connVars, scrapeVars>>
      /\ events' = [events EXCEPT ![t] = s] /\ Use(c, s)
      /\ t \in Types
  BY TypesParts DEF Insert
<1>2. /\ at \in [Calls -> 0..4] /\ stats \in [Calls -> Calls \cup {None}]
      /\ events \in [Types -> Calls \cup {None}]
      /\ counter \in [Names -> [Calls -> Nat]]
  BY <1>0 DEF TypeOK, Names
<1>3. /\ s \in Calls /\ s # None
      /\ events[t] # None => s = events[t]
      /\ events[t] = None => s = c
  BY <1>1, <1>2, MetricsAssumption DEF Relook
<1> HIDE DEF s
<1>4. /\ at' \in [Calls -> 0..4] /\ stats' \in [Calls -> Calls \cup {None}]
      /\ at'[c] = 1 /\ stats'[c] = s
      /\ \A d \in Calls \ {c} : at'[d] = at[d] /\ stats'[d] = stats[d]
  BY <1>1, <1>2, <1>3 DEF Use
<1>5. /\ events' \in [Types -> Calls \cup {None}] /\ events'[t] = s
      /\ \A u \in Types \ {t} : events'[u] = events[u]
  BY <1>1, <1>2, <1>3
<1>6. TypeOK'
  BY <1>0, <1>1, <1>4, <1>5 DEF TypeOK, connVars, scrapeVars
<1>7. \A n \in 1..3 : \A u : Done(u, n)' = Done(u, n)
  BY <1>1, <1>4 DEF Done
<1>8. EventType[s] = t
  BY <1>0, <1>1, <1>3 DEF CallInv
<1>9. CallInv'
  <2>1. ASSUME NEW d \in Calls, at'[d] # 0
        PROVE  events'[EventType[d]] # None /\ stats'[d] = events'[EventType[d]]
    <3>1. CASE d = c
      BY <1>3, <1>4, <1>5, <3>1
    <3>2. CASE d # c /\ EventType[d] = t
      <4>1. events[t] # None /\ stats[d] = events[t]
        BY <1>0, <1>4, <2>1, <3>2 DEF CallInv
      <4> QED
        BY <1>3, <1>4, <1>5, <3>2, <4>1
    <3>3. CASE d # c /\ EventType[d] # t
      BY <1>0, <1>4, <1>5, <2>1, <3>3, TypesParts DEF CallInv
    <3> QED
      BY <3>1, <3>2, <3>3
  <2>2. \A u \in Types : events'[u] # None => EventType[events'[u]] = u
    BY <1>0, <1>5, <1>8 DEF CallInv
  <2>3. ASSUME NEW r \in Calls, events'[EventType[r]] # r, NEW k \in Names
        PROVE  counter'[k][r] = 0
    <3>1. events[EventType[r]] # r
      BY <1>1, <1>3, <1>5, <2>3, TypesParts, MetricsAssumption
    <3> QED
      BY <1>0, <1>1, <2>3, <3>1 DEF CallInv
  <2>4. ASSUME NEW u \in Types, events'[u] # None
        PROVE  /\ counter'["executions"][events'[u]] = Cardinality(Done(u, 1)')
               /\ counter'["durationMs"][events'[u]] = Cardinality(Done(u, 2)')
               /\ counter'["errors"][events'[u]] <= Cardinality(Done(u, 3)')
    <3>1. CASE events[u] # None
      <4>1. events'[u] = events[u]
        BY <1>3, <1>5, <3>1
      <4>2. /\ counter["executions"][events[u]] = Cardinality(Done(u, 1))
            /\ counter["durationMs"][events[u]] = Cardinality(Done(u, 2))
            /\ counter["errors"][events[u]] <= Cardinality(Done(u, 3))
        BY <1>0, <3>1 DEF CallInv
      <4>3. /\ Done(u, 1)' = Done(u, 1) /\ Done(u, 2)' = Done(u, 2)
            /\ Done(u, 3)' = Done(u, 3)
        BY <1>7
      <4> QED
        BY <1>1, <4>1, <4>2, <4>3
    <3>2. CASE events[u] = None
      <4>1. u = t /\ s = c /\ events'[u] = c
        BY <1>3, <1>5, <2>4, <3>2
      <4>2. \A k \in Names : counter[k][c] = 0
        BY <1>0, <3>2, <4>1, MetricsAssumption DEF CallInv
      <4>3. \A n \in 1..3 : Done(u, n) = {}
        <5> SUFFICES ASSUME NEW n \in 1..3, NEW d \in Calls,
                            EventType[d] = u, at[d] > n
                     PROVE  FALSE
          BY DEF Done
        <5>1. at[d] # 0
          BY <1>2
        <5> QED
          BY <1>0, <3>2, <5>1 DEF CallInv
      <4>4. Done(u, 1)' = {} /\ Done(u, 2)' = {} /\ Done(u, 3)' = {}
        BY <1>7, <4>3
      <4> QED
        BY <1>1, <4>1, <4>2, <4>4, FS_EmptySet DEF Names
    <3> QED
      BY <3>1, <3>2
  <2> QED
    BY <2>1, <2>2, <2>3, <2>4 DEF CallInv
<1>10. ASSUME NEW u \in Types, events[u] # None
       PROVE  /\ events'[u] = events[u]
              /\ \A k \in Names : counter[k][events[u]] <= counter'[k][events[u]]
  <2>1. events'[u] = events[u]
    BY <1>3, <1>5, <1>10
  <2>2. \A k \in Names : counter[k][events[u]] \in Nat
    BY <1>0, <1>10, NowType
  <2> QED
    BY <1>1, <2>1, <2>2
<1> QED
  BY <1>1, <1>6, <1>9, <1>10, CallFrame

LEMMA AddInv ==
  ASSUME IInv, NEW c \in Calls, Add(c)
  PROVE  IInv'
<1> DEFINE t == EventType[c]
           s == stats[c]
<1>0. TypeOK /\ CallInv
  BY DEF IInv
<1>1. /\ at \in [Calls -> 0..4] /\ events \in [Types -> Calls \cup {None}]
      /\ counter \in [Names -> [Calls -> Nat]]
      /\ t \in Types
  BY <1>0, TypesParts DEF TypeOK, Names
<1>2. PICK j \in 1..3 :
        /\ at[c] = j /\ at' = [at EXCEPT ![c] = @ + 1]
        /\ UNCHANGED <<events, stats, insert, connVars, scrapeVars>>
  BY OrderParts DEF Add
<1>3. /\ at' \in [Calls -> 0..4] /\ at'[c] = j + 1
      /\ \A d \in Calls \ {c} : at'[d] = at[d]
  BY <1>1, <1>2
<1>4. s = events[t] /\ s # None /\ s \in Calls /\ EventType[s] = t
  BY <1>0, <1>1, <1>2 DEF CallInv
<1>5. \A u \in Types : events[u] = s => u = t
  BY <1>0, <1>4 DEF CallInv
<1>6. Order[j] \in Names
  BY <1>2, OrderParts DEF Names
<1>7. /\ counter' \in [Names -> [Calls -> Nat]]
      /\ \A k \in Names, r \in Calls :
           (k # Order[j] \/ r # s) => counter'[k][r] = counter[k][r]
      /\ \/ counter'[Order[j]][s] = counter[Order[j]][s] + 1
         \/ Order[j] = "errors" /\ counter'[Order[j]][s] = counter[Order[j]][s]
  <2> DEFINE name == Order[j]
  <2>1. name \in Names
    BY <1>6
  <2>2. \/ counter' = [counter EXCEPT ![name][s] = @ + 1]
        \/ name = "errors" /\ counter' = counter
    BY <1>2 DEF Add
  <2> HIDE DEF name
  <2>3. CASE counter' = [counter EXCEPT ![name][s] = @ + 1]
    <3>1. counter' = [counter EXCEPT ![name] = [counter[name] EXCEPT ![s] = @ + 1]]
      BY <2>3
    <3>2. [counter[name] EXCEPT ![s] = @ + 1] \in [Calls -> Nat]
      BY <1>1, <1>4, <2>1
    <3>3. counter'[name] = [counter[name] EXCEPT ![s] = @ + 1]
          /\ \A k \in Names \ {name} : counter'[k] = counter[k]
      BY <1>1, <2>1, <3>1
    <3>4. counter' \in [Names -> [Calls -> Nat]]
      BY <1>1, <2>1, <3>1, <3>2
    <3>5. counter'[name][s] = counter[name][s] + 1
          /\ \A r \in Calls \ {s} : counter'[name][r] = counter[name][r]
      BY <1>1, <1>4, <2>1, <3>3
    <3> QED
      BY <3>3, <3>4, <3>5 DEF name
  <2>4. CASE name = "errors" /\ counter' = counter
    BY <1>1, <2>4 DEF name
  <2> QED
    BY <2>2, <2>3, <2>4
<1> HIDE DEF s
<1>8. TypeOK'
  BY <1>0, <1>2, <1>3, <1>7 DEF TypeOK, connVars, scrapeVars, Names
<1>9. CallInv'
  <2>1. \A d \in Calls : at'[d] # 0 => at[d] # 0
    BY <1>2, <1>3
  <2>2. \A d \in Calls : at'[d] # 0 =>
          events'[EventType[d]] # None /\ stats'[d] = events'[EventType[d]]
    BY <1>0, <1>2, <2>1 DEF CallInv
  <2>3. \A r \in Calls : events'[EventType[r]] # r =>
          \A k \in Names : counter'[k][r] = 0
    BY <1>0, <1>2, <1>4, <1>7 DEF CallInv
  <2>4. ASSUME NEW u \in Types, events'[u] # None
        PROVE  /\ counter'["executions"][events'[u]] = Cardinality(Done(u, 1)')
               /\ counter'["durationMs"][events'[u]] = Cardinality(Done(u, 2)')
               /\ counter'["errors"][events'[u]] <= Cardinality(Done(u, 3)')
    <3>1. /\ counter["executions"][events[u]] = Cardinality(Done(u, 1))
          /\ counter["durationMs"][events[u]] = Cardinality(Done(u, 2))
          /\ counter["errors"][events[u]] <= Cardinality(Done(u, 3))
      BY <1>0, <1>2, <2>4 DEF CallInv
    <3>2. events'[u] = events[u] /\ events[u] \in Calls
      BY <1>1, <1>2, <2>4
    <3>3. CASE u # t
      <4>1. events[u] # s
        BY <1>5, <3>3
      <4>2. \A k \in Names : counter'[k][events[u]] = counter[k][events[u]]
        BY <1>7, <3>2, <4>1
      <4>3. \A n \in 1..3 : Done(u, n)' = Done(u, n)
        BY <1>3, <3>3 DEF Done
      <4>4. Done(u, 1)' = Done(u, 1) /\ Done(u, 2)' = Done(u, 2) /\ Done(u, 3)' = Done(u, 3)
        BY <4>3
      <4> QED
        BY <3>1, <3>2, <4>2, <4>4 DEF Names
    <3>4. CASE u = t
      <4>1. events[u] = s
        BY <1>4, <3>4
      <4>2. /\ Done(u, j)' = Done(u, j) \cup {c} /\ c \notin Done(u, j)
            /\ \A n \in 1..3 : n # j => Done(u, n)' = Done(u, n)
        BY <1>2, <1>3, <3>4 DEF Done
      <4>3. Cardinality(Done(u, j) \cup {c}) = Cardinality(Done(u, j)) + 1
        BY <4>2, DoneFinite, FS_AddElement
      <4>4. /\ Cardinality(Done(u, 1)) \in Nat /\ Cardinality(Done(u, 2)) \in Nat
            /\ Cardinality(Done(u, 3)) \in Nat
        BY DoneFinite
      <4>5. counter["errors"][s] \in Nat
        BY <1>1, <1>4 DEF Names
      <4>6. CASE j = 1
        <5>1. /\ Done(u, 1)' = Done(u, 1) \cup {c}
              /\ Done(u, 2)' = Done(u, 2) /\ Done(u, 3)' = Done(u, 3)
          BY <4>2, <4>6
        <5>2. /\ counter'["executions"][s] = counter["executions"][s] + 1
              /\ counter'["durationMs"][s] = counter["durationMs"][s]
              /\ counter'["errors"][s] = counter["errors"][s]
          BY <1>4, <1>7, <4>6, OrderParts DEF Names
        <5> QED
          BY <3>1, <3>2, <4>1, <4>3, <4>6, <5>1, <5>2
      <4>7. CASE j = 2
        <5>1. /\ Done(u, 2)' = Done(u, 2) \cup {c}
              /\ Done(u, 1)' = Done(u, 1) /\ Done(u, 3)' = Done(u, 3)
          BY <4>2, <4>7
        <5>2. /\ counter'["durationMs"][s] = counter["durationMs"][s] + 1
              /\ counter'["executions"][s] = counter["executions"][s]
              /\ counter'["errors"][s] = counter["errors"][s]
          BY <1>4, <1>7, <4>7, OrderParts DEF Names
        <5> QED
          BY <3>1, <3>2, <4>1, <4>3, <4>7, <5>1, <5>2
      <4>8. CASE j = 3
        <5>1. /\ Done(u, 3)' = Done(u, 3) \cup {c}
              /\ Done(u, 1)' = Done(u, 1) /\ Done(u, 2)' = Done(u, 2)
          BY <4>2, <4>8
        <5>2. /\ counter'["errors"][s] \in {counter["errors"][s], counter["errors"][s] + 1}
              /\ counter'["executions"][s] = counter["executions"][s]
              /\ counter'["durationMs"][s] = counter["durationMs"][s]
          BY <1>4, <1>7, <4>8, OrderParts DEF Names
        <5>3. counter'["errors"][s] <= Cardinality(Done(u, 3)) + 1
          BY <3>1, <4>1, <4>4, <4>5, <5>2
        <5> QED
          BY <3>1, <3>2, <4>1, <4>3, <4>8, <5>1, <5>2, <5>3
      <4> QED
        BY <1>2, <4>6, <4>7, <4>8
    <3> QED
      BY <3>3, <3>4
  <2> QED
    BY <1>0, <1>2, <2>2, <2>3, <2>4 DEF CallInv
<1>10. ASSUME NEW u \in Types, events[u] # None
       PROVE  /\ events'[u] = events[u]
              /\ \A k \in Names : counter[k][events[u]] <= counter'[k][events[u]]
  <2>1. events[u] \in Calls /\ \A k \in Names : counter[k][events[u]] \in Nat
    BY <1>0, <1>10, NowType
  <2>2. ASSUME NEW k \in Names
        PROVE  counter[k][events[u]] <= counter'[k][events[u]]
    <3>1. CASE k # Order[j] \/ events[u] # s
      BY <1>7, <2>1, <3>1
    <3>2. CASE k = Order[j] /\ events[u] = s
      BY <1>7, <2>1, <3>2
    <3> QED
      BY <3>1, <3>2
  <2> QED
    BY <1>2, <2>2
<1> QED
  BY <1>2, <1>8, <1>9, <1>10, CallFrame

-----------------------------------------------------------------------------
(* MetricsHandler.                                                         *)

(* What remains to be shown of a step of a scrape. *)
LEMMA ScrapeFrame ==
  ASSUME IInv, TypeOK', PageInv', UNCHANGED <<connVars, callVars>>
  PROVE  IInv'
BY DEF IInv, ConnInv, CallInv, Done, connVars, callVars

(* A step that loads no line, and ends the scrape only after all of them. *)
LEMMA LinesKept ==
  ASSUME TypeOK, PageInv, UNCHANGED <<callVars, last>>, shown'.line = shown.line,
         scraper' = "idle" =>
           \A t \in Types : events[t] # None => Len(shown.line[t]) = 4
  PROVE  \A t \in Types : LinesInv(t)'
<1> SUFFICES ASSUME NEW t \in Types PROVE LinesInv(t)'
  OBVIOUS
<1>1. LinesInv(t)
  BY DEF PageInv
<1>2. last' = last /\ events' = events /\ counter' = counter
  BY DEF callVars
<1>3. \A i \in 1..4 : Now(t, i)' = Now(t, i)
  BY <1>2 DEF Now
<1>4. Len(last.line[t]) = 4 => events[t] # None
  BY <1>1 DEF LinesInv
<1>5. scraper' = "idle" /\ Len(last.line[t]) = 4 => Len(shown.line[t]) = 4
  BY <1>4
<1> QED
  BY <1>1, <1>2, <1>3, <1>5 DEF LinesInv

LEMMA BeginScrapeInv ==
  ASSUME IInv, BeginScrape
  PROVE  IInv'
<1>0. TypeOK /\ PageInv
  BY DEF IInv
<1>1. /\ scraped < MaxScrapes /\ scraped' = scraped + 1
      /\ scraper = "idle" /\ scraper' = "active"
      /\ last' = shown /\ shown' = Empty
      /\ UNCHANGED <<connVars, callVars>>
  BY DEF BeginScrape, ScrapeStep
<1>2. scraped' \in 0..MaxScrapes /\ shown' \in Page /\ last' \in Page
  BY <1>0, <1>1, PageParts, MetricsAssumption DEF TypeOK
<1>3. TypeOK'
  BY <1>0, <1>1, <1>2 DEF TypeOK, connVars, callVars
<1>4. ASSUME NEW t \in Types
      PROVE  LinesInv(t)'
  <2>1. LinesInv(t)
    BY <1>0 DEF PageInv
  <2>2. Empty.line[t] = <<>> /\ Len(<<>>) = 0
    BY DEF Empty
  <2>3. events' = events /\ counter' = counter
    BY <1>1 DEF callVars
  <2>4. \A i \in 1..4 : Now(t, i)' = Now(t, i)
    BY <2>3 DEF Now
  <2> QED
    BY <1>1, <2>1, <2>2, <2>3, <2>4 DEF LinesInv
<1>5. PageInv'
  <2>1. Empty.total = 0 /\ Empty.active = 0 /\ connectionsTotal \in Nat
    BY <1>0 DEF Empty, TypeOK
  <2> QED
    BY <1>0, <1>1, <1>4, <2>1 DEF PageInv, connVars
<1> QED
  BY <1>1, <1>3, <1>5, ScrapeFrame

LEMMA LoadActiveInv ==
  ASSUME IInv, LoadActive
  PROVE  IInv'
<1>0. TypeOK /\ ConnInv /\ PageInv
  BY DEF IInv
<1>1. /\ scraper = "active" /\ scraper' = "total"
      /\ shown' = [shown EXCEPT !.active = connectionsActive]
      /\ UNCHANGED <<scraped, last, connVars, callVars>>
  BY DEF LoadActive, ScrapeStep
<1>2. shown \in Page /\ connectionsActive \in Nat
  BY <1>0 DEF TypeOK
<1>3. /\ shown' \in Page /\ shown'.active = connectionsActive
      /\ shown'.total = shown.total /\ shown'.line = shown.line
  BY <1>1, <1>2 DEF Page
<1>4. TypeOK'
  BY <1>0, <1>1, <1>3 DEF TypeOK, connVars, callVars
<1>5. connectionsActive <= connectionsTotal
  <2> DEFINE Opened == {d \in Conns : conn[d] # "new"}
             Live == {d \in Conns : conn[d] = "open"}
  <2>1. IsFiniteSet(Opened) /\ Live \in SUBSET Opened
    BY ConnFinite
  <2>2. Cardinality(Live) <= Cardinality(Opened)
    BY <2>1, FS_Subset
  <2> QED
    BY <1>0, <2>2 DEF ConnInv
<1>6. \A t \in Types : LinesInv(t)'
  BY <1>0, <1>1, <1>3, LinesKept
<1>7. PageInv'
  BY <1>0, <1>1, <1>3, <1>5, <1>6 DEF PageInv, connVars
<1> QED
  BY <1>1, <1>4, <1>7, ScrapeFrame

LEMMA LoadTotalInv ==
  ASSUME IInv, LoadTotal
  PROVE  IInv'
<1>0. TypeOK /\ PageInv
  BY DEF IInv
<1>1. /\ scraper = "total" /\ scraper' = "events"
      /\ shown' = [shown EXCEPT !.total = connectionsTotal]
      /\ UNCHANGED <<scraped, last, connVars, callVars>>
  BY DEF LoadTotal, ScrapeStep
<1>2. shown \in Page /\ connectionsTotal \in Nat
  BY <1>0 DEF TypeOK
<1>3. /\ shown' \in Page /\ shown'.total = connectionsTotal
      /\ shown'.active = shown.active /\ shown'.line = shown.line
  BY <1>1, <1>2 DEF Page
<1>4. TypeOK'
  BY <1>0, <1>1, <1>3 DEF TypeOK, connVars, callVars
<1>5. \A t \in Types : LinesInv(t)'
  BY <1>0, <1>1, <1>3, LinesKept
<1>6. PageInv'
  BY <1>0, <1>1, <1>2, <1>3, <1>5 DEF PageInv, connVars
<1> QED
  BY <1>1, <1>4, <1>6, ScrapeFrame

(* The counters of a type are in the order of the additions. *)
LEMMA InOrder ==
  ASSUME TypeOK, CallInv, NEW t \in Types, events[t] # None
  PROVE  Now(t, 2) <= Now(t, 4) /\ Now(t, 3) <= Now(t, 4)
<1>1. at \in [Calls -> 0..4]
  BY DEF TypeOK
<1>2. Done(t, 3) \in SUBSET Done(t, 1) /\ Done(t, 2) \in SUBSET Done(t, 1)
  BY <1>1 DEF Done
<1>3. /\ Cardinality(Done(t, 3)) <= Cardinality(Done(t, 1))
      /\ Cardinality(Done(t, 2)) <= Cardinality(Done(t, 1))
  BY <1>2, DoneFinite, FS_Subset
<1>4. /\ Cardinality(Done(t, 1)) \in Nat /\ Cardinality(Done(t, 2)) \in Nat
      /\ Cardinality(Done(t, 3)) \in Nat
  BY DoneFinite
<1>5. /\ counter["executions"][events[t]] = Cardinality(Done(t, 1))
      /\ counter["durationMs"][events[t]] = Cardinality(Done(t, 2))
      /\ counter["errors"][events[t]] <= Cardinality(Done(t, 3))
  BY DEF CallInv
<1>6. counter["errors"][events[t]] \in Nat
  BY NowType DEF Names
<1> QED
  BY <1>3, <1>4, <1>5, <1>6, LinesParts DEF Now

LEMMA LoadLineInv ==
  ASSUME IInv, NEW t \in Types, LoadLine(t)
  PROVE  IInv'
<1> DEFINE new == shown.line[t]
           old == last.line[t]
           i == Len(new) + 1
           v == Now(t, i)
<1>0. TypeOK /\ CallInv /\ PageInv
  BY DEF IInv
<1>1. /\ scraper = "events" /\ events[t] # None /\ i \in 1..4
      /\ shown' = [shown EXCEPT !.line[t] = Append(@, v)]
      /\ UNCHANGED <<scraper, scraped, last, connVars, callVars>>
  BY LinesParts DEF LoadLine, Now
<1>2. shown \in Page /\ new \in Seq(Nat) /\ Len(new) \in Nat
      /\ last \in Page /\ old \in Seq(Nat) /\ Len(old) \in Nat
  BY <1>0, PageParts DEF TypeOK
<1>3. \A k \in 1..4 : Now(t, k) \in Nat
  BY <1>0, <1>1, NowType
<1>4. v \in Nat
  BY <1>1, <1>3
<1> HIDE DEF v
<1>4a. i \in 1..4 /\ Len(new) = i - 1
  <2>1. Len(new) \in Nat
    BY <1>2
  <2> HIDE DEF new
  <2> QED
    BY <1>1, <2>1
<1>5. Append(new, v) \in Seq(Nat)
  BY <1>2, <1>4
<1>6. /\ shown' \in Page /\ shown'.line[t] = Append(new, v)
      /\ \A u \in Types \ {t} : shown'.line[u] = shown.line[u]
      /\ shown'.active = shown.active /\ shown'.total = shown.total
  <2>1. shown.line \in [Types -> Seq(Nat)]
    BY <1>2, PageParts
  <2>2. [shown.line EXCEPT ![t] = Append(new, v)] \in [Types -> Seq(Nat)]
    BY <1>5, <2>1
  <2>3. shown' = [shown EXCEPT !.line = [shown.line EXCEPT ![t] = Append(new, v)]]
    BY <1>1
  <2>4. /\ shown' \in Page
        /\ shown'.line = [shown.line EXCEPT ![t] = Append(new, v)]
        /\ shown'.active = shown.active /\ shown'.total = shown.total
    BY <1>2, <2>2, <2>3 DEF Page
  <2> QED
    BY <2>1, <2>4
<1>7. TypeOK'
  BY <1>0, <1>1, <1>6 DEF TypeOK, connVars, callVars
<1>8. ASSUME NEW u \in Types
      PROVE  LinesInv(u)'
  <2>1. LinesInv(u) /\ LinesInv(t)
    BY <1>0 DEF PageInv
  <2>2. events' = events /\ counter' = counter /\ last' = last /\ scraper' = "events"
    BY <1>1 DEF callVars
  <2>3. \A k \in 1..4 : Now(u, k)' = Now(u, k) /\ Now(t, k)' = Now(t, k)
    BY <2>2 DEF Now
  <2>4. CASE u # t
    BY <1>6, <2>1, <2>2, <2>3, <2>4 DEF LinesInv
  <2>5. CASE u = t
    <3> DEFINE app == Append(new, v)
    <3>1. /\ Len(app) = i /\ app[i] = v
          /\ \A k \in 1..4 : k < i => app[k] = new[k]
      BY <1>2, <1>4
    <3> HIDE DEF app, i
    <3>2. Len(old) <= 4 /\ i <= 4 /\ i > 0
      BY <1>4a, <2>1 DEF LinesInv
    <3>3. ASSUME NEW k \in 1..4
          PROVE  /\ k <= i => app[k] <= Now(t, k)
                 /\ k <= Len(old) => old[k] <= Now(t, k)
                 /\ k <= i /\ k <= Len(old) => old[k] <= app[k]
      <4>1. /\ k <= Len(new) => new[k] <= Now(t, k)
            /\ k <= Len(old) => old[k] <= Now(t, k)
            /\ k <= Len(new) /\ k <= Len(old) => old[k] <= new[k]
        BY <2>1 DEF LinesInv
      <4>2. Now(t, k) \in Nat
        BY <1>3
      <4>3. CASE k < i
        <5>1. k <= Len(new) /\ app[k] = new[k]
          BY <1>4a, <3>1, <4>3
        <5> HIDE DEF new, old
        <5> QED
          BY <4>1, <5>1
      <4>4. CASE k = i
        <5>1. app[k] = Now(t, k)
          BY <3>1, <4>4 DEF v
        <5> HIDE DEF new, old
        <5> QED
          BY <4>1, <4>2, <5>1
      <4>5. CASE k > i
        <5> HIDE DEF new, old
        <5> QED
          BY <1>4a, <4>1, <4>5
      <4> QED
        BY <1>4a, <4>3, <4>4, <4>5
    <3>4. i = 4 => app[2] <= app[4] /\ app[3] <= app[4]
      <4> SUFFICES ASSUME i = 4 PROVE app[2] <= app[4] /\ app[3] <= app[4]
        OBVIOUS
      <4>1. Len(new) = 3
        BY <1>4a
      <4>2. new[2] \in Nat /\ new[3] \in Nat
        BY <1>2, <4>1, ElementOfSeq
      <4>3. new[2] <= Now(t, 2) /\ new[3] <= Now(t, 3)
        BY <2>1, <4>1 DEF LinesInv
      <4>4. app[2] = new[2] /\ app[3] = new[3] /\ app[4] = Now(t, 4)
        BY <3>1 DEF v
      <4>5. Now(t, 2) <= Now(t, 4) /\ Now(t, 3) <= Now(t, 4)
        BY <1>0, <1>1, InOrder
      <4>6. Now(t, 2) \in Nat /\ Now(t, 3) \in Nat /\ Now(t, 4) \in Nat
        BY <1>3
      <4> HIDE DEF new
      <4> QED
        BY <4>2, <4>3, <4>4, <4>5, <4>6
    <3>5. shown'.line[t] = app
      BY <1>6 DEF app
    <3> QED
      BY <1>1, <2>2, <2>3, <2>5, <3>1, <3>2, <3>3, <3>4, <3>5 DEF LinesInv
  <2> QED
    BY <2>4, <2>5
<1>9. PageInv'
  BY <1>0, <1>1, <1>6, <1>8 DEF PageInv, connVars
<1> QED
  BY <1>1, <1>7, <1>9, ScrapeFrame

LEMMA EndScrapeInv ==
  ASSUME IInv, EndScrape
  PROVE  IInv'
<1>0. TypeOK /\ PageInv
  BY DEF IInv
<1>1. /\ scraper = "events" /\ scraper' = "idle"
      /\ \A t \in Types : events[t] # None => Len(shown.line[t]) = 4
      /\ UNCHANGED <<scraped, shown, last, connVars, callVars>>
  BY LinesParts DEF EndScrape, ScrapeStep, Complete
<1>2. TypeOK'
  BY <1>0, <1>1 DEF TypeOK, connVars, callVars
<1>3. \A t \in Types : LinesInv(t)'
  BY <1>0, <1>1, LinesKept
<1>4. PageInv'
  BY <1>0, <1>1, <1>3 DEF PageInv, connVars
<1> QED
  BY <1>1, <1>2, <1>4, ScrapeFrame

LEMMA StutterInv ==
  ASSUME IInv, UNCHANGED vars
  PROVE  IInv'
<1>1. UNCHANGED <<connVars, callVars, scrapeVars>>
  BY DEF vars
<1>2. TypeOK'
  BY <1>1 DEF IInv, TypeOK, connVars, callVars, scrapeVars
<1>3. PageInv'
  BY <1>1 DEF IInv, PageInv, LinesInv, Now, connVars, callVars, scrapeVars
<1> QED
  BY <1>1, <1>2, <1>3, ScrapeFrame

-----------------------------------------------------------------------------
LEMMA StepInv == IInv /\ [Next]_vars => IInv'
<1> SUFFICES ASSUME IInv, [Next]_vars PROVE IInv'
  OBVIOUS
<1>1. ASSUME NEW c \in Conns, ConnNext(c)
      PROVE  IInv'
  BY <1>1, OpenInv, CloseInv DEF ConnNext
<1>2. ASSUME NEW c \in Calls, CallNext(c)
      PROVE  IInv'
  BY <1>2, LookInv, InsertInv, AddInv DEF CallNext
<1>3. ASSUME ScrapeNext
      PROVE  IInv'
  BY <1>3, BeginScrapeInv, LoadActiveInv, LoadTotalInv, LoadLineInv, EndScrapeInv
     DEF ScrapeNext
<1> QED
  BY <1>1, <1>2, <1>3, StutterInv DEF Next

(* However connections, executions and scrapes interleave. *)
THEOREM Invariance == Spec => []IInv
BY InitInv, StepInv, PTL DEF Spec

(* The variables keep their types: the gauge of open connections is never  *)
(* negative (observability.go). *)
THEOREM TypeCorrect == Spec => []TypeOK
<1>1. IInv => TypeOK
  BY DEF IInv
<1> QED
  BY <1>1, Invariance, PTL

(* Two first calls of a type never count in two eventStats                 *)
(* (observability.go, statsForEvent). *)
THEOREM EveryExecutionCounts == Spec => []NoExecutionForgotten
<1>1. IInv => NoExecutionForgotten
  BY DEF IInv, CallInv, Done, NoExecutionForgotten
<1> QED
  BY <1>1, Invariance, PTL

(* A page is in order, whatever is added while it is loaded                *)
(* (observability.go, MetricsHandler). *)
THEOREM PagesAreConsistent == Spec => []PageIsConsistent
<1>1. IInv => PageIsConsistent
  <2> SUFFICES ASSUME IInv, scraper = "idle"
               PROVE  /\ shown.active <= shown.total
                      /\ \A t \in Types : Len(shown.line[t]) = 4 =>
                           /\ shown.line[t][2] <= shown.line[t][4]
                           /\ shown.line[t][3] <= shown.line[t][4]
    BY LinesParts DEF PageIsConsistent, Complete
  <2> QED
    BY DEF IInv, PageInv, LinesInv
<1> QED
  BY <1>1, Invariance, PTL

(* Between two pages no counter shrinks (observability.go, MetricsHandler). *)
THEOREM CountersOnlyGrow == Spec => []CountersGrow
<1>1. IInv => CountersGrow
  <2> SUFFICES ASSUME IInv, scraper = "idle"
               PROVE  /\ last.total <= shown.total
                      /\ \A t \in Types : Len(last.line[t]) = 4 =>
                           /\ Len(shown.line[t]) = 4
                           /\ \A i \in 1..4 : last.line[t][i] <= shown.line[t][i]
    BY LinesParts DEF CountersGrow, Complete
  <2> QED
    BY DEF IInv, PageInv, LinesInv
<1> QED
  BY <1>1, Invariance, PTL
=============================================================================
