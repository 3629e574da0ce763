------------------------------- MODULE Metrics -------------------------------
(***************************************************************************)
(* internal/observability: counters that goroutines add to without a lock, *)
(* and a scrape, MetricsHandler, that loads them one after the other.      *)
(* A step is one atomic operation or one critical section of eventMu; the  *)
(* scrape keeps eventMu for reading while it loads the counters of events. *)
(*                                                                         *)
(* Counters that are added to and loaded alone (messages, bytes, rejects,  *)
(* ...) are left out.  A duration counts as 1, so durationMs is the number *)
(* of executions in the sum.                                               *)
(***************************************************************************)
EXTENDS Naturals, Sequences, FiniteSets

CONSTANTS
  Conns,       \* the connections that are opened and closed
  Calls,       \* the calls of SandboxExecution, which also name the
               \* eventStats they allocate
  EventType,   \* the event type of a call
  MaxScrapes,  \* bound on the scrapes
  None         \* no entry in events

ASSUME MetricsAssumption ==
  /\ None \notin Calls /\ MaxScrapes \in Nat
  /\ IsFiniteSet(Conns) /\ IsFiniteSet(Calls)

Types == {EventType[c] : c \in Calls}

(* Mutant: an error is counted before its execution. *)
OrderErrorFirst == <<"errors", "executions", "durationMs">>
(* What SandboxExecution adds to, and what MetricsHandler loads for a type. *)
Order == <<"executions", "durationMs", "errors">>
Lines == <<"executions", "errors", "durationMs", "executions">>

VARIABLES
  connectionsTotal,
  connectionsActive,
  conn,      \* connection -> "new", "opening", "open" or "closed"
  events,    \* event type -> its eventStats
  counter,   \* name -> eventStats -> value
  stats,     \* call -> its local "stats"
  at,        \* call -> 0: statsForEvent, i: before addition i, 4: over
  insert,    \* the calls that found no entry
  scraper,   \* where the scrape is
  scraped,   \* the number of scrapes so far
  shown,     \* what the scrape has loaded
  last       \* what the scrape before it has shown

connVars == <<connectionsTotal, connectionsActive, conn>>
callVars == <<events, counter, stats, at, insert>>
scrapeVars == <<scraper, scraped, shown, last>>
vars == <<connVars, callVars, scrapeVars>>

(* A page of metrics; line i of a type is what Lines[i] was. *)
Page == [active : Nat, total : Nat, line : [Types -> Seq(Nat)]]
Empty == [active |-> 0, total |-> 0, line |-> [t \in Types |-> <<>>]]

(* Type invariant; the gauge is signed in the code, and never negative. *)
TypeOK ==
  /\ connectionsTotal \in Nat /\ connectionsActive \in Nat
  /\ conn \in [Conns -> {"new", "opening", "open", "closed"}]
  /\ events \in [Types -> Calls \cup {None}]
  /\ counter \in [{"executions", "durationMs", "errors"} -> [Calls -> Nat]]
  /\ stats \in [Calls -> Calls \cup {None}]
  /\ at \in [Calls -> 0..4] /\ insert \subseteq Calls
  /\ scraper \in {"idle", "active", "total", "events"}
  /\ scraped \in 0..MaxScrapes
  /\ shown \in Page /\ last \in Page

Init ==
  /\ connectionsTotal = 0 /\ connectionsActive = 0
  /\ conn = [c \in Conns |-> "new"]
  /\ events = [t \in Types |-> None]
  /\ counter = [k \in {"executions", "durationMs", "errors"} |->
                  [s \in Calls |-> 0]]
  /\ stats = [c \in Calls |-> None]
  /\ at = [c \in Calls |-> 0] /\ insert = {}
  /\ scraper = "idle" /\ scraped = 0
  /\ shown = Empty /\ last = Empty

-----------------------------------------------------------------------------
(* ConnectionOpened, in two steps, and ConnectionClosed.                   *)

ConnStep(c, from, to) == conn[c] = from /\ conn' = [conn EXCEPT ![c] = to]

Open(c) ==
  /\ \/ /\ ConnStep(c, "new", "opening")
        /\ connectionsTotal' = connectionsTotal + 1
        /\ UNCHANGED connectionsActive
     \/ /\ ConnStep(c, "opening", "open")
        /\ connectionsActive' = connectionsActive + 1
        /\ UNCHANGED connectionsTotal
  /\ UNCHANGED <<callVars, scrapeVars>>

(* Mutant: the cleanup is started before ConnectionOpened. *)
MayCloseEarly(c) == conn[c] \in {"opening", "open"}
MayClose(c) == conn[c] = "open"

Close(c) ==
  /\ MayClose(c) /\ conn' = [conn EXCEPT ![c] = "closed"]
  /\ connectionsActive' = connectionsActive - 1
  /\ UNCHANGED <<connectionsTotal, callVars, scrapeVars>>

-----------------------------------------------------------------------------
(* SandboxExecution.                                                       *)

Use(c, s) ==
  /\ stats' = [stats EXCEPT ![c] = s]
  /\ at' = [at EXCEPT ![c] = 1]

(* statsForEvent under RLock. *)
Look(c) ==
  LET s == events[EventType[c]]
  IN  /\ at[c] = 0 /\ c \notin insert
      /\ \/ s # None /\ Use(c, s) /\ UNCHANGED insert
         \/ s = None /\ insert' = insert \cup {c} /\ UNCHANGED <<stats, at>>
      /\ UNCHANGED <<events, counter, connVars, scrapeVars>>

(* Mutant: always a new eventStats. *)
AlwaysNew(c) == c
(* The entry another call has inserted meanwhile, or a new one. *)
Relook(c) == IF events[EventType[c]] = None THEN c ELSE events[EventType[c]]

(* statsForEvent under Lock, which waits for a scrape. *)
Insert(c) ==
  /\ at[c] = 0 /\ c \in insert
  /\ scraper # "events"
  /\ events' = [events EXCEPT ![EventType[c]] = Relook(c)]
  /\ Use(c, Relook(c))
  /\ UNCHANGED <<counter, insert, connVars, scrapeVars>>

(* One of the three additions; the error only if there was one. *)
Add(c) ==
  /\ at[c] \in DOMAIN Order
  /\ at' = [at EXCEPT ![c] = @ + 1]
  /\ \/ counter' = [counter EXCEPT ![Order[at[c]]][stats[c]] = @ + 1]
     \/ Order[at[c]] = "errors" /\ UNCHANGED counter
  /\ UNCHANGED <<events, stats, insert, connVars, scrapeVars>>

-----------------------------------------------------------------------------
(* MetricsHandler.                                                         *)

ScrapeStep(from, to) == scraper = from /\ scraper' = to

BeginScrape ==
  /\ scraped < MaxScrapes /\ scraped' = scraped + 1
  /\ ScrapeStep("idle", "active")
  /\ last' = shown /\ shown' = Empty
  /\ UNCHANGED <<connVars, callVars>>

LoadActive ==
  /\ ScrapeStep("active", "total")
  /\ shown' = [shown EXCEPT !.active = connectionsActive]
  /\ UNCHANGED <<scraped, last, connVars, callVars>>

(* The total, then eventMu.RLock. *)
LoadTotal ==
  /\ ScrapeStep("total", "events")
  /\ shown' = [shown EXCEPT !.total = connectionsTotal]
  /\ UNCHANGED <<scraped, last, connVars, callVars>>

(* The next line of an event type; the types are independent and loaded in *)
(* any order. *)
LoadLine(t) ==
  LET i == Len(shown.line[t]) + 1
  IN  /\ scraper = "events"
      /\ events[t] # None /\ i \in DOMAIN Lines
      /\ shown' =
           [shown EXCEPT !.line[t] = Append(@, counter[Lines[i]][events[t]])]
      /\ UNCHANGED <<scraper, scraped, last, connVars, callVars>>

Complete(page, t) == Len(page.line[t]) = Len(Lines)

(* RUnlock, and the page is written. *)
EndScrape ==
  /\ \A t \in Types : events[t] # None => Complete(shown, t)
  /\ ScrapeStep("events", "idle")
  /\ UNCHANGED <<scraped, shown, last, connVars, callVars>>

-----------------------------------------------------------------------------
ConnNext(c) == Open(c) \/ Close(c)
CallNext(c) == Look(c) \/ Insert(c) \/ Add(c)
ScrapeNext == BeginScrape \/ LoadActive \/ LoadTotal \/ EndScrape
              \/ \E t \in Types : LoadLine(t)
Next ==
  \/ \E c \in Conns : ConnNext(c)
  \/ \E c \in Calls : CallNext(c)
  \/ ScrapeNext
Spec == Init /\ [][Next]_vars

-----------------------------------------------------------------------------
(* Properties.                                                             *)

(* Every execution is in the eventStats a scrape reads: none was counted   *)
(* in one that has been replaced (observability.go:151-171).               *)
NoExecutionForgotten ==
  \A t \in Types : events[t] # None =>
    counter["executions"][events[t]] =
      Cardinality({c \in Calls : EventType[c] = t /\ at[c] > 1})

(* No page shows more open connections than were ever opened, nor, in its  *)
(* last line of a type, fewer executions than failed or than are in the    *)
(* sum of durations, whatever is added during the scrape: the order of the *)
(* additions and that of the loads fit (observability.go:39-46, 79-86,     *)
(* 92-144).                                                                *)
PageIsConsistent ==
  scraper = "idle" =>
    /\ shown.active <= shown.total
    /\ \A t \in Types : Complete(shown, t) =>
         LET line == shown.line[t] IN line[2] <= line[4] /\ line[3] <= line[4]

(* From one page to the next no counter shrinks and no type disappears, as *)
(* "# TYPE ... counter" promises (observability.go:99-144).                *)
CountersGrow ==
  scraper = "idle" =>
    /\ last.total <= shown.total
    /\ \A t \in Types : Complete(last, t) =>
         /\ Complete(shown, t)
         /\ \A i \in DOMAIN Lines : last.line[t][i] <= shown.line[t][i]

(* VIOLATED: a page never shows more errors than executions. *)
ErrorsAmongExecutions ==
  \A t \in Types : Complete(shown, t) => shown.line[t][2] <= shown.line[t][1]
=============================================================================
