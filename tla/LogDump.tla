------------------------------- MODULE LogDump -------------------------------
(***************************************************************************)
(* Instance logging in one server process: the files of internal/logger    *)
(* in /tmp/cloudramp/logs, one for each instance, and OnLogDump of         *)
(* internal/firestore, which sends them to Firestore and removes them,     *)
(* from a ticker and, on shutdown, from Start.                             *)
(*                                                                         *)
(* A step is one critical section of the logger's mutex or one operation   *)
(* on a file or on Firestore.  Each goroutine logs one line, and a file is *)
(* named by the goroutine that creates it.                                 *)
(***************************************************************************)
EXTENDS Naturals, FiniteSets

CONSTANTS
  Lines,      \* the lines ever logged, and the goroutines that log them
  Instances,  \* the instance ids
  InstanceOf, \* the instance a line is about
  Order,      \* the place of an instance id in the lexical order
  Refused,    \* those whose file name OnLogDump refuses: "unknown", "a.b"
  Dumpers,    \* the goroutines that call OnLogDump
  Ticker,     \* the one of them that does so for ever, init's
  MaxFailures,\* bound on the calls of Firestore and of os that fail
  None        \* an absent file or entry

ASSUME LogAssumption ==
  /\ InstanceOf \in [Lines -> Instances]
  /\ Order \in [Instances -> Nat]
  /\ \A i, j \in Instances : Order[i] = Order[j] => i = j
  /\ Refused \subseteq Instances
  /\ Ticker \in Dumpers /\ IsFiniteSet(Dumpers)
  /\ MaxFailures \in Nat
  /\ None \notin Lines

VARIABLES
  file,       \* instance -> the file of that name in the directory
  content,    \* file, removed or not -> its lines
  loggers,    \* instance -> the file its logger writes to
  pc,         \* line -> where its goroutine is
  fd,         \* line -> the file of the logger getLogger returned
  dpc,        \* dumper -> where it is
  todo,       \* dumper -> the directory entries WalkDir has yet to visit
  contents,   \* dumper -> what it has read
  copies,     \* line -> the number of documents in Firestore with it
  failures    \* number of calls that failed

fileVars == <<file, content, loggers>>
lineVars == <<pc, fd>>
dumpVars == <<dpc, todo, contents>>
vars == <<fileVars, lineVars, dumpVars, copies, failures>>

Ptr == Lines \cup {None}

(* Type invariant. *)
TypeOK ==
  /\ file \in [Instances -> Ptr]
  /\ content \in [Lines -> SUBSET Lines]
  /\ loggers \in [Instances -> Ptr]
  /\ pc \in [Lines -> {"new", "write", "done"}]
  /\ fd \in [Lines -> Ptr]
  /\ dpc \in [Dumpers -> {"idle", "walk", "add", "remove"}]
  /\ todo \in [Dumpers -> SUBSET Instances]
  /\ contents \in [Dumpers -> SUBSET Lines]
  /\ copies \in [Lines -> Nat]
  /\ failures \in Nat

Init ==
  /\ file = [i \in Instances |-> None]
  /\ content = [f \in Lines |-> {}]
  /\ loggers = [i \in Instances |-> None]
  /\ pc = [l \in Lines |-> "new"]
  /\ fd = [l \in Lines |-> None]
  /\ dpc = [d \in Dumpers |-> "idle"]
  /\ todo = [d \in Dumpers |-> {}]
  /\ contents = [d \in Dumpers |-> {}]
  /\ copies = [l \in Lines |-> 0]
  /\ failures = 0

Fail == failures < MaxFailures /\ failures' = failures + 1

-----------------------------------------------------------------------------
(* Logging.                                                                *)

(* getLogger under mu: the instance's logger, or a new one that appends to *)
(* its file, which is created if need be; standard error if that fails.    *)
GetLogger(l) ==
  /\ pc[l] = "new"
  /\ LET i == InstanceOf[l]
         f == IF loggers[i] # None THEN loggers[i]
              ELSE IF file[i] # None THEN file[i] ELSE l
     IN  \/ /\ fd' = [fd EXCEPT ![l] = f]
            /\ loggers' = [loggers EXCEPT ![i] = f]
            /\ file' = IF loggers[i] = None THEN [file EXCEPT ![i] = f] ELSE file
            /\ pc' = [pc EXCEPT ![l] = "write"]
            /\ UNCHANGED failures
         \/ /\ loggers[i] = None /\ Fail
            /\ pc' = [pc EXCEPT ![l] = "done"]
            /\ UNCHANGED <<fd, loggers, file>>
  /\ UNCHANGED <<content, dumpVars, copies>>

(* The logger appends to its file, mu being free. *)
Write(l) ==
  /\ pc[l] = "write"
  /\ content' = [content EXCEPT ![fd[l]] = @ \cup {l}]
  /\ pc' = [pc EXCEPT ![l] = "done"]
  /\ UNCHANGED <<file, loggers, fd, dumpVars, copies, failures>>

-----------------------------------------------------------------------------
(* OnLogDump.                                                              *)

(* WalkDir reads the directory before it calls the function. *)
DumpStart(d) ==
  /\ dpc[d] = "idle"
  /\ dpc' = [dpc EXCEPT ![d] = "walk"]
  /\ todo' = [todo EXCEPT ![d] = {i \in Instances : file[i] # None}]
  /\ UNCHANGED <<fileVars, lineVars, contents, copies, failures>>

(* The first error ends the walk. *)
Stop(d) ==
  /\ dpc' = [dpc EXCEPT ![d] = "idle"]
  /\ todo' = [todo EXCEPT ![d] = {}]
  /\ contents' = [contents EXCEPT ![d] = {}]

(* Mutant: the name of the file is sent, not its contents. *)
NameOf(i) == {i}
ReadFile(i) == content[file[i]]

(* The entry that the walk visits. *)
IsFirst(d, i) == i \in todo[d] /\ \A j \in todo[d] : Order[i] <= Order[j]

(* The name is checked and the file read, if it is still there. *)
DumpRead(d) ==
  /\ dpc[d] = "walk"
  /\ \E i \in Instances :
       /\ IsFirst(d, i)
       /\ \/ /\ i \in Refused \/ file[i] = None
             /\ Stop(d)
          \/ /\ i \notin Refused /\ file[i] # None
             /\ contents' = [contents EXCEPT ![d] = ReadFile(i)]
             /\ dpc' = [dpc EXCEPT ![d] = "add"]
             /\ UNCHANGED todo
  /\ UNCHANGED <<fileVars, lineVars, copies, failures>>

Sent(d) == [l \in Lines |-> copies[l] + IF l \in contents[d] THEN 1 ELSE 0]

(* Firestore adds a document, *)
DumpAdd(d) ==
  /\ dpc[d] = "add"
  /\ copies' = Sent(d)
  /\ dpc' = [dpc EXCEPT ![d] = "remove"]
  /\ UNCHANGED <<fileVars, lineVars, todo, contents, failures>>

(* Mutant: the error is not returned, and the dump goes on. *)
IgnoreError(d) ==
  dpc' = [dpc EXCEPT ![d] = "remove"] /\ UNCHANGED <<todo, contents>>
ReturnError(d) == Stop(d)

(* or returns an error, having done so or not (a timeout). *)
DumpFails(d) ==
  /\ dpc[d] = "add"
  /\ Fail
  /\ copies' \in {copies, Sent(d)}
  /\ ReturnError(d)
  /\ UNCHANGED <<fileVars, lineVars>>

(* Mutants: the logger stays in the map, or the file in the directory. *)
KeepLogger(i) == UNCHANGED loggers
ForgetLogger(i) == loggers' = [loggers EXCEPT ![i] = None]
KeepFile(i) == UNCHANGED file
RemoveFile(i) == file' = [file EXCEPT ![i] = None]

(* RemoveLogger under mu: forget the logger, then remove the file. *)
DumpRemove(d) ==
  /\ dpc[d] = "remove"
  /\ \E i \in Instances :
       /\ IsFirst(d, i)
       /\ ForgetLogger(i) /\ RemoveFile(i)
       /\ \/ file[i] = None /\ Stop(d)
          \/ /\ file[i] # None
             /\ todo' = [todo EXCEPT ![d] = @ \ {i}]
             /\ contents' = [contents EXCEPT ![d] = {}]
             /\ dpc' = [dpc EXCEPT ![d] = "walk"]
  /\ UNCHANGED <<content, lineVars, copies, failures>>

(* The file stays where os.Remove fails, but the logger is forgotten. *)
RemoveFails(d) ==
  /\ dpc[d] = "remove"
  /\ Fail
  /\ \E i \in Instances : IsFirst(d, i) /\ file[i] # None /\ ForgetLogger(i)
  /\ Stop(d)
  /\ UNCHANGED <<file, content, lineVars, copies>>

DumpEnd(d) ==
  /\ dpc[d] = "walk" /\ todo[d] = {}
  /\ Stop(d)
  /\ UNCHANGED <<fileVars, lineVars, copies, failures>>

-----------------------------------------------------------------------------
DumpStep(d) ==
  \/ DumpRead(d)
  \/ DumpAdd(d)
  \/ DumpFails(d)
  \/ DumpRemove(d)
  \/ RemoveFails(d)
  \/ DumpEnd(d)

Next ==
  \/ \E l \in Lines : GetLogger(l) \/ Write(l)
  \/ \E d \in Dumpers : DumpStart(d) \/ DumpStep(d)

Spec == Init /\ [][Next]_vars

(* A dump goes on once it has begun, since Firestore answers or times out. *)
(* The ticker never stops.                                                 *)
Fairness ==
  /\ \A d \in Dumpers : WF_vars(DumpStep(d))
  /\ WF_vars(DumpStart(Ticker))

FairSpec == Spec /\ Fairness

-----------------------------------------------------------------------------
(* Properties.                                                             *)

(* A logger handed out by getLogger writes to the file that OnLogDump will *)
(* read, not to one that was removed, even when two dumps overlap.         *)
LoggersWriteToTheFile ==
  \A i \in Instances : loggers[i] # None => loggers[i] = file[i]

(* A line is in Firestore at most once for each goroutine that dumps and   *)
(* each call that failed, however often the dumps come and overlap: a file *)
(* that has been sent is gone before its goroutine walks again, unless a   *)
(* failure kept it, and does not come back.                                *)
SentOnceByEach ==
  \A l \in Lines : copies[l] <= Cardinality(Dumpers) + failures

(* The walk of some dump has got to the file and not past it. *)
InHand(i) == \E d \in Dumpers : dpc[d] \in {"add", "remove"} /\ IsFirst(d, i)

(* A refused file comes before it in the walk, which OnLogDump ends there. *)
BehindRefused(i) ==
  \E j \in Refused : Order[j] < Order[i] /\ file[j] # None

(* "Data relevant to each instance is batched in the local filesystem.     *)
(* These files are sent to Firestore on a timeout": a line that is in its  *)
(* file is sent, and not removed unsent, though dumps overlap and some     *)
(* fail.  Not so with one written while a dump has the file in hand        *)
(* (NoLineIsLost), or behind a file that OnLogDump refuses.                *)
EveryLineIsSent ==
  \A l \in Lines : LET i == InstanceOf[l] IN
    (i \notin Refused /\ file[i] # None /\ l \in content[file[i]] /\ ~InHand(i))
      ~> (copies[l] > 0 \/ BehindRefused(i))

(* The same quotation, of every file OnLogDump accepts.  VIOLATED by one   *)
(* that comes after a refused one.                                         *)
EveryFileIsSent ==
  \A i \in Instances \ Refused : file[i] # None ~> file[i] = None

(* "Data relevant to each instance is batched in the local filesystem.     *)
(* These files are sent to Firestore": a line written to a file is in      *)
(* Firestore or in a file that is still there.                             *)
NoLineIsLost ==
  \A l \in Lines :
    (pc[l] = "done" /\ fd[l] # None) =>
      copies[l] > 0 \/ \E i \in Instances : file[i] = fd[l]
=============================================================================
