---------------------------- MODULE LogDumpProof -----------------------------
(***************************************************************************)
(* Theorems about LogDump: for any lines, instances and dumping goroutines *)
(* and any failures.                                                       *)
(*                                                                         *)
(* LoggersWriteToTheFile is inductive with the types.  SentOnceByEach is   *)
(* not: it follows from SendersInv, by which each document with a line is  *)
(* paid for by a dumper that cannot send the line any more, or by a        *)
(* failure.                                                                *)
(***************************************************************************)
EXTENDS LogDump, FiniteSetTheorems, TLAPS

(* A file belongs to the instance of the goroutine that created it, and    *)
(* has the lines of those goroutines that wrote to it. *)
FileInv ==
  /\ \A l \in Lines : pc[l] = "write" => fd[l] # None
  /\ \A l \in Lines : fd[l] # None =>
       pc[l] # "new" /\ pc[fd[l]] # "new" /\ InstanceOf[fd[l]] = InstanceOf[l]
  /\ \A i \in Instances : file[i] # None =>
       pc[file[i]] # "new" /\ InstanceOf[file[i]] = i
  /\ \A f, l \in Lines : l \in content[f] => fd[l] = f

(* What a dump has in hand is about the instance it has not got past. *)
HandInv ==
  \A d \in Dumpers :
    /\ dpc[d] \in {"idle", "walk"} => contents[d] = {}
    /\ \A l \in contents[d] :
         fd[l] # None /\ \A i \in Instances : IsFirst(d, i) => InstanceOf[l] = i

(* The line is not written yet, or its file is still in the directory. *)
Waiting(l) ==
  \/ pc[l] = "new"
  \/ fd[l] # None /\ file[InstanceOf[l]] = fd[l]
(* A dumper may yet send the line. *)
Sends(d, l) ==
  \/ dpc[d] = "add" /\ l \in contents[d]
  \/ Waiting(l) /\ ~(dpc[d] = "remove" /\ l \in contents[d])
Senders(l) == {d \in Dumpers : Sends(d, l)}

SendersInv ==
  \A l \in Lines :
    copies[l] + Cardinality(Senders(l)) <= Cardinality(Dumpers) + failures

IInv ==
  /\ TypeOK /\ LoggersWriteToTheFile /\ FileInv /\ HandInv
  /\ SendersInv
-----------------------------------------------------------------------------
(* Lemmas about sets of dumpers. *)
LEMMA SendersFinite ==
  ASSUME NEW S \in SUBSET Dumpers
  PROVE  IsFiniteSet(S) /\ Cardinality(S) \in Nat
BY LogAssumption, FS_Subset, FS_CardinalityType

LEMMA FewerSenders ==
  ASSUME NEW S \in SUBSET Dumpers, NEW T \in SUBSET S
  PROVE  /\ Cardinality(T) <= Cardinality(S)
         /\ T # S => Cardinality(T) + 1 <= Cardinality(S)
<1>1. IsFiniteSet(S) /\ Cardinality(S) \in Nat /\ Cardinality(T) \in Nat
  BY SendersFinite
<1>2. Cardinality(T) <= Cardinality(S) /\ (Cardinality(S) = Cardinality(T) => S = T)
  BY <1>1, FS_Subset
<1> QED
  BY <1>1, <1>2

(* A step that makes nobody a sender and sends nothing. *)
LEMMA SendersKept ==
  ASSUME TypeOK, SendersInv, copies' = copies,
         failures' \in Nat, failures <= failures',
         \A d \in Dumpers, l \in Lines : Sends(d, l)' => Sends(d, l)
  PROVE  SendersInv'
<1> SUFFICES ASSUME NEW l \in Lines
             PROVE  copies'[l] + Cardinality(Senders(l)')
                      <= Cardinality(Dumpers) + failures'
  BY DEF SendersInv
<1>1. Senders(l)' \in SUBSET Senders(l) /\ Senders(l) \in SUBSET Dumpers
  BY DEF Senders
<1>2. Cardinality(Senders(l)') <= Cardinality(Senders(l))
  BY <1>1, FewerSenders
<1>3. copies[l] \in Nat /\ failures \in Nat /\ Cardinality(Dumpers) \in Nat
      /\ Cardinality(Senders(l)) \in Nat /\ Cardinality(Senders(l)') \in Nat
  BY <1>1, SendersFinite DEF TypeOK
<1>4. copies[l] + Cardinality(Senders(l)) <= Cardinality(Dumpers) + failures
  BY DEF SendersInv
<1> QED
  BY <1>2, <1>3, <1>4

-----------------------------------------------------------------------------
LEMMA InitInv == Init => IInv
<1> SUFFICES ASSUME Init PROVE IInv
  OBVIOUS
<1>1. TypeOK
  BY LogAssumption DEF Init, TypeOK, Ptr
<1>2. LoggersWriteToTheFile /\ FileInv /\ HandInv
  BY DEF Init, LoggersWriteToTheFile, FileInv, HandInv
<1>3. SendersInv
  <2> SUFFICES ASSUME NEW l \in Lines
               PROVE  copies[l] + Cardinality(Senders(l)) <= Cardinality(Dumpers) + failures
    BY DEF SendersInv
  <2>1. Senders(l) \in SUBSET Dumpers /\ Dumpers \in SUBSET Dumpers
    BY DEF Senders
  <2>2. /\ Cardinality(Senders(l)) <= Cardinality(Dumpers)
        /\ Cardinality(Senders(l)) \in Nat /\ Cardinality(Dumpers) \in Nat
    BY <2>1, FewerSenders, SendersFinite
  <2>3. copies[l] = 0 /\ failures = 0
    BY DEF Init
  <2> QED
    BY <2>2, <2>3
<1> QED
  BY <1>1, <1>2, <1>3 DEF IInv

-----------------------------------------------------------------------------
(* Logging.                                                                *)

LEMMA GetLoggerInv ==
  ASSUME IInv, NEW l \in Lines, GetLogger(l)
  PROVE  IInv'
<1> DEFINE i == InstanceOf[l]
           f == IF loggers[i] # None THEN loggers[i]
                ELSE IF file[i] # None THEN file[i] ELSE l
<1>0. TypeOK /\ LoggersWriteToTheFile /\ FileInv /\ HandInv /\ SendersInv
  BY DEF IInv
<1>1. i \in Instances /\ pc[l] = "new" /\ None \notin Lines /\ fd[l] = None
  BY <1>0, LogAssumption DEF GetLogger, TypeOK, FileInv, Ptr
<1>2. /\ UNCHANGED <<content, dumpVars, copies>>
      /\ pc' \in [Lines -> {"new", "write", "done"}]
      /\ pc'[l] # "new" /\ \A m \in Lines \ {l} : pc'[m] = pc[m]
      /\ \A m \in Lines \ {l} : fd'[m] = fd[m]
      /\ failures' \in Nat /\ failures <= failures'
  BY <1>0, <1>1 DEF GetLogger, TypeOK, Fail
<1>3. CASE /\ fd' = [fd EXCEPT ![l] = f]
           /\ loggers' = [loggers EXCEPT ![i] = f]
           /\ file' = IF loggers[i] = None THEN [file EXCEPT ![i] = f] ELSE file
           /\ pc' = [pc EXCEPT ![l] = "write"]
  <2>1. f \in Lines /\ f # None
    BY <1>0, <1>1 DEF TypeOK, Ptr
  <2>2. f = l \/ file[i] = f
    BY <1>0, <1>1 DEF LoggersWriteToTheFile
  <2>3. /\ InstanceOf[f] = i
        /\ f = l \/ pc[f] # "new"
    BY <1>0, <1>1, <2>1, <2>2 DEF FileInv
  <2>4. /\ file \in [Instances -> Ptr] /\ loggers \in [Instances -> Ptr]
        /\ fd \in [Lines -> Ptr]
    BY <1>0 DEF TypeOK
  <2> HIDE DEF f
  <2>5. /\ fd'[l] = f /\ loggers'[i] = f /\ pc'[l] = "write"
        /\ \A j \in Instances \ {i} : loggers'[j] = loggers[j] /\ file'[j] = file[j]
        /\ fd' \in [Lines -> Ptr] /\ loggers' \in [Instances -> Ptr]
        /\ file' \in [Instances -> Ptr]
    <3>1. f \in Ptr
      BY <2>1 DEF Ptr
    <3>2. fd'[l] = f /\ fd' \in [Lines -> Ptr]
      BY <1>3, <2>4, <3>1
    <3>3. /\ loggers'[i] = f /\ loggers' \in [Instances -> Ptr]
          /\ \A j \in Instances \ {i} : loggers'[j] = loggers[j]
      BY <1>1, <1>3, <2>4, <3>1
    <3>4. /\ file' \in [Instances -> Ptr]
          /\ \A j \in Instances \ {i} : file'[j] = file[j]
      BY <1>1, <1>3, <2>4, <3>1
    <3>5. pc'[l] = "write"
      BY <1>0, <1>3 DEF TypeOK
    <3> QED
      BY <3>2, <3>3, <3>4, <3>5
  <2>6. file'[i] = f
    <3>1. CASE loggers[i] = None
      BY <1>1, <1>3, <2>4, <3>1
    <3>2. CASE loggers[i] # None
      <4>1. f = loggers[i] /\ loggers[i] = file[i]
        BY <1>0, <1>1, <3>2 DEF LoggersWriteToTheFile, f
      <4> QED
        BY <1>3, <3>2, <4>1
    <3> QED
      BY <3>1, <3>2
  <2>7. TypeOK'
    BY <1>0, <1>2, <2>5 DEF TypeOK, dumpVars
  <2>8. LoggersWriteToTheFile'
    BY <1>0, <2>5, <2>6 DEF LoggersWriteToTheFile
  <2>9. FileInv'
    <3>1. \A m \in Lines : pc'[m] = "write" => fd'[m] # None
      BY <1>0, <1>2, <2>1, <2>5 DEF FileInv
    <3>2. pc'[f] # "new"
      BY <1>2, <2>1, <2>3
    <3>3. ASSUME NEW m \in Lines, fd'[m] # None
          PROVE  pc'[m] # "new" /\ pc'[fd'[m]] # "new"
                 /\ InstanceOf[fd'[m]] = InstanceOf[m]
      <4>1. CASE m = l
        BY <1>2, <2>3, <2>5, <3>2, <4>1
      <4>2. CASE m # l
        <5>1. fd'[m] = fd[m] /\ fd[m] \in Lines
          BY <1>2, <2>4, <3>3, <4>2 DEF Ptr
        <5> QED
          BY <1>0, <1>2, <3>3, <4>2, <5>1 DEF FileInv
      <4> QED
        BY <4>1, <4>2
    <3>4. ASSUME NEW j \in Instances, file'[j] # None
          PROVE  pc'[file'[j]] # "new" /\ InstanceOf[file'[j]] = j
      <4>1. CASE j = i
        BY <2>3, <2>6, <3>2, <4>1
      <4>2. CASE j # i
        <5>1. file'[j] = file[j] /\ file[j] \in Lines
          BY <2>4, <2>5, <3>4, <4>2 DEF Ptr
        <5> QED
          BY <1>0, <1>2, <3>4, <5>1 DEF FileInv
      <4> QED
        BY <4>1, <4>2
    <3>5. ASSUME NEW g \in Lines, NEW m \in Lines, m \in content'[g]
          PROVE  fd'[m] = g
      <4>1. fd[m] = g
        BY <1>0, <1>2, <3>5 DEF FileInv
      <4> QED
        BY <1>1, <1>2, <4>1
    <3> QED
      BY <3>1, <3>3, <3>4, <3>5 DEF FileInv
  <2>10. HandInv'
    <3>1. \A d \in Dumpers : contents[d] \subseteq Lines
      BY <1>0 DEF TypeOK
    <3>2. \A m \in Lines : fd[m] # None => fd'[m] = fd[m]
      BY <1>1, <1>2
    <3> QED
      BY <1>0, <1>2, <3>1, <3>2 DEF HandInv, IsFirst, dumpVars
  <2>11. SendersInv'
    <3> SUFFICES ASSUME NEW d \in Dumpers, NEW m \in Lines, Sends(d, m)'
                 PROVE  Sends(d, m)
      BY <1>0, <1>2, SendersKept
    <3>1. dpc' = dpc /\ contents' = contents
      BY <1>2 DEF dumpVars
    <3>2. Waiting(m)' => Waiting(m)
      <4>1. CASE m = l
        BY <1>1, <4>1 DEF Waiting
      <4>2. CASE m # l /\ pc[m] # "new"
        <5>1. pc'[m] # "new" /\ fd'[m] = fd[m]
          BY <1>2, <4>2
        <5>2. InstanceOf[m] \in Instances
          BY LogAssumption
        <5>3. CASE InstanceOf[m] # i
          BY <2>5, <5>1, <5>2, <5>3 DEF Waiting
        <5>4. CASE InstanceOf[m] = i /\ fd[m] # None
          <6>1. fd[m] \in Lines /\ pc[fd[m]] # "new"
            BY <1>0, <2>4, <5>4 DEF FileInv, Ptr
          <6>2. fd[m] = f => file[i] = f
            BY <1>1, <2>2, <6>1
          <6> QED
            BY <2>6, <5>1, <5>4, <6>2 DEF Waiting
        <5>5. CASE fd[m] = None
          BY <5>1, <5>5 DEF Waiting
        <5> QED
          BY <5>3, <5>4, <5>5
      <4>3. CASE pc[m] = "new"
        BY <4>3 DEF Waiting
      <4> QED
        BY <4>1, <4>2, <4>3
    <3> QED
      BY <3>1, <3>2 DEF Sends
  <2> QED
    BY <2>7, <2>8, <2>9, <2>10, <2>11 DEF IInv
<1>4. CASE /\ pc' = [pc EXCEPT ![l] = "done"]
           /\ UNCHANGED <<fd, loggers, file>>
  <2>1. TypeOK'
    BY <1>0, <1>2, <1>4 DEF TypeOK, dumpVars
  <2>2. LoggersWriteToTheFile'
    BY <1>0, <1>4 DEF LoggersWriteToTheFile
  <2>3. \A m \in Lines : pc[m] # "new" => pc'[m] # "new"
    BY <1>2
  <2>4. pc'[l] # "write" /\ fd \in [Lines -> Ptr] /\ file \in [Instances -> Ptr]
    BY <1>0, <1>4 DEF TypeOK
  <2>5. FileInv'
    <3>1. \A m \in Lines : pc'[m] = "write" => fd'[m] # None
      BY <1>0, <1>2, <1>4, <2>4 DEF FileInv
    <3>2. \A m \in Lines : fd'[m] # None =>
            pc'[m] # "new" /\ pc'[fd'[m]] # "new"
            /\ InstanceOf[fd'[m]] = InstanceOf[m]
      BY <1>0, <1>4, <2>3, <2>4 DEF FileInv, Ptr
    <3>3. \A j \in Instances : file'[j] # None =>
            pc'[file'[j]] # "new" /\ InstanceOf[file'[j]] = j
      BY <1>0, <1>4, <2>3, <2>4 DEF FileInv, Ptr
    <3> QED
      BY <1>0, <1>2, <1>4, <3>1, <3>2, <3>3 DEF FileInv
  <2>6. HandInv'
    BY <1>0, <1>2, <1>4 DEF HandInv, IsFirst, dumpVars
  <2>7. SendersInv'
    <3> SUFFICES ASSUME NEW d \in Dumpers, NEW m \in Lines, Sends(d, m)'
                 PROVE  Sends(d, m)
      BY <1>0, <1>2, SendersKept
    <3>1. Waiting(m)' => Waiting(m)
      BY <1>4, <2>3 DEF Waiting
    <3> QED
      BY <1>2, <3>1 DEF Sends, dumpVars
  <2> QED
    BY <2>1, <2>2, <2>5, <2>6, <2>7 DEF IInv
<1> QED
  BY <1>3, <1>4 DEF GetLogger

LEMMA WriteInv ==
  ASSUME IInv, NEW l \in Lines, Write(l)
  PROVE  IInv'
<1>0. TypeOK /\ LoggersWriteToTheFile /\ FileInv /\ HandInv /\ SendersInv
  BY DEF IInv
<1>1. pc[l] = "write" /\ fd[l] \in Lines
  BY <1>0 DEF Write, TypeOK, FileInv, Ptr
<1>2. /\ content' = [content EXCEPT ![fd[l]] = @ \cup {l}]
      /\ pc' = [pc EXCEPT ![l] = "done"]
      /\ UNCHANGED <<file, loggers, fd, dumpVars, copies, failures>>
  BY DEF Write
<1>3. TypeOK'
  BY <1>0, <1>1, <1>2 DEF TypeOK, dumpVars
<1>4. LoggersWriteToTheFile'
  BY <1>0, <1>2 DEF LoggersWriteToTheFile
<1>5. /\ \A m \in Lines : pc'[m] = "new" <=> pc[m] = "new"
      /\ \A m \in Lines : pc'[m] = "write" => pc[m] = "write"
      /\ fd \in [Lines -> Ptr] /\ file \in [Instances -> Ptr]
  BY <1>0, <1>1, <1>2 DEF TypeOK
<1>6. FileInv'
  <2>1. \A m \in Lines : pc'[m] = "write" => fd'[m] # None
    BY <1>0, <1>2, <1>5 DEF FileInv
  <2>2. \A m \in Lines : fd'[m] # None =>
          pc'[m] # "new" /\ pc'[fd'[m]] # "new"
          /\ InstanceOf[fd'[m]] = InstanceOf[m]
    BY <1>0, <1>2, <1>5 DEF FileInv, Ptr
  <2>3. \A j \in Instances : file'[j] # None =>
          pc'[file'[j]] # "new" /\ InstanceOf[file'[j]] = j
    BY <1>0, <1>2, <1>5 DEF FileInv, Ptr
  <2>4. ASSUME NEW g \in Lines, NEW m \in Lines, m \in content'[g]
        PROVE  fd'[m] = g
    <3>1. content \in [Lines -> SUBSET Lines]
      BY <1>0 DEF TypeOK
    <3>2. m \in content[g] \/ (m = l /\ g = fd[l])
      BY <1>2, <2>4, <3>1
    <3> QED
      BY <1>0, <1>2, <3>2 DEF FileInv
  <2> QED
    BY <2>1, <2>2, <2>3, <2>4 DEF FileInv
<1>7. HandInv'
  BY <1>0, <1>2 DEF HandInv, IsFirst, dumpVars
<1>8. SendersInv'
  <2> SUFFICES ASSUME NEW d \in Dumpers, NEW m \in Lines, Sends(d, m)'
               PROVE  Sends(d, m)
    BY <1>0, <1>2, SendersKept DEF TypeOK
  <2>1. Waiting(m)' => Waiting(m)
    BY <1>2, <1>5 DEF Waiting
  <2> QED
    BY <1>2, <2>1 DEF Sends, dumpVars
<1> QED
  BY <1>3, <1>4, <1>6, <1>7, <1>8 DEF IInv

-----------------------------------------------------------------------------
(* OnLogDump.                                                              *)

(* A dump leaves the lines alone, and only removes files. *)
LEMMA FilesRemoved ==
  ASSUME TypeOK, FileInv, UNCHANGED <<content, lineVars>>,
         \A i \in Instances : file'[i] = file[i] \/ file'[i] = None
  PROVE  FileInv' /\ \A l \in Lines : Waiting(l)' => Waiting(l)
<1>1. FileInv'
  BY DEF FileInv, lineVars
<1>2. ASSUME NEW l \in Lines, Waiting(l)'
      PROVE  Waiting(l)
  <2>1. InstanceOf[l] \in Instances
    BY LogAssumption
  <2>2. file'[InstanceOf[l]] = file[InstanceOf[l]] \/ file'[InstanceOf[l]] = None
    BY <2>1
  <2> QED
    BY <1>2, <2>2 DEF Waiting, lineVars
<1> QED
  BY <1>1, <1>2

(* Where a dump stops, it has nothing in hand. *)
LEMMA StopInv ==
  ASSUME TypeOK, HandInv, NEW d \in Dumpers, Stop(d), UNCHANGED fd
  PROVE  /\ HandInv'
         /\ dpc' \in [Dumpers -> {"idle", "walk", "add", "remove"}]
         /\ todo' \in [Dumpers -> SUBSET Instances]
         /\ contents' \in [Dumpers -> SUBSET Lines]
         /\ dpc'[d] = "idle" /\ contents'[d] = {}
         /\ \A e \in Dumpers \ {d} : dpc'[e] = dpc[e] /\ contents'[e] = contents[e]
<1>1. /\ dpc \in [Dumpers -> {"idle", "walk", "add", "remove"}]
      /\ todo \in [Dumpers -> SUBSET Instances]
      /\ contents \in [Dumpers -> SUBSET Lines]
  BY DEF TypeOK
<1>2. /\ dpc' \in [Dumpers -> {"idle", "walk", "add", "remove"}]
      /\ todo' \in [Dumpers -> SUBSET Instances]
      /\ contents' \in [Dumpers -> SUBSET Lines]
      /\ dpc'[d] = "idle" /\ contents'[d] = {}
      /\ \A e \in Dumpers \ {d} :
           dpc'[e] = dpc[e] /\ contents'[e] = contents[e] /\ todo'[e] = todo[e]
  BY <1>1 DEF Stop
<1>3. HandInv'
  <2> SUFFICES ASSUME NEW e \in Dumpers
               PROVE  /\ dpc'[e] \in {"idle", "walk"} => contents'[e] = {}
                      /\ \A l \in contents'[e] :
                           fd'[l] # None /\ \A i \in Instances :
                             IsFirst(e, i)' => InstanceOf[l] = i
    BY DEF HandInv
  <2>1. CASE e = d
    BY <1>2, <2>1
  <2>2. CASE e # d
    <3>1. \A i \in Instances : IsFirst(e, i)' => IsFirst(e, i)
      BY <1>2, <2>2 DEF IsFirst
    <3> QED
      BY <1>2, <2>2, <3>1 DEF HandInv
  <2> QED
    BY <2>1, <2>2
<1> QED
  BY <1>2, <1>3

LEMMA DumpStartInv ==
  ASSUME IInv, NEW d \in Dumpers, DumpStart(d)
  PROVE  IInv'
<1>0. TypeOK /\ LoggersWriteToTheFile /\ FileInv /\ HandInv /\ SendersInv
  BY DEF IInv
<1>1. /\ dpc[d] = "idle" /\ dpc' = [dpc EXCEPT ![d] = "walk"]
      /\ todo' = [todo EXCEPT ![d] = {i \in Instances : file[i] # None}]
      /\ UNCHANGED <<fileVars, lineVars, contents, copies, failures>>
  BY DEF DumpStart
<1>2. TypeOK'
  BY <1>0, <1>1 DEF TypeOK, fileVars, lineVars
<1>3. LoggersWriteToTheFile'
  BY <1>0, <1>1 DEF LoggersWriteToTheFile, fileVars
<1>4. FileInv' /\ \A l \in Lines : Waiting(l)' => Waiting(l)
  BY <1>0, <1>1, FilesRemoved DEF fileVars
<1>5. /\ dpc'[d] = "walk" /\ contents[d] = {}
      /\ \A e \in Dumpers \ {d} : dpc'[e] = dpc[e] /\ todo'[e] = todo[e]
  BY <1>0, <1>1 DEF TypeOK, HandInv
<1>6. HandInv'
  BY <1>0, <1>1, <1>5 DEF HandInv, IsFirst, lineVars
<1>7. \A e \in Dumpers, l \in Lines : Sends(e, l)' => Sends(e, l)
  BY <1>1, <1>4, <1>5 DEF Sends
<1>8. SendersInv'
  BY <1>0, <1>1, <1>7, SendersKept DEF TypeOK
<1> QED
  BY <1>2, <1>3, <1>4, <1>6, <1>8 DEF IInv

LEMMA DumpReadInv ==
  ASSUME IInv, NEW d \in Dumpers, DumpRead(d)
  PROVE  IInv'
<1>0. TypeOK /\ LoggersWriteToTheFile /\ FileInv /\ HandInv /\ SendersInv
  BY DEF IInv
<1>1. dpc[d] = "walk" /\ UNCHANGED <<fileVars, lineVars, copies, failures>>
  BY DEF DumpRead
<1>2. LoggersWriteToTheFile'
  BY <1>0, <1>1 DEF LoggersWriteToTheFile, fileVars
<1>3. FileInv' /\ \A l \in Lines : Waiting(l)' => Waiting(l)
  BY <1>0, <1>1, FilesRemoved DEF fileVars
<1>4. CASE Stop(d)
  <2>1. HandInv'
    BY <1>0, <1>1, <1>4, StopInv DEF lineVars
  <2>2. TypeOK'
    BY <1>0, <1>1, <1>4, StopInv DEF TypeOK, fileVars, lineVars
  <2>3. \A e \in Dumpers, l \in Lines : Sends(e, l)' => Sends(e, l)
    BY <1>0, <1>1, <1>3, <1>4, StopInv DEF Sends, lineVars
  <2>4. SendersInv'
    BY <1>0, <1>1, <2>3, SendersKept DEF TypeOK
  <2> QED
    BY <1>2, <1>3, <2>1, <2>2, <2>4 DEF IInv
<1>5. ASSUME NEW i \in Instances, IsFirst(d, i), file[i] # None,
             contents' = [contents EXCEPT ![d] = ReadFile(i)],
             dpc' = [dpc EXCEPT ![d] = "add"], UNCHANGED todo
      PROVE  IInv'
  <2>1. /\ dpc \in [Dumpers -> {"idle", "walk", "add", "remove"}]
        /\ contents \in [Dumpers -> SUBSET Lines]
        /\ file[i] \in Lines /\ content \in [Lines -> SUBSET Lines]
    BY <1>0, <1>5 DEF TypeOK, Ptr
  <2>2. /\ ReadFile(i) \subseteq Lines
        /\ \A l \in ReadFile(i) : fd[l] = file[i] /\ InstanceOf[l] = i
    BY <1>0, <1>5, <2>1 DEF FileInv, ReadFile
  <2>3. /\ dpc'[d] = "add" /\ contents'[d] = ReadFile(i)
        /\ \A e \in Dumpers \ {d} : dpc'[e] = dpc[e] /\ contents'[e] = contents[e]
    BY <1>5, <2>1
  <2>4. TypeOK'
    <3>1. /\ dpc' \in [Dumpers -> {"idle", "walk", "add", "remove"}]
          /\ contents' \in [Dumpers -> SUBSET Lines]
      BY <1>5, <2>1, <2>2
    <3> QED
      BY <1>0, <1>1, <1>5, <3>1 DEF TypeOK, fileVars, lineVars
  <2>5. HandInv'
    <3> SUFFICES ASSUME NEW e \in Dumpers
                 PROVE  /\ dpc'[e] \in {"idle", "walk"} => contents'[e] = {}
                        /\ \A l \in contents'[e] :
                             fd'[l] # None /\ \A j \in Instances :
                               IsFirst(e, j)' => InstanceOf[l] = j
      BY DEF HandInv
    <3>1. fd' = fd /\ \A j \in Instances : IsFirst(e, j)' => IsFirst(e, j)
      BY <1>1, <1>5 DEF IsFirst, lineVars
    <3>2. CASE e = d
      <4>1. \A j \in Instances : IsFirst(d, j) => j = i
        <5> SUFFICES ASSUME NEW j \in Instances, IsFirst(d, j)
                     PROVE  j = i
          OBVIOUS
        <5>1. Order[i] <= Order[j] /\ Order[j] <= Order[i]
          BY <1>5 DEF IsFirst
        <5> QED
          BY <5>1, LogAssumption
      <4> QED
        BY <1>5, <2>2, <2>3, <3>1, <3>2, <4>1
    <3>3. CASE e # d
      BY <1>0, <2>3, <3>1, <3>3 DEF HandInv
    <3> QED
      BY <3>2, <3>3
  <2>6. ASSUME NEW e \in Dumpers, NEW l \in Lines, Sends(e, l)'
        PROVE  Sends(e, l)
    <3>1. CASE e = d
      <4>1. l \in ReadFile(i) => Waiting(l)
        BY <1>5, <2>2 DEF Waiting
      <4> QED
        BY <1>1, <1>3, <2>3, <2>6, <3>1, <4>1 DEF Sends
    <3>2. CASE e # d
      BY <1>3, <2>3, <2>6, <3>2 DEF Sends
    <3> QED
      BY <3>1, <3>2
  <2>7. SendersInv'
    BY <1>0, <1>1, <2>6, SendersKept DEF TypeOK
  <2> QED
    BY <1>2, <1>3, <2>4, <2>5, <2>7 DEF IInv
<1> QED
  BY <1>4, <1>5 DEF DumpRead

(* What sending adds, as long as the dumper could send nothing of it later. *)
LEMMA SentType ==
  ASSUME TypeOK, NEW d \in Dumpers
  PROVE  /\ Sent(d) \in [Lines -> Nat]
         /\ \A l \in Lines : /\ l \in contents[d] => Sent(d)[l] = copies[l] + 1
                             /\ l \notin contents[d] => Sent(d)[l] = copies[l]
BY DEF TypeOK, Sent

LEMMA DumpAddInv ==
  ASSUME IInv, NEW d \in Dumpers, DumpAdd(d)
  PROVE  IInv'
<1>0. TypeOK /\ LoggersWriteToTheFile /\ FileInv /\ HandInv /\ SendersInv
  BY DEF IInv
<1>1. /\ dpc[d] = "add" /\ dpc' = [dpc EXCEPT ![d] = "remove"]
      /\ copies' = Sent(d)
      /\ UNCHANGED <<fileVars, lineVars, todo, contents, failures>>
  BY DEF DumpAdd
<1>2. TypeOK'
  BY <1>0, <1>1, SentType DEF TypeOK, fileVars, lineVars
<1>3. LoggersWriteToTheFile'
  BY <1>0, <1>1 DEF LoggersWriteToTheFile, fileVars
<1>4. FileInv' /\ \A l \in Lines : Waiting(l)' => Waiting(l)
  BY <1>0, <1>1, FilesRemoved DEF fileVars
<1>5. /\ dpc'[d] = "remove"
      /\ \A e \in Dumpers \ {d} : dpc'[e] = dpc[e]
  BY <1>0, <1>1 DEF TypeOK
<1>6. HandInv'
  BY <1>0, <1>1, <1>5 DEF HandInv, IsFirst, lineVars
<1>7. SendersInv'
  <2> SUFFICES ASSUME NEW l \in Lines
               PROVE  copies'[l] + Cardinality(Senders(l)')
                        <= Cardinality(Dumpers) + failures'
    BY DEF SendersInv
  <2>1. \A e \in Dumpers : Sends(e, l)' => Sends(e, l)
    BY <1>1, <1>4, <1>5 DEF Sends
  <2>2. Senders(l)' \in SUBSET Senders(l) /\ Senders(l) \in SUBSET Dumpers
    BY <2>1 DEF Senders
  <2>3. l \in contents[d] => Senders(l)' # Senders(l)
    BY <1>1, <1>5 DEF Senders, Sends
  <2>4. /\ Cardinality(Senders(l)') <= Cardinality(Senders(l))
        /\ l \in contents[d] =>
             Cardinality(Senders(l)') + 1 <= Cardinality(Senders(l))
    BY <2>2, <2>3, FewerSenders
  <2>5. /\ Cardinality(Senders(l)) \in Nat /\ Cardinality(Senders(l)') \in Nat
        /\ Cardinality(Dumpers) \in Nat /\ copies[l] \in Nat /\ failures \in Nat
    BY <1>0, <2>2, SendersFinite DEF TypeOK
  <2>6. copies[l] + Cardinality(Senders(l)) <= Cardinality(Dumpers) + failures
    BY <1>0 DEF SendersInv
  <2>7. /\ failures' = failures
        /\ l \in contents[d] => copies'[l] = copies[l] + 1
        /\ l \notin contents[d] => copies'[l] = copies[l]
    BY <1>0, <1>1, SentType
  <2> QED
    BY <2>4, <2>5, <2>6, <2>7
<1> QED
  BY <1>2, <1>3, <1>4, <1>6, <1>7 DEF IInv

LEMMA DumpFailsInv ==
  ASSUME IInv, NEW d \in Dumpers, DumpFails(d)
  PROVE  IInv'
<1>0. TypeOK /\ LoggersWriteToTheFile /\ FileInv /\ HandInv /\ SendersInv
  BY DEF IInv
<1>1. /\ dpc[d] = "add" /\ failures' = failures + 1
      /\ copies' \in {copies, Sent(d)} /\ Stop(d)
      /\ UNCHANGED <<fileVars, lineVars>>
  BY DEF DumpFails, ReturnError, Fail
<1>2. TypeOK'
  <2>1. copies' \in [Lines -> Nat] /\ failures' \in Nat
    BY <1>0, <1>1, SentType DEF TypeOK
  <2> QED
    BY <1>0, <1>1, <2>1, StopInv DEF TypeOK, fileVars, lineVars
<1>3. LoggersWriteToTheFile'
  BY <1>0, <1>1 DEF LoggersWriteToTheFile, fileVars
<1>4. FileInv' /\ \A l \in Lines : Waiting(l)' => Waiting(l)
  BY <1>0, <1>1, FilesRemoved DEF fileVars
<1>5. HandInv'
  BY <1>0, <1>1, StopInv DEF lineVars
<1>6. SendersInv'
  <2> SUFFICES ASSUME NEW l \in Lines
               PROVE  copies'[l] + Cardinality(Senders(l)')
                        <= Cardinality(Dumpers) + failures'
    BY DEF SendersInv
  <2>1. \A e \in Dumpers : Sends(e, l)' => Sends(e, l)
    BY <1>0, <1>1, <1>4, StopInv DEF Sends, lineVars
  <2>2. Senders(l)' \in SUBSET Senders(l) /\ Senders(l) \in SUBSET Dumpers
    BY <2>1 DEF Senders
  <2>3. Cardinality(Senders(l)') <= Cardinality(Senders(l))
    BY <2>2, FewerSenders
  <2>4. /\ Cardinality(Senders(l)) \in Nat /\ Cardinality(Senders(l)') \in Nat
        /\ Cardinality(Dumpers) \in Nat /\ copies[l] \in Nat /\ failures \in Nat
    BY <1>0, <2>2, SendersFinite DEF TypeOK
  <2>5. copies[l] + Cardinality(Senders(l)) <= Cardinality(Dumpers) + failures
    BY <1>0 DEF SendersInv
  <2>6. copies'[l] = copies[l] \/ copies'[l] = copies[l] + 1
    BY <1>0, <1>1, SentType
  <2> QED
    BY <1>1, <2>3, <2>4, <2>5, <2>6
<1> QED
  BY <1>2, <1>3, <1>4, <1>5, <1>6 DEF IInv

LEMMA DumpRemoveInv ==
  ASSUME IInv, NEW d \in Dumpers, DumpRemove(d)
  PROVE  IInv'
<1>0. TypeOK /\ LoggersWriteToTheFile /\ FileInv /\ HandInv /\ SendersInv
  BY DEF IInv
<1>1. PICK i \in Instances :
        /\ IsFirst(d, i) /\ ForgetLogger(i) /\ RemoveFile(i)
        /\ \/ file[i] = None /\ Stop(d)
           \/ /\ file[i] # None
              /\ todo' = [todo EXCEPT ![d] = @ \ {i}]
              /\ contents' = [contents EXCEPT ![d] = {}]
              /\ dpc' = [dpc EXCEPT ![d] = "walk"]
  BY DEF DumpRemove
<1>2. dpc[d] = "remove" /\ UNCHANGED <<content, lineVars, copies, failures>>
  BY DEF DumpRemove
<1>3. /\ file' \in [Instances -> Ptr] /\ loggers' \in [Instances -> Ptr]
      /\ file'[i] = None /\ loggers'[i] = None
      /\ \A j \in Instances \ {i} : file'[j] = file[j] /\ loggers'[j] = loggers[j]
  BY <1>0, <1>1 DEF TypeOK, Ptr, ForgetLogger, RemoveFile
<1>4. LoggersWriteToTheFile'
  BY <1>0, <1>3 DEF LoggersWriteToTheFile
<1>5. FileInv' /\ \A l \in Lines : Waiting(l)' => Waiting(l)
  BY <1>0, <1>2, <1>3, FilesRemoved
<1>6. /\ dpc' \in [Dumpers -> {"idle", "walk", "add", "remove"}]
      /\ todo' \in [Dumpers -> SUBSET Instances]
      /\ contents' \in [Dumpers -> SUBSET Lines]
      /\ dpc'[d] \in {"idle", "walk"} /\ contents'[d] = {}
      /\ \A e \in Dumpers \ {d} : dpc'[e] = dpc[e] /\ contents'[e] = contents[e]
      /\ HandInv'
  <2>1. CASE Stop(d)
    BY <1>0, <1>2, <2>1, StopInv DEF lineVars
  <2>2. CASE /\ todo' = [todo EXCEPT ![d] = @ \ {i}]
             /\ contents' = [contents EXCEPT ![d] = {}]
             /\ dpc' = [dpc EXCEPT ![d] = "walk"]
    <3>1. /\ dpc' \in [Dumpers -> {"idle", "walk", "add", "remove"}]
          /\ todo' \in [Dumpers -> SUBSET Instances]
          /\ contents' \in [Dumpers -> SUBSET Lines]
          /\ dpc'[d] = "walk" /\ contents'[d] = {}
          /\ \A e \in Dumpers \ {d} :
               dpc'[e] = dpc[e] /\ contents'[e] = contents[e] /\ todo'[e] = todo[e]
      BY <1>0, <2>2 DEF TypeOK
    <3>2. HandInv'
      BY <1>0, <1>2, <3>1 DEF HandInv, IsFirst, lineVars
    <3> QED
      BY <3>1, <3>2
  <2> QED
    BY <1>1, <2>1, <2>2
<1>7. TypeOK'
  BY <1>0, <1>2, <1>3, <1>6 DEF TypeOK, lineVars
<1>8. ASSUME NEW e \in Dumpers, NEW l \in Lines, Sends(e, l)'
      PROVE  Sends(e, l)
  <2>1. CASE e = d
    <3>1. Waiting(l)' /\ Waiting(l)
      BY <1>5, <1>6, <1>8, <2>1 DEF Sends
    <3>2. l \in contents[d] => fd[l] # None /\ InstanceOf[l] = i /\ pc[l] # "new"
      BY <1>0, <1>1 DEF HandInv, FileInv
    <3>3. l \notin contents[d]
      BY <1>2, <1>3, <3>1, <3>2 DEF Waiting, lineVars
    <3> QED
      BY <2>1, <3>1, <3>3 DEF Sends
  <2>2. CASE e # d
    BY <1>5, <1>6, <1>8, <2>2 DEF Sends
  <2> QED
    BY <2>1, <2>2
<1>9. SendersInv'
  BY <1>0, <1>2, <1>8, SendersKept DEF TypeOK
<1> QED
  BY <1>4, <1>5, <1>6, <1>7, <1>9 DEF IInv

(* The failure pays for what the dumper may send again. *)
LEMMA RemoveFailsInv ==
  ASSUME IInv, NEW d \in Dumpers, RemoveFails(d)
  PROVE  IInv'
<1>0. TypeOK /\ LoggersWriteToTheFile /\ FileInv /\ HandInv /\ SendersInv
  BY DEF IInv
<1>1. PICK i \in Instances : ForgetLogger(i)
  BY DEF RemoveFails
<1>2. /\ failures' = failures + 1 /\ Stop(d)
      /\ UNCHANGED <<file, content, lineVars, copies>>
  BY DEF RemoveFails, Fail
<1>3. TypeOK'
  <2>1. loggers' \in [Instances -> Ptr] /\ failures' \in Nat
    BY <1>0, <1>1, <1>2 DEF TypeOK, Ptr, ForgetLogger
  <2> QED
    BY <1>0, <1>2, <2>1, StopInv DEF TypeOK, lineVars
<1>4. LoggersWriteToTheFile'
  BY <1>0, <1>1, <1>2 DEF LoggersWriteToTheFile, TypeOK, ForgetLogger
<1>5. FileInv' /\ \A l \in Lines : Waiting(l)' => Waiting(l)
  BY <1>0, <1>2, FilesRemoved
<1>6. HandInv'
  BY <1>0, <1>2, StopInv DEF lineVars
<1>7. SendersInv'
  <2> SUFFICES ASSUME NEW l \in Lines
               PROVE  copies'[l] + Cardinality(Senders(l)')
                        <= Cardinality(Dumpers) + failures'
    BY DEF SendersInv
  <2>1. \A e \in Dumpers \ {d} : Sends(e, l)' => Sends(e, l)
    BY <1>0, <1>2, <1>5, StopInv DEF Sends, lineVars
  <2>2. Senders(l)' \subseteq Senders(l) \cup {d} /\ Senders(l) \in SUBSET Dumpers
    BY <2>1 DEF Senders
  <2>3. Cardinality(Senders(l)') <= Cardinality(Senders(l)) + 1
    <3>1. Cardinality(Senders(l)') <= Cardinality(Senders(l) \cup {d})
      BY <2>2, FewerSenders
    <3>2. IsFiniteSet(Senders(l)) /\ Cardinality(Senders(l)) \in Nat
      BY <2>2, SendersFinite
    <3>3. Cardinality(Senders(l) \cup {d}) \in
            {Cardinality(Senders(l)), Cardinality(Senders(l)) + 1}
      BY <3>2, FS_AddElement
    <3>4. Senders(l)' \in SUBSET Dumpers
      BY DEF Senders
    <3>5. Cardinality(Senders(l)') \in Nat
      BY <3>4, SendersFinite
    <3> QED
      BY <3>1, <3>2, <3>3, <3>5
  <2>4. /\ Cardinality(Senders(l)) \in Nat /\ Cardinality(Senders(l)') \in Nat
        /\ Cardinality(Dumpers) \in Nat /\ copies[l] \in Nat /\ failures \in Nat
    <3>1. Senders(l)' \in SUBSET Dumpers
      BY DEF Senders
    <3> QED
      BY <1>0, <2>2, <3>1, SendersFinite DEF TypeOK
  <2>5. copies[l] + Cardinality(Senders(l)) <= Cardinality(Dumpers) + failures
    BY <1>0 DEF SendersInv
  <2> QED
    BY <1>2, <2>3, <2>4, <2>5
<1> QED
  BY <1>3, <1>4, <1>5, <1>6, <1>7 DEF IInv

LEMMA DumpEndInv ==
  ASSUME IInv, NEW d \in Dumpers, DumpEnd(d)
  PROVE  IInv'
<1>0. TypeOK /\ LoggersWriteToTheFile /\ FileInv /\ HandInv /\ SendersInv
  BY DEF IInv
<1>1. dpc[d] = "walk" /\ Stop(d) /\ UNCHANGED <<fileVars, lineVars, copies, failures>>
  BY DEF DumpEnd
<1>2. TypeOK'
  BY <1>0, <1>1, StopInv DEF TypeOK, fileVars, lineVars
<1>3. LoggersWriteToTheFile'
  BY <1>0, <1>1 DEF LoggersWriteToTheFile, fileVars
<1>4. FileInv' /\ \A l \in Lines : Waiting(l)' => Waiting(l)
  BY <1>0, <1>1, FilesRemoved DEF fileVars
<1>5. HandInv'
  BY <1>0, <1>1, StopInv DEF lineVars
<1>6. \A e \in Dumpers, l \in Lines : Sends(e, l)' => Sends(e, l)
  BY <1>0, <1>1, <1>4, StopInv DEF Sends, lineVars
<1>7. SendersInv'
  BY <1>0, <1>1, <1>6, SendersKept DEF TypeOK
<1> QED
  BY <1>2, <1>3, <1>4, <1>5, <1>7 DEF IInv

LEMMA StutterInv ==
  ASSUME IInv, UNCHANGED vars
  PROVE  IInv'
BY DEF IInv, TypeOK, LoggersWriteToTheFile, FileInv, HandInv, IsFirst, SendersInv,
       Senders, Sends, Waiting, vars, fileVars, lineVars, dumpVars

-----------------------------------------------------------------------------
LEMMA StepInv == IInv /\ [Next]_vars => IInv'
<1> SUFFICES ASSUME IInv, [Next]_vars PROVE IInv'
  OBVIOUS
<1>1. ASSUME NEW l \in Lines, GetLogger(l) \/ Write(l)
      PROVE  IInv'
  BY <1>1, GetLoggerInv, WriteInv
<1>2. ASSUME NEW d \in Dumpers, DumpStart(d) \/ DumpStep(d)
      PROVE  IInv'
  BY <1>2, DumpStartInv, DumpReadInv, DumpAddInv, DumpFailsInv, DumpRemoveInv,
     RemoveFailsInv, DumpEndInv DEF DumpStep
<1> QED
  BY <1>1, <1>2, StutterInv DEF Next

(* However logging and dumps interleave and whatever fails. *)
THEOREM Invariance == Spec => []IInv
BY InitInv, StepInv, PTL DEF Spec

(* The variables keep their types. *)
THEOREM TypeCorrect == Spec => []TypeOK
<1>1. IInv => TypeOK
  BY DEF IInv
<1> QED
  BY <1>1, Invariance, PTL

(* getLogger hands out no logger of a file that RemoveLogger has removed   *)
(* (logger.go). *)
THEOREM LoggersAreFresh == Spec => []LoggersWriteToTheFile
<1>1. IInv => LoggersWriteToTheFile
  BY DEF IInv
<1> QED
  BY <1>1, Invariance, PTL

(* The documents with a line are no more than the goroutines that dump and *)
(* the calls that failed: a file sent is removed before its goroutine      *)
(* walks again, unless a failure keeps it, and its name never comes back   *)
(* with the same lines (logs.go). *)
THEOREM SentAtMostOnceByEach == Spec => []SentOnceByEach
<1>1. ASSUME IInv PROVE SentOnceByEach
  <2> SUFFICES ASSUME NEW l \in Lines
               PROVE  copies[l] <= Cardinality(Dumpers) + failures
    BY DEF SentOnceByEach
  <2>1. Cardinality(Senders(l)) \in Nat /\ Cardinality(Dumpers) \in Nat
    <3>1. Senders(l) \in SUBSET Dumpers /\ Dumpers \in SUBSET Dumpers
      BY DEF Senders
    <3> QED
      BY <3>1, SendersFinite
  <2>2. copies[l] \in Nat /\ failures \in Nat
    BY <1>1 DEF IInv, TypeOK
  <2>3. copies[l] + Cardinality(Senders(l)) <= Cardinality(Dumpers) + failures
    BY <1>1 DEF IInv, SendersInv
  <2> QED
    BY <2>1, <2>2, <2>3
<1> QED
  BY <1>1, Invariance, PTL
=============================================================================
