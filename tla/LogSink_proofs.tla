---------------------------- MODULE LogSink_proofs ----------------------------
(***************************************************************************)
(* Proofs about LogSink, for any number of threads, of lines and any limit *)
(* of the queue.                                                           *)
(*                                                                         *)
(* The types need three facts that are not types: a thread in the queue    *)
(* has a line, the writer stays within its batch while it lives, and the   *)
(* seal takes the batch away only when the process ends.                   *)
(*                                                                         *)
(* OrderInv says where the accepted lines are, from the queue over the     *)
(* batch to the file, and which one a killed writer leaves between two.    *)
(***************************************************************************)
EXTENDS LogSink, SequenceTheorems, TLAPS

HasLine == \A t \in Loggers : pc[t] \in {"tail", "inTail", "push", "inQueue"} => line[t] # 0

BatchInv ==
  /\ Len(draining) <= QueueLimit
  /\ exiter = Nobody => /\ written <= Len(draining)
                        /\ pc[Writer] = "count" => written < Len(draining)
  /\ \A t \in Loggers : pc[t] = "seal" => exiter # Nobody

Inv == TypeOK /\ HasLine /\ BatchInv

Stages == {"game", "walk", "observer"}

-----------------------------------------------------------------------------
LEMMA Roles ==
  /\ Writer \notin Loggers /\ Nobody \notin Threads \ {Writer} /\ Game \subseteq Loggers
  /\ Sampler \in Loggers /\ Sampler \notin Game /\ Loggers \subseteq Threads /\ Writer \in Threads
BY SinkAssumption DEF Loggers, Threads

LEMMA After ==
  ASSUME NEW t
  PROVE  /\ AfterLog(t) \in {"ledger", "idle", "marker"} /\ AfterObserver(t) \in {"idle", "marker"}
         /\ StageAfterLog(t) \in Stages
BY DEF AfterLog, AfterObserver, StageAfterLog, Stages

(* A call of log: the line is numbered, or the thread goes on without one. *)
LEMMA Numbered ==
  ASSUME TypeOK, NEW t \in Loggers, NEW to \in Steps, NEW next \in {"idle", "marker", "ledger"},
         made' = IF Enabled THEN made + 1 ELSE made,
         line' = [line EXCEPT ![t] = IF Enabled THEN made + 1 ELSE 0],
         pc' = [pc EXCEPT ![t] = IF Enabled THEN to ELSE next]
  PROVE  /\ made' \in 0..MaxLines /\ line' \in [Loggers -> Lines \cup {0}] /\ pc' \in [Threads -> Steps]
         /\ pc'[t] # "seal" \/ to = "seal"
         /\ pc'[t] \in {"tail", "inTail", "push", "inQueue"} => line'[t] # 0
         /\ \A u \in Loggers \ {t} : line'[u] = line[u] /\ pc'[u] = pc[u]
         /\ pc'[Writer] = pc[Writer]
<1> USE SinkAssumption
<1>1. made \in 0..MaxLines /\ line \in [Loggers -> Lines \cup {0}] /\ pc \in [Threads -> Steps]
  BY DEF TypeOK
<1>2. CASE Enabled
  <2>1. made + 1 \in 1..MaxLines /\ made + 1 # 0
    BY <1>1, <1>2 DEF Enabled
  <2>2. made' = made + 1 /\ line' = [line EXCEPT ![t] = made + 1] /\ pc' = [pc EXCEPT ![t] = to]
    BY <1>2
  <2> QED
    BY <1>1, <2>1, <2>2, Roles DEF Lines
<1>3. CASE ~Enabled
  <2>1. made' = made /\ line' = [line EXCEPT ![t] = 0] /\ pc' = [pc EXCEPT ![t] = next]
    BY <1>3
  <2>2. next \in Steps /\ next \notin {"tail", "inTail", "push", "inQueue"}
    BY DEF Steps
  <2> QED
    BY <1>1, <2>1, <2>2, Roles
<1> QED
  BY <1>2, <1>3

(* A thread goes on and touches nothing but its own place and a mutex.     *)
LEMMA Passes ==
  ASSUME Inv, NEW t \in Loggers, NEW to \in Steps, pc' = [pc EXCEPT ![t] = to],
         to \in {"tail", "inTail", "push", "inQueue"} => line[t] # 0,
         UNCHANGED <<queueVars, streamVars, made, clockVars, line>>,
         owner' \in [Locks -> Threads \cup {Nobody}], stage' \in [Loggers -> Stages],
         exiter' \in Game \cup {Nobody}, exiter' = Nobody => exiter = Nobody,
         to = "seal" => exiter' # Nobody
  PROVE  Inv'
<1>1. UNCHANGED <<pending, draining, written, dropped, started, sealing, file, accepted, made, wanted, unserved, elapsed, line>>
  BY DEF queueVars, streamVars, clockVars
<1>2. pc' \in [Threads -> Steps] /\ pc'[Writer] = pc[Writer] /\ pc'[t] = to /\ \A u \in Loggers \ {t} : pc'[u] = pc[u]
  BY Roles DEF Inv, TypeOK
<1>3. TypeOK'
  BY <1>1, <1>2 DEF Inv, TypeOK, Stages
<1>4. HasLine'
  BY <1>1, <1>2 DEF Inv, HasLine
<1>5. BatchInv'
  BY <1>1, <1>2 DEF Inv, BatchInv
<1> QED
  BY <1>3, <1>4, <1>5 DEF Inv

-----------------------------------------------------------------------------
LEMMA InvInit == Init => Inv
<1> SUFFICES ASSUME Init PROVE Inv
  OBVIOUS
<1> USE SinkAssumption
<1>1. /\ started = FALSE /\ sealing = FALSE /\ pending = <<>> /\ draining = <<>> /\ written = 0 /\ dropped = 0
      /\ file = <<>> /\ accepted = <<>> /\ made = 0 /\ wanted = FALSE /\ unserved = FALSE /\ elapsed = 0
      /\ owner = [m \in Locks |-> Nobody] /\ line = [t \in Loggers |-> 0] /\ stage = [t \in Loggers |-> "game"]
      /\ exiter = Nobody
  BY DEF Init
<1>2. pc \in [Threads -> Steps] /\ (\A t \in Loggers : pc[t] \in {"unborn", "idle"}) /\ pc[Writer] = "wait"
  BY Roles DEF Init, Steps
<1>3. TypeOK
  <2>1. <<>> \in Seq(Lines) /\ Len(<<>>) = 0
    OBVIOUS
  <2>2. /\ pending \in Seq(Lines) /\ Len(pending) <= QueueLimit /\ draining \in Seq(Lines) /\ file \in Seq(Lines)
        /\ accepted \in Seq(Lines)
    BY <1>1, <2>1
  <2>3. written \in 0..QueueLimit /\ dropped \in Nat /\ made \in 0..MaxLines /\ elapsed \in 0..(Interval - 1)
    BY <1>1
  <2>4. owner \in [Locks -> Threads \cup {Nobody}] /\ line \in [Loggers -> Lines \cup {0}]
    BY <1>1
  <2>5. stage \in [Loggers -> {"game", "walk", "observer"}]
    BY <1>1
  <2>6. started \in BOOLEAN /\ sealing \in BOOLEAN /\ wanted \in BOOLEAN /\ unserved \in BOOLEAN
    BY <1>1
  <2> QED
    BY <1>1, <1>2, <2>2, <2>3, <2>4, <2>5, <2>6 DEF TypeOK
<1>4. HasLine /\ BatchInv
  BY <1>1, <1>2 DEF HasLine, BatchInv
<1> QED
  BY <1>3, <1>4 DEF Inv

LEMMA LockingKeeps ==
  ASSUME Inv, NEW t \in Loggers, Locking(t)
  PROVE  Inv'
<1>1. \A m \in Locks : Lock(t, m) => owner' \in [Locks -> Threads \cup {Nobody}]
  BY Roles DEF Lock, Inv, TypeOK
<1>2. /\ stage \in [Loggers -> Stages] /\ exiter \in Game \cup {Nobody}
      /\ \A m \in {"tail", "mutex", "snapshot", "sizes"} : m \in Locks
      /\ \A s \in {"inTail", "inQueue", "inSnapshot", "inSizes"} : s \in Steps
  BY DEF Inv, TypeOK, Stages, Locks, Steps
<1>3. CASE LockTail(t)
  <2>1. /\ pc[t] = "tail" /\ pc' = [pc EXCEPT ![t] = "inTail"] /\ Lock(t, "tail")
        /\ UNCHANGED <<queueVars, streamVars, made, clockVars, callVars, exiter>>
    BY <1>3 DEF LockTail, Goto
  <2> QED
    BY <1>1, <1>2, <2>1, Passes DEF Inv, HasLine, callVars
<1>4. CASE LockQueue(t)
  <2>1. /\ pc[t] = "push" /\ pc' = [pc EXCEPT ![t] = "inQueue"] /\ Lock(t, "mutex")
        /\ UNCHANGED <<queueVars, streamVars, made, clockVars, callVars, exiter>>
    BY <1>4 DEF LockQueue, Goto
  <2> QED
    BY <1>1, <1>2, <2>1, Passes DEF Inv, HasLine, callVars
<1>5. CASE LockSnapshot(t)
  <2>1. /\ pc' = [pc EXCEPT ![t] = "inSnapshot"] /\ Lock(t, "snapshot")
        /\ UNCHANGED <<queueVars, streamVars, made, clockVars, callVars, exiter>>
    BY <1>5 DEF LockSnapshot, Goto
  <2> QED
    BY <1>1, <1>2, <2>1, Passes DEF callVars
<1>6. CASE LockSizes(t)
  <2>1. /\ pc' = [pc EXCEPT ![t] = "inSizes"] /\ Lock(t, "sizes")
        /\ UNCHANGED <<queueVars, streamVars, made, clockVars, callVars, exiter>>
    BY <1>6 DEF LockSizes, Goto
  <2> QED
    BY <1>1, <1>2, <2>1, Passes DEF callVars
<1> QED
  BY <1>3, <1>4, <1>5, <1>6 DEF Locking

LEMMA QuietSteps ==
  ASSUME Inv, NEW t \in Loggers, UnlockTail(t) \/ ReadLedger(t) \/ LedgerBusy(t) \/ EndSeal(t)
  PROVE  Inv'
<1>1. /\ stage \in [Loggers -> Stages] /\ exiter \in Game \cup {Nobody} /\ owner \in [Locks -> Threads \cup {Nobody}]
      /\ \A s \in {"push", "sizes", "idle", "marker", "ended"} : s \in Steps
  BY DEF Inv, TypeOK, Stages, Steps
<1>2. CASE UnlockTail(t)
  <2>1. /\ pc[t] = "inTail" /\ pc' = [pc EXCEPT ![t] = "push"] /\ owner' = [owner EXCEPT !["tail"] = Nobody]
        /\ UNCHANGED <<queueVars, streamVars, made, clockVars, callVars, exiter>>
    BY <1>2 DEF UnlockTail, Goto, Unlock
  <2>2. owner' \in [Locks -> Threads \cup {Nobody}]
    BY <1>1, <2>1
  <2> QED
    BY <1>1, <2>1, <2>2, Passes DEF Inv, HasLine, callVars
<1>3. CASE ReadLedger(t)
  <2>1. /\ pc' = [pc EXCEPT ![t] = "sizes"]
        /\ UNCHANGED <<queueVars, streamVars, made, clockVars, owner, callVars, exiter>>
    BY <1>3 DEF ReadLedger, Goto
  <2> QED
    BY <1>1, <2>1, Passes DEF callVars
<1>4. CASE LedgerBusy(t)
  <2>1. /\ pc' = [pc EXCEPT ![t] = AfterObserver(t)] /\ stage' = [stage EXCEPT ![t] = "game"]
        /\ UNCHANGED <<queueVars, streamVars, made, clockVars, owner, line, exiter>>
    BY <1>4 DEF LedgerBusy, Goto
  <2>2. AfterObserver(t) \in {"idle", "marker"}
    BY After
  <2>3. stage' \in [Loggers -> Stages]
    BY <1>1, <2>1 DEF Stages
  <2> QED
    BY <1>1, <2>1, <2>2, <2>3, Passes
<1>5. CASE EndSeal(t)
  <2>1. /\ pc' = [pc EXCEPT ![t] = "ended"]
        /\ UNCHANGED <<queueVars, streamVars, made, clockVars, owner, callVars, exiter>>
    BY <1>5 DEF EndSeal, Goto
  <2> QED
    BY <1>1, <2>1, Passes DEF callVars
<1> QED
  BY <1>2, <1>3, <1>4, <1>5

(* A thread puts its line where it belongs and returns from log.           *)
LEMMA Returns ==
  ASSUME Inv, NEW t \in Loggers, pc' = [pc EXCEPT ![t] = AfterLog(t)], LogReturns(t),
         pending' \in Seq(Lines), Len(pending') <= QueueLimit, dropped' \in Nat,
         file' \in Seq(Lines), accepted' \in Seq(Lines), owner' \in [Locks -> Threads \cup {Nobody}],
         UNCHANGED <<draining, written, started, sealing, made, wanted, unserved, elapsed, exiter>>
  PROVE  Inv'
<1>1. AfterLog(t) \in {"ledger", "idle", "marker"} /\ StageAfterLog(t) \in Stages
  BY After
<1>2. /\ pc' \in [Threads -> Steps] /\ pc'[Writer] = pc[Writer] /\ pc'[t] \notin {"tail", "inTail", "push", "inQueue", "seal"}
      /\ \A u \in Loggers \ {t} : pc'[u] = pc[u]
  BY <1>1, Roles DEF Inv, TypeOK, Steps
<1>3. stage' \in [Loggers -> Stages] /\ line' \in [Loggers -> Lines \cup {0}] /\ \A u \in Loggers \ {t} : line'[u] = line[u]
  BY <1>1 DEF LogReturns, Inv, TypeOK, Stages
<1>4. TypeOK'
  BY <1>2, <1>3 DEF Inv, TypeOK, Stages
<1>5. HasLine'
  BY <1>2, <1>3 DEF Inv, HasLine
<1>6. BatchInv'
  BY <1>2 DEF Inv, BatchInv
<1> QED
  BY <1>4, <1>5, <1>6 DEF Inv

LEMMA PushKeeps ==
  ASSUME Inv, NEW t \in Loggers, Drop(t) \/ Enqueue(t) \/ WriteDirect(t)
  PROVE  Inv'
<1> USE SinkAssumption
<1>1. /\ pending \in Seq(Lines) /\ Len(pending) <= QueueLimit /\ dropped \in Nat
      /\ file \in Seq(Lines) /\ accepted \in Seq(Lines) /\ owner \in [Locks -> Threads \cup {Nobody}]
      /\ line \in [Loggers -> Lines \cup {0}]
  BY DEF Inv, TypeOK
<1>2. pc[t] \in {"push", "inQueue"} => line[t] \in Lines
  BY <1>1 DEF Inv, HasLine
<1>3. Unlock("mutex") => owner' \in [Locks -> Threads \cup {Nobody}]
  BY <1>1 DEF Unlock
<1>4. CASE Drop(t)
  <2>1. /\ pc' = [pc EXCEPT ![t] = AfterLog(t)] /\ LogReturns(t) /\ Unlock("mutex") /\ dropped' = dropped + 1
        /\ UNCHANGED <<pending, draining, written, started, sealing, file, accepted, made, wanted, unserved, elapsed, exiter>>
    BY <1>4 DEF Drop, Goto, streamVars, clockVars
  <2>2. dropped' \in Nat
    BY <1>1, <2>1
  <2> QED
    BY <1>1, <1>3, <2>1, <2>2, Returns
<1>5. CASE Enqueue(t)
  <2>1. /\ pc[t] = "inQueue" /\ pc' = [pc EXCEPT ![t] = AfterLog(t)] /\ LogReturns(t) /\ Unlock("mutex")
        /\ Len(pending) < QueueLimit
        /\ pending' = Append(pending, line[t]) /\ accepted' = Append(accepted, line[t])
        /\ UNCHANGED <<draining, written, dropped, started, sealing, file, made, wanted, unserved, elapsed, exiter>>
    BY <1>5 DEF Enqueue, Goto, Accept, clockVars
  <2>2. pending' \in Seq(Lines) /\ Len(pending') <= QueueLimit /\ accepted' \in Seq(Lines)
    BY <1>1, <1>2, <2>1
  <2> QED
    BY <1>1, <1>3, <2>1, <2>2, Returns
<1>6. CASE WriteDirect(t)
  <2>1. /\ pc[t] = "push" /\ pc' = [pc EXCEPT ![t] = AfterLog(t)] /\ LogReturns(t)
        /\ file' = Written(<<line[t]>>) /\ accepted' = Append(accepted, line[t])
        /\ UNCHANGED <<pending, draining, written, dropped, started, sealing, made, wanted, unserved, elapsed, owner, exiter>>
    BY <1>6 DEF WriteDirect, Goto, queueVars, clockVars
  <2>2. <<line[t]>> \in Seq(Lines) /\ accepted' \in Seq(Lines)
    BY <1>1, <1>2, <2>1
  <2>3. file' \in Seq(Lines)
    BY <1>1, <2>1, <2>2 DEF Written
  <2> QED
    BY <1>1, <2>1, <2>2, <2>3, Returns
<1> QED
  BY <1>4, <1>5, <1>6

(* A thread begins a call of log, or would have.                           *)
LEMMA Begins ==
  ASSUME Inv, NEW t \in Loggers, NEW to \in Steps, to # "seal", NEW next \in {"idle", "marker", "ledger"},
         made' = IF Enabled THEN made + 1 ELSE made,
         line' = [line EXCEPT ![t] = IF Enabled THEN made + 1 ELSE 0],
         pc' = [pc EXCEPT ![t] = IF Enabled THEN to ELSE next],
         owner' \in [Locks -> Threads \cup {Nobody}], stage' \in [Loggers -> Stages],
         UNCHANGED <<queueVars, streamVars, clockVars, exiter>>
  PROVE  Inv'
<1>1. /\ made' \in 0..MaxLines /\ line' \in [Loggers -> Lines \cup {0}] /\ pc' \in [Threads -> Steps]
      /\ (pc'[t] \in {"tail", "inTail", "push", "inQueue"} => line'[t] # 0) /\ pc'[t] # "seal"
      /\ (\A u \in Loggers \ {t} : line'[u] = line[u] /\ pc'[u] = pc[u])
      /\ pc'[Writer] = pc[Writer]
  <2>1. TypeOK /\ (pc'[t] # "seal" \/ to = "seal")
    BY Numbered DEF Inv
  <2> QED
    BY <2>1, Numbered
<1>2. UNCHANGED <<pending, draining, written, dropped, started, sealing, file, accepted, wanted, unserved, elapsed, exiter>>
  BY DEF queueVars, streamVars, clockVars
<1>3. TypeOK'
  BY <1>1, <1>2 DEF Inv, TypeOK, Stages
<1>4. HasLine'
  BY <1>1, <1>2 DEF Inv, HasLine
<1>5. BatchInv'
  BY <1>1, <1>2 DEF Inv, BatchInv
<1> QED
  BY <1>3, <1>4, <1>5 DEF Inv

LEMMA CallsKeep ==
  ASSUME Inv, NEW t \in Loggers, Calls(t) \/ SampleNow(t) \/ StoreSnapshot(t) \/ StoreSizes(t)
  PROVE  Inv'
<1> USE SinkAssumption
<1>1. /\ stage \in [Loggers -> Stages] /\ exiter \in Game \cup {Nobody} /\ owner \in [Locks -> Threads \cup {Nobody}]
      /\ {"tail", "push", "snapshot", "inSnapshot", "idle", "seal"} \subseteq Steps
      /\ {"tail", "mutex", "snapshot", "sizes"} \subseteq Locks /\ {"game", "walk", "observer"} \subseteq Stages
  BY DEF Inv, TypeOK, Stages, Steps, Locks
<1>2. AfterLog(t) \in {"idle", "marker", "ledger"} /\ AfterObserver(t) \in {"idle", "marker", "ledger"}
  BY After
<1>3. CASE Log(t)
  <2>1. PICK to \in {"tail", "push"} : BeginLog(t, to)
    BY <1>3 DEF Log
  <2>2. UNCHANGED <<queueVars, streamVars, clockVars, owner, stage, exiter>> /\ to \in Steps
    BY <1>1, <1>3 DEF Log
  <2>3. /\ made' = (IF Enabled THEN made + 1 ELSE made) /\ line' = [line EXCEPT ![t] = IF Enabled THEN made + 1 ELSE 0]
        /\ pc' = [pc EXCEPT ![t] = IF Enabled THEN to ELSE AfterLog(t)]
    BY <2>1 DEF BeginLog
  <2> QED
    BY <1>1, <1>2, <2>2, <2>3, Begins
<1>4. CASE StoreSnapshot(t)
  <2>1. UNCHANGED <<queueVars, streamVars, clockVars, exiter>> /\ owner' = [owner EXCEPT !["snapshot"] = Nobody]
    BY <1>4 DEF StoreSnapshot, Unlock
  <2>2. owner' \in [Locks -> Threads \cup {Nobody}]
    BY <1>1, <2>1
  <2>3. CASE stage[t] = "walk"
    <3>1. /\ made' = (IF Enabled THEN made + 1 ELSE made) /\ line' = [line EXCEPT ![t] = IF Enabled THEN made + 1 ELSE 0]
          /\ pc' = [pc EXCEPT ![t] = IF Enabled THEN "tail" ELSE AfterLog(t)] /\ "tail" \in Steps
          /\ stage' = [stage EXCEPT ![t] = IF Enabled THEN "walk" ELSE StageAfterLog(t)]
      BY <1>1, <1>4, <2>3 DEF StoreSnapshot, BeginLog
    <3>2. stage' \in [Loggers -> Stages]
      BY <1>1, <3>1, After DEF Stages
    <3> QED
      BY <1>2, <2>1, <2>2, <3>1, <3>2, Begins
  <2>4. CASE stage[t] # "walk"
    <3>1. pc' = [pc EXCEPT ![t] = "idle"] /\ UNCHANGED <<made, line, stage>> /\ "idle" \in Steps
      BY <1>1, <1>4, <2>4 DEF StoreSnapshot
    <3> QED
      BY <1>1, <2>1, <2>2, <3>1, Passes
  <2> QED
    BY <2>3, <2>4
<1>5. CASE StoreSizes(t)
  <2>1. /\ UNCHANGED <<queueVars, streamVars, clockVars, exiter>> /\ owner' = [owner EXCEPT !["sizes"] = Nobody]
        /\ stage' = [stage EXCEPT ![t] = IF Enabled THEN "observer" ELSE "game"]
        /\ made' = (IF Enabled THEN made + 1 ELSE made) /\ line' = [line EXCEPT ![t] = IF Enabled THEN made + 1 ELSE 0]
        /\ pc' = [pc EXCEPT ![t] = IF Enabled THEN "tail" ELSE AfterObserver(t)]
    BY <1>5 DEF StoreSizes, Unlock
  <2>2. owner' \in [Locks -> Threads \cup {Nobody}]
    BY <1>1, <2>1
  <2>3. stage' \in [Loggers -> Stages]
    BY <1>1, <2>1 DEF Stages
  <2>4. "tail" \in Steps
    BY <1>1
  <2> QED
    BY <1>2, <2>1, <2>2, <2>3, <2>4, Begins
<1>6. CASE RequestSample(t)
  <2>1. /\ wanted' = TRUE /\ unserved' = TRUE
        /\ UNCHANGED <<pending, draining, written, dropped, started, sealing, file, accepted, made, elapsed,
                       owner, pc, line, stage, exiter>>
    BY <1>6 DEF RequestSample, queueVars, streamVars, callVars
  <2> QED
    BY <2>1 DEF Inv, TypeOK, HasLine, BatchInv
<1>7. CASE TrySnapshot(t)
  <2>1. /\ pc' = [pc EXCEPT ![t] = "inSnapshot"] /\ owner' = [owner EXCEPT !["snapshot"] = t] /\ "inSnapshot" \in Steps
        /\ UNCHANGED <<queueVars, streamVars, made, clockVars, callVars, exiter>>
    BY <1>1, <1>7 DEF TrySnapshot, Goto, Lock
  <2>2. owner' \in [Locks -> Threads \cup {Nobody}]
    BY <1>1, <2>1, Roles
  <2> QED
    BY <1>1, <2>1, <2>2, Passes DEF callVars
<1>8. CASE ExitProcess(t)
  <2>1. /\ exiter' = t /\ t \in Game /\ exiter = Nobody /\ pc' = [pc EXCEPT ![t] = "seal"] /\ "seal" \in Steps
        /\ UNCHANGED <<queueVars, streamVars, made, clockVars, owner, callVars>>
    BY <1>1, <1>8 DEF ExitProcess
  <2> QED
    BY <1>1, <2>1, Passes DEF callVars
<1>9. CASE SampleInline(t)
  <2>1. /\ pc' = [pc EXCEPT ![t] = "snapshot"] /\ "snapshot" \in Steps /\ stage' = [stage EXCEPT ![t] = "walk"]
        /\ UNCHANGED <<queueVars, streamVars, made, clockVars, owner, line, exiter>>
    BY <1>1, <1>9 DEF SampleInline, Goto
  <2>2. stage' \in [Loggers -> Stages]
    BY <1>1, <2>1
  <2> QED
    BY <1>1, <2>1, <2>2, Passes
<1>10. CASE SampleNow(t)
  <2>1. /\ pc' = [pc EXCEPT ![t] = "snapshot"] /\ stage' = [stage EXCEPT ![t] = "walk"]
        /\ unserved' \in BOOLEAN
        /\ UNCHANGED <<pending, draining, written, dropped, started, sealing, file, accepted, made, wanted, elapsed,
                       owner, line, exiter>>
    BY <1>10 DEF SampleNow, queueVars, streamVars, Inv, TypeOK
  <2>2. stage' \in [Loggers -> Stages] /\ pc' \in [Threads -> Steps] /\ pc'[t] = "snapshot"
        /\ pc'[Writer] = pc[Writer] /\ \A u \in Loggers \ {t} : pc'[u] = pc[u]
    BY <1>1, <2>1, Roles DEF Inv, TypeOK
  <2>3. TypeOK'
    BY <2>1, <2>2 DEF Inv, TypeOK, Stages
  <2>4. HasLine' /\ BatchInv'
    BY <2>1, <2>2 DEF Inv, HasLine, BatchInv
  <2> QED
    BY <2>3, <2>4 DEF Inv
<1> QED
  BY <1>3, <1>4, <1>5, <1>6, <1>7, <1>8, <1>9, <1>10 DEF Calls

-----------------------------------------------------------------------------
(* The seal, the sampler's clock and the writer.                           *)

LEMMA SealKeeps ==
  ASSUME Inv, NEW t \in Loggers, BeginSeal(t)
  PROVE  Inv'
<1> USE SinkAssumption
<1>1. /\ Alive(t) /\ pc[t] = "seal" /\ pc' = [pc EXCEPT ![t] = "snapshot"] /\ sealing' = TRUE
      /\ file' = Written(Remainder \o pending) /\ pending' = <<>> /\ draining' = <<>>
      /\ stage' = [stage EXCEPT ![t] = "walk"]
      /\ UNCHANGED <<written, dropped, started, accepted, made, wanted, unserved, elapsed, owner, line, exiter>>
  BY DEF BeginSeal, Goto, clockVars
<1>2. /\ pending \in Seq(Lines) /\ draining \in Seq(Lines) /\ file \in Seq(Lines) /\ written \in 0..QueueLimit
  BY DEF Inv, TypeOK
<1>3. Remainder \in Seq(Lines)
  BY <1>2, SubSeqProperties DEF Remainder
<1>4. file' \in Seq(Lines)
  <2>1. Remainder \o pending \in Seq(Lines)
    BY <1>2, <1>3
  <2> QED
    BY <1>1, <1>2, <2>1 DEF Written
<1>5. pc' \in [Threads -> Steps] /\ pc'[Writer] = pc[Writer] /\ pc'[t] = "snapshot" /\ \A u \in Loggers \ {t} : pc'[u] = pc[u]
  BY <1>1, Roles DEF Inv, TypeOK, Steps
<1>6. stage' \in [Loggers -> {"game", "walk", "observer"}]
  BY <1>1 DEF Inv, TypeOK
<1>7. <<>> \in Seq(Lines) /\ Len(<<>>) = 0
  OBVIOUS
<1>8. TypeOK'
  BY <1>1, <1>2, <1>4, <1>5, <1>6, <1>7 DEF Inv, TypeOK
<1>9. HasLine'
  BY <1>1, <1>5 DEF Inv, HasLine
<1>10. exiter # Nobody /\ exiter' = exiter
  BY <1>1 DEF Inv, BatchInv
<1>11. BatchInv'
  <2>1. Len(draining') <= QueueLimit
    BY <1>1, <1>7
  <2> QED
    BY <1>10, <2>1 DEF BatchInv
<1> QED
  BY <1>8, <1>9, <1>11 DEF Inv

LEMMA StartsKeep ==
  ASSUME Inv, Start \/ StartSampler \/ Tick
  PROVE  Inv'
<1> USE SinkAssumption
<1>1. CASE Start
  <2>1. started' = TRUE /\ UNCHANGED <<pending, draining, written, dropped, sealing, file, accepted, made, wanted, unserved, elapsed,
                                      owner, pc, line, stage, exiter>>
    BY <1>1 DEF Start, queueVars, clockVars, callVars
  <2> QED
    BY <2>1 DEF Inv, TypeOK, HasLine, BatchInv
<1>2. CASE StartSampler
  <2>1. /\ pc' = [pc EXCEPT ![Sampler] = "snapshot"] /\ stage' = [stage EXCEPT ![Sampler] = "walk"]
        /\ UNCHANGED <<queueVars, streamVars, made, clockVars, owner, line, exiter>>
    BY <1>2 DEF StartSampler
  <2>2. stage' \in [Loggers -> Stages] /\ owner' \in [Locks -> Threads \cup {Nobody}] /\ "snapshot" \in Steps
    BY <2>1 DEF Inv, TypeOK, Stages, Steps
  <2>3. exiter' \in Game \cup {Nobody}
    BY <2>1 DEF Inv, TypeOK
  <2> QED
    BY <2>1, <2>2, <2>3, Roles, Passes
<1>3. CASE Tick
  <2> DEFINE now == elapsed + 1
             action == IF wanted THEN "requested" ELSE IF now >= Interval THEN "periodic" ELSE "idle"
  <2>1. /\ pc' = [pc EXCEPT ![Sampler] = action] /\ wanted' = FALSE
        /\ elapsed' = (IF action = "idle" THEN now ELSE 0)
        /\ UNCHANGED <<pending, draining, written, dropped, started, sealing, file, accepted, made, unserved, owner,
                       line, stage, exiter>>
    BY <1>3 DEF Tick, Goto, queueVars, streamVars, callVars
  <2>2. elapsed' \in 0..(Interval - 1)
    BY <2>1 DEF Inv, TypeOK
  <2>0. action \in {"requested", "periodic", "idle"}
    OBVIOUS
  <2> HIDE DEF now, action
  <2>3. /\ pc' \in [Threads -> Steps] /\ pc'[Writer] = pc[Writer] /\ pc'[Sampler] \in {"requested", "periodic", "idle"}
        /\ \A u \in Loggers \ {Sampler} : pc'[u] = pc[u]
    BY <2>0, <2>1, Roles DEF Inv, TypeOK, Steps
  <2>4. stage' \in [Loggers -> {"game", "walk", "observer"}]
    BY <2>1 DEF Inv, TypeOK
  <2>5. TypeOK'
    BY <2>1, <2>2, <2>3, <2>4 DEF Inv, TypeOK
  <2>6. HasLine'
    BY <2>1, <2>3 DEF Inv, HasLine
  <2>7. BatchInv'
    BY <2>1, <2>3 DEF Inv, BatchInv
  <2> QED
    BY <2>5, <2>6, <2>7 DEF Inv
<1> QED
  BY <1>1, <1>2, <1>3

(* The writer moves only itself, and within its batch.                     *)
LEMMA WriterKeeps ==
  ASSUME Inv, WriterWakes \/ Drain
  PROVE  Inv'
<1> USE SinkAssumption
<1>1. /\ pending \in Seq(Lines) /\ Len(pending) <= QueueLimit /\ draining \in Seq(Lines) /\ Len(draining) \in Nat
      /\ file \in Seq(Lines) /\ written \in 0..QueueLimit /\ pc \in [Threads -> Steps]
      /\ Len(draining) <= QueueLimit /\ owner \in [Locks -> Threads \cup {Nobody}]
  BY DEF Inv, TypeOK, BatchInv
<1>2. exiter = Nobody => written <= Len(draining) /\ (pc[Writer] = "count" => written < Len(draining))
  BY DEF Inv, BatchInv
<1>3. /\ UNCHANGED <<dropped, started, sealing, accepted, made, wanted, unserved, elapsed, line, stage, exiter>>
      /\ exiter \in {Nobody, Writer}
  <2>1. CASE WriterWakes
    BY <2>1 DEF WriterWakes, queueVars, streamVars, clockVars, callVars, Goto, Alive
  <2>2. CASE Swap
    BY <2>2 DEF Swap, streamVars, clockVars, callVars, Goto, Alive
  <2>3. CASE WriteLine
    BY <2>3 DEF WriteLine, queueVars, clockVars, callVars, Goto, Alive
  <2>4. CASE CountLine
    BY <2>4 DEF CountLine, streamVars, clockVars, callVars, Goto, Alive
  <2>5. CASE EndDrain
    BY <2>5 DEF EndDrain, streamVars, clockVars, callVars, Goto, Alive
  <2> QED
    BY <2>1, <2>2, <2>3, <2>4, <2>5 DEF Drain
<1>4. exiter = Nobody
  BY <1>3 DEF Inv, TypeOK
<1>5. \A to \in Steps : pc' = [pc EXCEPT ![Writer] = to] =>
        pc' \in [Threads -> Steps] /\ pc'[Writer] = to /\ \A u \in Loggers : pc'[u] = pc[u]
  BY <1>1, Roles
<1>6. {"wait", "drain", "write", "count"} \subseteq Steps /\ "mutex" \in Locks
  BY DEF Steps, Locks
<1>7. ASSUME /\ pc' \in [Threads -> Steps] /\ \A u \in Loggers : pc'[u] = pc[u]
             /\ pending' \in Seq(Lines) /\ Len(pending') <= QueueLimit /\ draining' \in Seq(Lines)
             /\ Len(draining') <= QueueLimit /\ file' \in Seq(Lines) /\ written' \in 0..QueueLimit
             /\ owner' \in [Locks -> Threads \cup {Nobody}]
             /\ written' <= Len(draining') /\ (pc'[Writer] = "count" => written' < Len(draining'))
      PROVE  Inv'
  <2>1. TypeOK'
    BY <1>3, <1>7 DEF Inv, TypeOK
  <2>2. HasLine' /\ BatchInv'
    BY <1>3, <1>7 DEF Inv, HasLine, BatchInv
  <2> QED
    BY <2>1, <2>2 DEF Inv
<1>8. CASE WriterWakes
  <2>1. /\ pc' = [pc EXCEPT ![Writer] = "drain"] /\ owner' = [owner EXCEPT !["mutex"] = Writer]
        /\ UNCHANGED <<pending, draining, written, file>>
    BY <1>8 DEF WriterWakes, Goto, Lock, queueVars, streamVars
  <2>2. owner' \in [Locks -> Threads \cup {Nobody}]
    BY <1>1, <2>1, Roles
  <2> QED
    BY <1>1, <1>2, <1>4, <1>5, <1>6, <1>7, <2>1, <2>2
<1>9. CASE Swap
  <2>1. /\ pc' = [pc EXCEPT ![Writer] = "write"] /\ draining' = pending /\ pending' = <<>> /\ written' = 0
        /\ UNCHANGED <<owner, file>>
    BY <1>9 DEF Swap, Goto, streamVars
  <2>2. pending' \in Seq(Lines) /\ Len(pending') = 0 /\ Len(pending) \in Nat
    BY <1>1, <2>1
  <2>3. written' \in 0..QueueLimit /\ written' <= Len(draining') /\ Len(pending') <= QueueLimit
    BY <2>1, <2>2
  <2>4. pc' \in [Threads -> Steps] /\ pc'[Writer] = "write" /\ \A u \in Loggers : pc'[u] = pc[u]
    BY <1>5, <1>6, <2>1
  <2> QED
    BY <1>1, <1>7, <2>1, <2>2, <2>3, <2>4
<1>10. CASE WriteLine
  <2>1. /\ pc' = [pc EXCEPT ![Writer] = "count"] /\ file' = Append(file, draining[written + 1]) /\ written < Len(draining)
        /\ UNCHANGED <<pending, draining, written, owner>>
    BY <1>10 DEF WriteLine, Goto, queueVars
  <2>2. file' \in Seq(Lines)
    <3>1. written + 1 \in 1..Len(draining)
      BY <1>1, <2>1
    <3>2. draining[written + 1] \in Lines
      BY <1>1, <3>1, ElementOfSeq
    <3> QED
      BY <1>1, <2>1, <3>2
  <2> QED
    BY <1>1, <1>2, <1>4, <1>5, <1>6, <1>7, <2>1, <2>2
<1>11. CASE CountLine
  <2>1. /\ pc[Writer] = "count" /\ pc' = [pc EXCEPT ![Writer] = "write"] /\ written' = written + 1
        /\ UNCHANGED <<pending, draining, owner, file>>
    BY <1>11 DEF CountLine, Goto, streamVars
  <2>2. written' \in 0..QueueLimit /\ written' <= Len(draining)
    BY <1>1, <1>2, <1>4, <2>1
  <2> QED
    BY <1>1, <1>5, <1>6, <1>7, <2>1, <2>2
<1>12. CASE EndDrain
  <2>1. /\ pc' = [pc EXCEPT ![Writer] = "wait"] /\ owner' = [owner EXCEPT !["mutex"] = Nobody]
        /\ draining' = <<>> /\ written' = 0 /\ UNCHANGED <<pending, file>>
    BY <1>12 DEF EndDrain, Goto, Unlock, streamVars
  <2>2. draining' \in Seq(Lines) /\ Len(draining') = 0
    BY <2>1
  <2>3. owner' \in [Locks -> Threads \cup {Nobody}]
    BY <1>1, <2>1
  <2>4. written' \in 0..QueueLimit /\ written' <= Len(draining') /\ Len(draining') <= QueueLimit
    BY <2>1, <2>2
  <2>5. pc' \in [Threads -> Steps] /\ pc'[Writer] = "wait" /\ \A u \in Loggers : pc'[u] = pc[u]
    BY <1>5, <1>6, <2>1
  <2> QED
    BY <1>1, <1>7, <2>1, <2>2, <2>3, <2>4, <2>5
<1> QED
  BY <1>8, <1>9, <1>10, <1>11, <1>12 DEF Drain

LEMMA InvNext == Inv /\ [Next]_vars => Inv'
<1> SUFFICES ASSUME Inv, [Next]_vars PROVE Inv'
  OBVIOUS
<1>1. CASE Start \/ StartSampler \/ Tick
  BY <1>1, StartsKeep
<1>2. CASE WriterWakes \/ Drain
  BY <1>2, WriterKeeps
<1>3. CASE \E t \in Loggers : Locking(t) \/ Going(t) \/ Calls(t)
  <2>1. PICK t \in Loggers : Locking(t) \/ Going(t) \/ Calls(t)
    BY <1>3
  <2>2. CASE Locking(t)
    BY <2>2, LockingKeeps
  <2>3. CASE Going(t)
    BY <2>3, QuietSteps, PushKeeps, CallsKeep, SealKeeps DEF Going
  <2>4. CASE Calls(t)
    BY <2>4, CallsKeep
  <2> QED
    BY <2>1, <2>2, <2>3, <2>4
<1>4. CASE UNCHANGED vars
  <2>1. UNCHANGED <<pending, draining, written, dropped, started, sealing, file, accepted, made, wanted, unserved, elapsed,
                    owner, pc, line, stage, exiter>>
    BY <1>4 DEF vars, queueVars, streamVars, clockVars, callVars
  <2> QED
    BY <2>1 DEF Inv, TypeOK, HasLine, BatchInv
<1> QED
  BY <1>1, <1>2, <1>3, <1>4 DEF Next

LEMMA Invariance == Spec => []Inv
<1> QED
  BY InvInit, InvNext, PTL DEF Spec

(* The log keeps its types, whoever logs and wherever the process ends: in *)
(* particular the queue never exceeds its limit (push), the writer never   *)
(* reads past its batch (drain_locked), and no empty line is accepted.     *)
THEOREM TypeCorrect == Spec => []TypeOK
<1>1. Inv => TypeOK
  BY DEF Inv
<1> QED
  BY <1>1, Invariance, PTL
-----------------------------------------------------------------------------
(* Lines in order                                                          *)

LEMMA JoinAppend ==
  ASSUME NEW S, NEW a \in Seq(S), NEW b \in Seq(S), NEW c \in Seq(S), NEW x \in S
  PROVE  a \o b \o Append(c, x) = Append(a \o b \o c, x)
<1>1. a \o b \in Seq(S)
  BY ConcatProperties
<1>2. a \o b \o c \in Seq(S) /\ <<x>> \in Seq(S)
  BY <1>1, ConcatProperties
<1>3. Append(c, x) = c \o <<x>> /\ Append(a \o b \o c, x) = (a \o b \o c) \o <<x>>
  BY <1>2, AppendIsConcat
<1>4. ((a \o b) \o c) \o <<x>> = (a \o b) \o (c \o <<x>>)
  BY <1>1, <1>2, ConcatAssociative
<1> QED
  BY <1>3, <1>4

LEMMA FrontOfAppend ==
  ASSUME NEW S, NEW s \in Seq(S), NEW x \in S
  PROVE  Front(Append(s, x)) = s /\ Last(Append(s, x)) = x /\ Append(s, x) # <<>>
<1>1. /\ Append(s, x) \in Seq(S) /\ Append(s, x) # <<>> /\ Len(Append(s, x)) = Len(s) + 1 /\ Len(s) \in Nat
      /\ (\A i \in 1..Len(s) : Append(s, x)[i] = s[i]) /\ Append(s, x)[Len(s) + 1] = x
  BY AppendProperties, LenProperties
<1> DEFINE r == Append(s, x)
           n == Len(s)
           f == SubSeq(r, 1, n)
<1>2. Front(r) = f
  BY <1>1 DEF Front
<1>3. \A i \in 1..n : r[i] \in S
  BY <1>1, ElementOfSeq
<1>4. f \in Seq(S) /\ Len(f) = n /\ \A i \in 1..n : f[i] = r[i]
  <2> HIDE DEF r, n
  <2>1. n \in Nat
    BY <1>1 DEF n
  <2>2. /\ SubSeq(r, 1, n) \in Seq(S) /\ Len(SubSeq(r, 1, n)) = (IF 1 <= n THEN n - 1 + 1 ELSE 0)
        /\ \A i \in 1..(n - 1 + 1) : SubSeq(r, 1, n)[i] = r[1 + i - 1]
    BY <1>3, <2>1, SubSeqProperties
  <2> QED
    BY <2>1, <2>2
<1>5. f = s
  <2>1. \A i \in 1..Len(f) : f[i] = s[i]
    BY <1>1, <1>4
  <2>2. Len(f) = Len(s)
    BY <1>4
  <2> HIDE DEF f
  <2> QED
    BY <1>4, <2>1, <2>2, SeqEqual
<1> QED
  BY <1>1, <1>2, <1>5 DEF Last

LEMMA FrontAndLast ==
  ASSUME NEW S, NEW s \in Seq(S), s # <<>>
  PROVE  /\ Front(s) \in Seq(S) /\ Last(s) \in S /\ s = Append(Front(s), Last(s))
         /\ Len(s) \in Nat \ {0} /\ Len(Front(s)) = Len(s) - 1
<1>1. PICK r \in Seq(S), x \in S : s = Append(r, x)
  BY SequenceEmptyOrAppend
<1>2. Front(s) = r /\ Last(s) = x
  BY <1>1, FrontOfAppend
<1>3. Len(s) = Len(r) + 1 /\ Len(r) \in Nat
  BY <1>1, AppendProperties, LenProperties
<1> QED
  BY <1>1, <1>2, <1>3

(* What a writer has left of its batch.                                    *)
LEMMA LeftOfBatch ==
  ASSUME NEW S, NEW d \in Seq(S), NEW w \in Nat
  PROVE  /\ SubSeq(d, w + 1, Len(d)) \in Seq(S)
         /\ w < Len(d) => /\ SubSeq(d, w + 1, Len(d)) = <<d[w + 1]>> \o SubSeq(d, w + 2, Len(d))
                          /\ SubSeq(d, w + 2, Len(d)) \in Seq(S)
                          /\ d[w + 1] \in S
         /\ w >= Len(d) => SubSeq(d, w + 1, Len(d)) = <<>>
<1>1. Len(d) \in Nat /\ \A i \in 1..Len(d) : d[i] \in S
  BY LenProperties, ElementOfSeq
<1>2. \A m \in Nat \ {0} : SubSeq(d, m, Len(d)) \in Seq(S)
  <2> SUFFICES ASSUME NEW m \in Nat \ {0} PROVE SubSeq(d, m, Len(d)) \in Seq(S)
    OBVIOUS
  <2>1. \A i \in m..Len(d) : d[i] \in S
    BY <1>1
  <2>2. m \in Int /\ Len(d) \in Int
    BY <1>1
  <2> QED
    BY <2>1, <2>2, SubSeqProperties
<1>3. ASSUME w < Len(d)
      PROVE  SubSeq(d, w + 1, Len(d)) = <<d[w + 1]>> \o SubSeq(d, w + 2, Len(d))
  <2>1. w + 1 \in 1..Len(d) /\ Len(d) \in (w + 1)..Len(d) /\ (w + 1) + 1 = w + 2
    BY <1>1, <1>3
  <2> QED
    BY <2>1, SubSeqRecursiveFirst
<1>4. w >= Len(d) => SubSeq(d, w + 1, Len(d)) = <<>>
  <2>1. w + 1 \in Int /\ Len(d) \in Int /\ (w >= Len(d) => Len(d) < w + 1)
    BY <1>1
  <2> QED
    BY <2>1, SubSeqEmpty
<1> QED
  BY <1>1, <1>2, <1>3, <1>4

(* The line at the end of one sequence and at the front of the other is a  *)
(* repeat in both together, and taking it out leaves it once.              *)
LEMMA RepeatTakenOut ==
  ASSUME NEW S, NEW f \in Seq(S), NEW r \in Seq(S), f # <<>>, r # <<>>, r[1] = Last(f)
  PROVE  /\ RemoveAt(f \o r, Len(f)) = Front(f) \o r
         /\ Len(f) \in 1..(Len(f \o r) - 1) /\ (f \o r)[Len(f)] = (f \o r)[Len(f) + 1]
<1> DEFINE n == Len(f)
           m == Len(r)
           g == f \o r
<1>1. n \in Nat \ {0} /\ m \in Nat \ {0}
  BY EmptySeq
<1>2. g \in Seq(S) /\ Len(g) = n + m /\ \A i \in 1..(n + m) : g[i] = IF i <= n THEN f[i] ELSE r[i - n]
  BY ConcatProperties
<1>3. n \in 1..(Len(g) - 1) /\ g[n] = g[n + 1]
  <2>1. n \in 1..(n + m) /\ n + 1 \in 1..(n + m) /\ (n + 1) - n = 1 /\ n <= n /\ ~(n + 1 <= n)
    BY <1>1
  <2>2. g[n] = f[n] /\ g[n + 1] = r[1]
    BY <1>2, <2>1
  <2> QED
    BY <1>1, <1>2, <2>2 DEF Last
<1>4. Front(f) \in Seq(S) /\ Len(Front(f)) = n - 1 /\ f = Append(Front(f), Last(f))
  BY FrontAndLast
<1>5. SubSeq(g, 1, n - 1) = Front(f)
  <2>1. CASE n = 1
    <3>1. SubSeq(g, 1, n - 1) = <<>> /\ SubSeq(f, 1, n - 1) = <<>>
      BY <2>1, SubSeqEmpty
    <3> QED
      BY <3>1 DEF Front
  <2>2. CASE n # 1
    <3>1. 1 \in 1..Len(f) /\ n - 1 \in 1..Len(f)
      <4>1. n \in Nat \ {0} /\ n # 1
        BY <1>1, <2>2
      <4> HIDE DEF n
      <4>2. 1 \in 1..n /\ n - 1 \in 1..n
        BY <4>1
      <4> QED
        BY <4>2 DEF n
    <3>2. SubSeq(f \o r, 1, n - 1) = SubSeq(f, 1, n - 1)
      BY <3>1, SubSeqOfConcat1
    <3> QED
      BY <3>2 DEF Front
  <2> QED
    BY <2>1, <2>2
<1>6. SubSeq(g, n + 1, Len(g)) = r
  <2>1. n + 1 \in (Len(f) + 1)..(Len(f) + Len(r)) /\ n + m \in (Len(f) + 1)..(Len(f) + Len(r))
    BY <1>1
  <2>2. SubSeq(f \o r, n + 1, n + m) = SubSeq(r, (n + 1) - Len(f), (n + m) - Len(f))
    BY <2>1, SubSeqOfConcat2
  <2>3. (n + 1) - Len(f) = 1 /\ (n + m) - Len(f) = m
    BY <1>1
  <2>4. SubSeq(r, 1, m) = r
    BY SubSeqFull
  <2> QED
    BY <1>2, <2>2, <2>3, <2>4
<1> QED
  BY <1>3, <1>5, <1>6 DEF RemoveAt

(* A line more at the end does not disturb a repeat before it.             *)
LEMMA RepeatStays ==
  ASSUME NEW S, NEW f \in Seq(S), NEW x \in S, NEW k \in 1..(Len(f) - 1), f[k] = f[k + 1]
  PROVE  /\ RemoveAt(Append(f, x), k) = Append(RemoveAt(f, k), x) /\ RemoveAt(f, k) \in Seq(S)
         /\ k \in 1..(Len(Append(f, x)) - 1) /\ Append(f, x)[k] = Append(f, x)[k + 1]
<1> DEFINE n == Len(f)
           g == Append(f, x)
           a == SubSeq(f, 1, k - 1)
           b == SubSeq(f, k + 1, n)
<1>1. n \in Nat /\ k \in Nat /\ 1 <= k /\ k < n
  BY LenProperties
<1>2. g = f \o <<x>> /\ g \in Seq(S) /\ Len(g) = n + 1 /\ (\A i \in 1..n : g[i] = f[i]) /\ g[n + 1] = x
  BY AppendIsConcat, AppendProperties
<1>3. k \in 1..(Len(g) - 1) /\ g[k] = g[k + 1]
  <2>1. k \in 1..n /\ k + 1 \in 1..n
    BY <1>1
  <2> QED
    BY <1>1, <1>2, <2>1
<1>4. a \in Seq(S) /\ b \in Seq(S)
  <2>1. \A i \in 1..n : f[i] \in S
    BY ElementOfSeq
  <2>2. (\A i \in 1..(k - 1) : f[i] \in S) /\ (\A i \in (k + 1)..n : f[i] \in S)
    BY <1>1, <2>1
  <2>3. 1 \in Int /\ k - 1 \in Int /\ k + 1 \in Int /\ n \in Int
    BY <1>1
  <2> HIDE DEF n
  <2> QED
    BY <2>2, <2>3, SubSeqProperties
<1>5. SubSeq(g, 1, k - 1) = a
  <2>1. CASE k = 1
    <3>1. k - 1 \in Int /\ k - 1 < 1 /\ 1 \in Int
      BY <2>1
    <3> QED
      BY <3>1, SubSeqEmpty
  <2>2. CASE k # 1
    <3>1. 1 \in 1..Len(f) /\ k - 1 \in 1..Len(f) /\ <<x>> \in Seq(S)
      BY <1>1, <2>2
    <3> QED
      BY <1>2, <3>1, SubSeqOfConcat1
  <2> QED
    BY <2>1, <2>2
<1>6. SubSeq(g, k + 1, Len(g)) = b \o <<x>>
  <2>1. k + 1 \in 1..Len(g) /\ n + 1 \in (k + 1)..Len(g) /\ (n + 1) - 1 = n
    BY <1>1, <1>2
  <2>2. SubSeq(g, k + 1, n + 1) = SubSeq(g, k + 1, (n + 1) - 1) \o << g[n + 1] >>
    BY <1>2, <2>1, SubSeqRecursiveSecond
  <2>3. k + 1 \in 1..Len(f) /\ n \in 1..Len(f) /\ <<x>> \in Seq(S)
    BY <1>1
  <2>4. SubSeq(f \o <<x>>, k + 1, n) = SubSeq(f, k + 1, n)
    BY <2>3, SubSeqOfConcat1
  <2> QED
    BY <1>2, <2>1, <2>2, <2>4
<1> HIDE DEF a, b, n, g
<1>7. RemoveAt(g, k) = a \o (b \o <<x>>) /\ RemoveAt(f, k) = a \o b
  BY <1>5, <1>6 DEF RemoveAt, a, b, n
<1>8. a \o b \in Seq(S) /\ <<x>> \in Seq(S)
  BY <1>4, ConcatProperties
<1>9. (a \o b) \o <<x>> = a \o (b \o <<x>>)
  <2> DEFINE e == <<x>>
  <2>1. e \in Seq(S)
    BY <1>8
  <2> HIDE DEF e
  <2>2. (a \o b) \o e = a \o (b \o e)
    BY <1>4, <2>1, ConcatAssociative
  <2> QED
    BY <2>2 DEF e
<1>10. Append(a \o b, x) = (a \o b) \o <<x>>
  BY <1>8, AppendIsConcat
<1> QED
  BY <1>3, <1>7, <1>8, <1>9, <1>10 DEF g

-----------------------------------------------------------------------------
(* Where the accepted lines are: the seal leaves nothing queued, and the   *)
(* process ends once; before the streams open nothing is written; the      *)
(* writer has a batch while it writes; and a line that it has written and  *)
(* not yet counted is both the last one of the file and next in its batch. *)

SealInv ==
  /\ sealing => exiter # Nobody /\ pending = <<>> /\ draining = <<>>
  /\ exiter # Nobody => \/ pc[exiter] = "seal" /\ ~sealing
                        \/ sealing /\ pc[exiter] \notin {"seal", "inQueue"}

WriterInv ==
  /\ ~started => pc[Writer] = "wait" /\ file = <<>> /\ (exiter = Nobody => pending = accepted)
  /\ pc[Writer] \in {"wait", "drain"} => draining = <<>>
  /\ pc[Writer] = "count" /\ ~sealing =>
       file # <<>> /\ written < Len(draining) /\ Last(file) = draining[written + 1]

OrderInv == SealInv /\ WriterInv /\ WrittenInOrder

(* Of the state, what the order of the lines depends on, but for where the *)
(* threads are.                                                            *)
lineVars == <<pending, draining, written, started, sealing, file, accepted, exiter>>

LEMMA LinesTyped ==
  ASSUME Inv
  PROVE  /\ pending \in Seq(Lines) /\ draining \in Seq(Lines) /\ file \in Seq(Lines) /\ accepted \in Seq(Lines)
         /\ written \in Nat /\ Remainder \in Seq(Lines)
         /\ started \in BOOLEAN /\ sealing \in BOOLEAN
         /\ exiter \in Game \cup {Nobody} /\ exiter # Writer /\ (exiter # Nobody => exiter \in Loggers)
         /\ pc \in [Threads -> Steps]
<1>1. /\ pending \in Seq(Lines) /\ draining \in Seq(Lines) /\ file \in Seq(Lines) /\ accepted \in Seq(Lines)
      /\ written \in 0..QueueLimit /\ started \in BOOLEAN /\ sealing \in BOOLEAN
      /\ exiter \in Game \cup {Nobody} /\ pc \in [Threads -> Steps]
  BY DEF Inv, TypeOK
<1>2. written \in Nat
  BY <1>1, SinkAssumption
<1>3. Remainder \in Seq(Lines)
  BY <1>1, <1>2, LeftOfBatch DEF Remainder
<1>4. exiter # Writer /\ (exiter # Nobody => exiter \in Loggers)
  BY <1>1, SinkAssumption DEF Loggers
<1> QED
  BY <1>1, <1>2, <1>3, <1>4

LEMMA OrderInvInit == Init => OrderInv
<1> SUFFICES ASSUME Init PROVE OrderInv
  OBVIOUS
<1>1. /\ started = FALSE /\ sealing = FALSE /\ pending = <<>> /\ draining = <<>> /\ file = <<>> /\ accepted = <<>>
      /\ exiter = Nobody
  BY DEF Init
<1>2. pc[Writer] = "wait"
  BY Roles DEF Init
<1> QED
  BY <1>1, <1>2 DEF OrderInv, SealInv, WriterInv, WrittenInOrder

(* A thread that passes by the lines.                                      *)
LEMMA PassesBy ==
  ASSUME Inv, OrderInv, NEW t \in Loggers, NEW to, pc' = [pc EXCEPT ![t] = to],
         pc[t] # "seal", to # "seal", to = "inQueue" => ~sealing, UNCHANGED lineVars
  PROVE  OrderInv'
<1>1. UNCHANGED <<pending, draining, written, started, sealing, file, accepted, exiter>>
  BY DEF lineVars
<1>2. pc'[t] = to /\ pc'[Writer] = pc[Writer] /\ \A u \in Loggers \ {t} : pc'[u] = pc[u]
  BY LinesTyped, Roles
<1>3. SealInv'
  BY <1>1, <1>2, LinesTyped DEF OrderInv, SealInv
<1>4. WriterInv'
  BY <1>1, <1>2 DEF OrderInv, WriterInv
<1>5. WrittenInOrder'
  BY <1>1, <1>2 DEF OrderInv, WrittenInOrder, InOrder, Remainder, Repeats
<1> QED
  BY <1>3, <1>4, <1>5 DEF OrderInv

LEMMA OthersKeepOrder ==
  ASSUME Inv, OrderInv, NEW t \in Loggers,
         \/ Locking(t) \/ UnlockTail(t) \/ Drop(t) \/ StoreSnapshot(t) \/ ReadLedger(t) \/ LedgerBusy(t)
         \/ StoreSizes(t) \/ EndSeal(t) \/ Log(t) \/ RequestSample(t) \/ TrySnapshot(t)
         \/ SampleNow(t) \/ SampleInline(t) \/ (t = Sampler /\ (StartSampler \/ Tick))
  PROVE  OrderInv'
<1> USE DEF lineVars, queueVars, streamVars, callVars, clockVars
<1>a. AfterLog(t) \in {"ledger", "idle", "marker"} /\ AfterObserver(t) \in {"idle", "marker"}
  BY After
<1>b. AfterLog(t) \notin {"seal", "inQueue"} /\ AfterObserver(t) \notin {"seal", "inQueue"}
  BY <1>a
<1>1. CASE LockTail(t)
  BY <1>1, PassesBy DEF LockTail, Goto
<1>2. CASE LockQueue(t)
  BY <1>2, PassesBy DEF LockQueue, Goto
<1>3. CASE LockSnapshot(t)
  BY <1>3, PassesBy DEF LockSnapshot, Goto
<1>4. CASE LockSizes(t)
  BY <1>4, PassesBy DEF LockSizes, Goto
<1>5. CASE UnlockTail(t)
  BY <1>5, PassesBy DEF UnlockTail, Goto
<1>6. CASE Drop(t)
  BY <1>6, <1>b, PassesBy DEF Drop, Goto
<1>7. CASE StoreSnapshot(t)
  <2>1. PICK to \in {"tail", "idle", AfterLog(t)} : pc' = [pc EXCEPT ![t] = to]
    BY <1>7 DEF StoreSnapshot, BeginLog
  <2> QED
    BY <1>7, <1>b, <2>1, PassesBy DEF StoreSnapshot
<1>8. CASE ReadLedger(t)
  BY <1>8, PassesBy DEF ReadLedger, Goto
<1>9. CASE LedgerBusy(t)
  BY <1>9, <1>b, PassesBy DEF LedgerBusy, Goto
<1>10. CASE StoreSizes(t)
  <2>1. PICK to \in {"tail", AfterObserver(t)} : pc' = [pc EXCEPT ![t] = to]
    BY <1>10 DEF StoreSizes
  <2> QED
    BY <1>10, <1>b, <2>1, PassesBy DEF StoreSizes
<1>11. CASE EndSeal(t)
  BY <1>11, PassesBy DEF EndSeal, Goto
<1>12. CASE Log(t)
  <2>1. PICK to \in {"tail", "push", AfterLog(t)} : pc' = [pc EXCEPT ![t] = to]
    BY <1>12 DEF Log, BeginLog
  <2> QED
    BY <1>12, <1>b, <2>1, PassesBy DEF Log
<1>13. CASE RequestSample(t)
  <2>1. pc' = [pc EXCEPT ![t] = "idle"] /\ pc[t] = "idle" /\ UNCHANGED lineVars
    BY <1>13, LinesTyped, Roles DEF RequestSample
  <2> QED
    BY <2>1, PassesBy
<1>14. CASE TrySnapshot(t)
  BY <1>14, PassesBy DEF TrySnapshot, Goto
<1>15. CASE t = Sampler /\ StartSampler
  BY <1>15, PassesBy DEF StartSampler
<1>16. CASE t = Sampler /\ Tick
  <2>1. PICK to \in {"requested", "periodic", "idle"} : pc' = [pc EXCEPT ![t] = to]
    BY <1>16 DEF Tick, Goto
  <2> QED
    BY <1>16, <2>1, PassesBy DEF Tick, Goto
<1>17. CASE SampleNow(t)
  BY <1>17, PassesBy DEF SampleNow
<1>18. CASE SampleInline(t)
  BY <1>18, PassesBy DEF SampleInline, Goto
<1> QED
  BY <1>1, <1>2, <1>3, <1>4, <1>5, <1>6, <1>7, <1>8, <1>9, <1>10, <1>11, <1>12, <1>13, <1>14, <1>15, <1>16,
     <1>17, <1>18 DEF Locking

(* The streams open: nothing was written before, and all that was accepted *)
(* is queued.                                                              *)
LEMMA StartKeepsOrder ==
  ASSUME Inv, OrderInv, Start
  PROVE  OrderInv'
<1>1. /\ ~started /\ exiter = Nobody
      /\ UNCHANGED <<pending, draining, written, sealing, file, accepted, pc, exiter>>
  BY DEF Start, queueVars
<1>2. pc[Writer] = "wait" /\ file = <<>> /\ pending = accepted /\ draining = <<>>
  BY <1>1 DEF OrderInv, WriterInv
<1>3. Remainder = <<>>
  <2>1. written \in Nat /\ Len(draining) = 0 /\ draining \in Seq(Lines)
    BY <1>2, LinesTyped
  <2> QED
    BY <2>1, LeftOfBatch DEF Remainder
<1>4. InOrder(file)
  <2>1. <<>> \o <<>> = <<>> /\ <<>> \o pending = pending
    BY LinesTyped
  <2> QED
    BY <1>2, <1>3, <2>1 DEF InOrder
<1>5. InOrder(file)'
  BY <1>1, <1>4 DEF InOrder, Remainder
<1>6. WrittenInOrder'
  BY <1>1, <1>2, <1>5 DEF WrittenInOrder
<1>7. SealInv' /\ WriterInv'
  BY <1>1, <1>2 DEF OrderInv, SealInv, WriterInv
<1> QED
  BY <1>6, <1>7 DEF OrderInv

LEMMA ExitKeepsOrder ==
  ASSUME Inv, OrderInv, NEW t \in Loggers, ExitProcess(t)
  PROVE  OrderInv'
<1>1. /\ exiter = Nobody /\ exiter' = t /\ t \in Game /\ pc' = [pc EXCEPT ![t] = "seal"]
      /\ UNCHANGED <<pending, draining, written, started, sealing, file, accepted>>
  BY DEF ExitProcess, queueVars, streamVars
<1>2. pc'[t] = "seal" /\ pc'[Writer] = pc[Writer] /\ t # Nobody
  BY <1>1, LinesTyped, Roles, SinkAssumption
<1>3. SealInv' /\ WriterInv'
  BY <1>1, <1>2 DEF OrderInv, SealInv, WriterInv
<1>4. WrittenInOrder'
  BY <1>1, <1>2 DEF OrderInv, WrittenInOrder, InOrder, Remainder, Repeats
<1> QED
  BY <1>3, <1>4 DEF OrderInv

(* A line that is accepted goes to the end of the queue. The process is    *)
(* not ending then: the thread that ends it is past the queue.             *)
LEMMA EnqueueKeepsOrder ==
  ASSUME Inv, OrderInv, NEW t \in Loggers, Enqueue(t)
  PROVE  OrderInv'
<1> DEFINE x == line[t]
<1>1. /\ pc[t] = "inQueue" /\ exiter \in {Nobody, t} /\ pc' = [pc EXCEPT ![t] = AfterLog(t)]
      /\ pending' = Append(pending, x) /\ accepted' = Append(accepted, x)
      /\ UNCHANGED <<draining, written, started, sealing, file, exiter>>
  BY DEF Enqueue, Goto, Alive, Accept
<1>2. exiter = Nobody /\ ~sealing
  BY <1>1 DEF OrderInv, SealInv
<1>3. x \in Lines
  BY <1>1 DEF Inv, TypeOK, HasLine
<1>4. pc'[Writer] = pc[Writer]
  BY <1>1, LinesTyped, Roles
<1>5. SealInv' /\ WriterInv'
  BY <1>1, <1>2, <1>4 DEF OrderInv, SealInv, WriterInv
<1>6. Remainder' = Remainder
  BY <1>1 DEF Remainder
<1>7. ASSUME NEW lines \in Seq(Lines), InOrder(lines)
      PROVE  lines \o Remainder' \o pending' = accepted'
  <2>1. pending \in Seq(Lines) /\ Remainder \in Seq(Lines)
    BY LinesTyped
  <2>2. lines \o Remainder \o Append(pending, x) = Append(lines \o Remainder \o pending, x)
    BY <1>3, <2>1, JoinAppend
  <2> QED
    BY <1>1, <1>6, <1>7, <2>2 DEF InOrder
<1>8. WrittenInOrder'
  <2>1. CASE ~started
    BY <1>1, <2>1 DEF WrittenInOrder
  <2>2. CASE started /\ pc[Writer] # "count"
    <3>1. InOrder(file) /\ file \in Seq(Lines)
      BY <2>2, LinesTyped DEF OrderInv, WrittenInOrder
    <3>2. file' \o Remainder' \o pending' = accepted'
      BY <1>1, <1>7, <3>1
    <3> QED
      BY <1>4, <2>2, <3>2 DEF WrittenInOrder, InOrder
  <2>3. CASE started /\ pc[Writer] = "count"
    <3>1. InOrder(Front(file)) /\ file \in Seq(Lines) /\ file # <<>>
      BY <1>2, <2>3, LinesTyped DEF OrderInv, WrittenInOrder, WriterInv
    <3>2. Front(file) \in Seq(Lines)
      BY <3>1, FrontAndLast
    <3>3. Front(file) \o Remainder' \o pending' = accepted'
      BY <1>7, <3>1, <3>2
    <3>4. Front(file') \o Remainder' \o pending' = accepted'
      BY <1>1, <3>3
    <3> QED
      BY <1>1, <1>2, <1>4, <2>3, <3>4 DEF WrittenInOrder, InOrder
  <2> QED
    BY <2>1, <2>2, <2>3
<1> QED
  BY <1>5, <1>8 DEF OrderInv

(* With nothing queued, the lines are what has been accepted.              *)
LEMMA NothingQueued ==
  ASSUME Inv, draining = <<>>, pending = <<>>
  PROVE  Remainder = <<>> /\ \A lines \in Seq(Lines) : InOrder(lines) <=> lines = accepted
<1>1. Remainder = <<>>
  <2>1. written \in Nat /\ Len(draining) = 0 /\ draining \in Seq(Lines)
    BY LinesTyped
  <2> QED
    BY <2>1, LeftOfBatch DEF Remainder
<1>2. \A lines \in Seq(Lines) : lines \o <<>> = lines
  BY ConcatEmptySeq
<1> QED
  BY <1>1, <1>2 DEF InOrder

(* While the process ends a line goes straight to the file.                *)
LEMMA DirectKeepsOrder ==
  ASSUME Inv, Inv', OrderInv, NEW t \in Loggers, WriteDirect(t)
  PROVE  OrderInv'
<1> DEFINE x == line[t]
<1>1. /\ sealing /\ pc[t] = "push" /\ exiter \in {Nobody, t} /\ pc' = [pc EXCEPT ![t] = AfterLog(t)]
      /\ file' = Written(<<x>>) /\ accepted' = Append(accepted, x)
      /\ UNCHANGED <<pending, draining, written, started, sealing, exiter>>
  BY DEF WriteDirect, Goto, Alive, queueVars
<1>2. exiter = t /\ pending = <<>> /\ draining = <<>> /\ t # Nobody
  BY <1>1 DEF OrderInv, SealInv
<1>3. x \in Lines /\ file \in Seq(Lines) /\ accepted \in Seq(Lines)
  BY <1>1 DEF Inv, TypeOK, HasLine
<1>4. pc'[Writer] = pc[Writer] /\ pc'[t] = AfterLog(t)
  BY <1>1, LinesTyped, Roles
<1>5. SealInv'
  <2>1. AfterLog(t) \in {"ledger", "idle", "marker"}
    BY After
  <2> QED
    BY <1>1, <1>2, <1>4, <2>1 DEF SealInv
<1>6. WriterInv'
  BY <1>1, <1>2, <1>4 DEF OrderInv, WriterInv, Written
<1>7. WrittenInOrder'
  <2>1. CASE ~started
    BY <1>1, <2>1 DEF WrittenInOrder
  <2>2. CASE started
    <3>1. file' = Append(file, x)
      BY <1>1, <1>3, <2>2, AppendIsConcat DEF Written
    <3>2. \A lines \in Seq(Lines) : (InOrder(lines) => lines = accepted) /\ (lines = accepted' => InOrder(lines)')
      <4>1. \A lines \in Seq(Lines) : InOrder(lines) <=> lines = accepted
        BY <1>2, NothingQueued
      <4>2. Remainder' = Remainder /\ Remainder = <<>>
        BY <1>1, <1>2, NothingQueued DEF Remainder
      <4>3. \A lines \in Seq(Lines) : lines \o <<>> = lines
        BY ConcatEmptySeq
      <4>4. pending' = <<>>
        BY <1>1, <1>2
      <4>5. \A lines \in Seq(Lines) : lines = accepted' => lines \o Remainder' \o pending' = accepted'
        BY <4>2, <4>3, <4>4
      <4> QED
        BY <4>1, <4>5 DEF InOrder
    <3>3. CASE pc[Writer] # "count"
      <4>1. InOrder(file)
        BY <2>2, <3>3 DEF OrderInv, WrittenInOrder
      <4>2. file' = accepted' /\ file' \in Seq(Lines)
        <5>1. file = accepted
          BY <1>3, <3>2, <4>1
        <5>2. Append(file, x) \in Seq(Lines)
          BY <1>3, AppendProperties
        <5> QED
          BY <1>1, <3>1, <5>1, <5>2
      <4>3. file' \o Remainder' \o pending' = accepted'
        BY <3>2, <4>2 DEF InOrder
      <4> QED
        BY <1>4, <3>3, <4>3 DEF WrittenInOrder, InOrder
    <3>4. CASE pc[Writer] = "count"
      <4>1. PICK k \in Repeats : InOrder(RemoveAt(file, k))
        BY <1>1, <2>2, <3>4 DEF OrderInv, WrittenInOrder
      <4>2. k \in 1..(Len(file) - 1) /\ file[k] = file[k + 1]
        BY DEF Repeats
      <4>3. /\ RemoveAt(Append(file, x), k) = Append(RemoveAt(file, k), x) /\ RemoveAt(file, k) \in Seq(Lines)
            /\ k \in 1..(Len(Append(file, x)) - 1) /\ Append(file, x)[k] = Append(file, x)[k + 1]
        BY <1>3, <4>2, RepeatStays
      <4>4. RemoveAt(file', k) = accepted' /\ accepted' \in Seq(Lines)
        <5>1. RemoveAt(file, k) = accepted
          BY <3>2, <4>1, <4>3
        <5>2. Append(accepted, x) \in Seq(Lines)
          BY <1>3, AppendProperties
        <5> QED
          BY <1>1, <3>1, <4>3, <5>1, <5>2
      <4>5. k \in Repeats'
        BY <3>1, <4>3 DEF Repeats
      <4>6. RemoveAt(file', k) \o Remainder' \o pending' = accepted'
        BY <3>2, <4>4 DEF InOrder
      <4>7. pc'[Writer] = "count" /\ sealing'
        BY <1>1, <1>4, <3>4
      <4> QED
        BY <4>5, <4>6, <4>7 DEF WrittenInOrder, InOrder
    <3> QED
      BY <3>3, <3>4
  <2> QED
    BY <2>1, <2>2
<1> QED
  BY <1>5, <1>6, <1>7 DEF OrderInv

(* The seal writes what the writer had left and what is queued. If the     *)
(* writer died over a line it had written, that line is there twice.       *)
LEMMA SealKeepsOrder ==
  ASSUME Inv, Inv', OrderInv, NEW t \in Loggers, BeginSeal(t)
  PROVE  OrderInv'
<1>1. /\ pc[t] = "seal" /\ exiter \in {Nobody, t} /\ pc' = [pc EXCEPT ![t] = "snapshot"] /\ sealing' = TRUE
      /\ file' = Written(Remainder \o pending) /\ pending' = <<>> /\ draining' = <<>>
      /\ UNCHANGED <<written, started, accepted, exiter>>
  BY DEF BeginSeal, Goto, Alive
<1>2. exiter = t /\ exiter # Nobody /\ ~sealing
  BY <1>1 DEF Inv, BatchInv, OrderInv, SealInv
<1>3. pc'[Writer] = pc[Writer] /\ pc'[t] = "snapshot"
  BY <1>1, LinesTyped, Roles
<1>4. SealInv'
  BY <1>1, <1>2, <1>3 DEF SealInv
<1>5. WriterInv'
  BY <1>1, <1>2, <1>3 DEF OrderInv, WriterInv, Written
<1>6. /\ file \in Seq(Lines) /\ pending \in Seq(Lines) /\ Remainder \in Seq(Lines) /\ accepted \in Seq(Lines)
      /\ Remainder \o pending \in Seq(Lines)
  BY LinesTyped, ConcatProperties
<1>7. \A lines \in Seq(Lines) : lines \o Remainder \o pending = lines \o (Remainder \o pending)
  BY <1>6, ConcatAssociative
<1>8. \A lines \in Seq(Lines) : lines = accepted => lines \o Remainder' \o pending' = accepted'
  <2>1. Remainder' = <<>>
    <3>1. written' \in Nat /\ draining' = <<>> /\ Len(<<>>) = 0 /\ <<>> \in Seq(Lines)
      BY <1>1, LinesTyped
    <3>2. SubSeq(<<>>, written' + 1, Len(<<>>)) = <<>>
      BY <3>1, LeftOfBatch
    <3> QED
      BY <3>1, <3>2 DEF Remainder
  <2>2. \A lines \in Seq(Lines) : lines \o <<>> = lines
    BY ConcatEmptySeq
  <2> QED
    BY <1>1, <2>1, <2>2
<1>9. WrittenInOrder'
  <2>1. CASE ~started
    BY <1>1, <2>1 DEF WrittenInOrder
  <2>2. CASE started
    <3>1. file' = file \o (Remainder \o pending)
      BY <1>1, <2>2 DEF Written
    <3>2. CASE pc[Writer] # "count"
      <4>1. file \o Remainder \o pending = accepted
        BY <2>2, <3>2 DEF OrderInv, WrittenInOrder, InOrder
      <4>2. file' = accepted /\ file' \in Seq(Lines)
        BY <1>6, <1>7, <3>1, <4>1
      <4>3. file' \o Remainder' \o pending' = accepted'
        BY <1>8, <4>2
      <4> QED
        BY <1>3, <3>2, <4>3 DEF WrittenInOrder, InOrder
    <3>3. CASE pc[Writer] = "count"
      <4>1. InOrder(Front(file)) /\ file # <<>> /\ written < Len(draining) /\ Last(file) = draining[written + 1]
        BY <1>2, <2>2, <3>3 DEF OrderInv, WrittenInOrder, WriterInv
      <4>2. Front(file) \in Seq(Lines)
        BY <1>6, <4>1, FrontAndLast
      <4>3. Front(file) \o (Remainder \o pending) = accepted
        BY <1>7, <4>1, <4>2 DEF InOrder
      <4>4. Remainder \o pending # <<>> /\ (Remainder \o pending)[1] = Last(file)
        <5>1. /\ Remainder = <<draining[written + 1]>> \o SubSeq(draining, written + 2, Len(draining))
              /\ SubSeq(draining, written + 2, Len(draining)) \in Seq(Lines) /\ draining[written + 1] \in Lines
          BY <4>1, LinesTyped, LeftOfBatch DEF Remainder
        <5> DEFINE d == draining[written + 1]
                   r == SubSeq(draining, written + 2, Len(draining))
        <5>2. d \in Lines /\ r \in Seq(Lines) /\ Remainder = <<d>> \o r /\ Last(file) = d
          BY <4>1, <5>1
        <5> HIDE DEF d, r
        <5>3. <<d>> \in Seq(Lines) /\ Len(<<d>>) = 1 /\ <<d>>[1] = d /\ Len(r) \in Nat /\ Len(pending) \in Nat
          BY <1>6, <5>2, LenProperties
        <5>4. Remainder[1] = d /\ Len(Remainder) = 1 + Len(r)
          <6>1. 1 \in 1..(1 + Len(r))
            BY <5>3
          <6> QED
            BY <5>2, <5>3, <6>1, ConcatProperties
        <5>5. (Remainder \o pending)[1] = d /\ Len(Remainder \o pending) = Len(Remainder) + Len(pending)
          <6>1. 1 \in 1..(Len(Remainder) + Len(pending)) /\ 1 <= Len(Remainder)
            BY <5>3, <5>4
          <6> QED
            BY <1>6, <5>4, <6>1, ConcatProperties
        <5>6. Len(Remainder \o pending) # 0
          BY <5>3, <5>4, <5>5
        <5>7. Len(<<>>) = 0
          OBVIOUS
        <5> QED
          BY <5>2, <5>5, <5>6, <5>7
      <4>5. /\ RemoveAt(file', Len(file)) = Front(file) \o (Remainder \o pending)
            /\ Len(file) \in 1..(Len(file') - 1) /\ file'[Len(file)] = file'[Len(file) + 1]
        BY <1>6, <3>1, <4>1, <4>4, RepeatTakenOut
      <4>6. Len(file) \in Repeats'
        BY <4>5 DEF Repeats
      <4>7. RemoveAt(file', Len(file)) \o Remainder' \o pending' = accepted'
        BY <1>6, <1>8, <4>3, <4>5
      <4>8. pc'[Writer] = "count" /\ sealing'
        BY <1>1, <1>3, <3>3
      <4> QED
        BY <4>6, <4>7, <4>8 DEF WrittenInOrder, InOrder
    <3> QED
      BY <3>2, <3>3
  <2> QED
    BY <2>1, <2>2
<1> QED
  BY <1>4, <1>5, <1>9 DEF OrderInv

(* The writer takes the queue for its batch, writes a line, counts it.     *)
LEMMA WriterKeepsOrder ==
  ASSUME Inv, Inv', OrderInv, WriterWakes \/ Drain
  PROVE  OrderInv'
<1>0. /\ file \in Seq(Lines) /\ pending \in Seq(Lines) /\ draining \in Seq(Lines) /\ Remainder \in Seq(Lines)
      /\ written \in Nat /\ Len(draining) \in Nat
  BY LinesTyped, LenProperties
<1>1. /\ exiter = Nobody /\ ~sealing
      /\ UNCHANGED <<started, sealing, accepted, exiter>>
  <2>1. exiter \in {Nobody, Writer} /\ UNCHANGED <<started, sealing, accepted, exiter>>
    <3>1. CASE WriterWakes
      BY <3>1 DEF WriterWakes, streamVars, Goto, Alive
    <3>2. CASE Swap
      BY <3>2 DEF Swap, streamVars, Goto, Alive
    <3>3. CASE WriteLine
      BY <3>3 DEF WriteLine, Goto, Alive
    <3>4. CASE CountLine
      BY <3>4 DEF CountLine, streamVars, Goto, Alive
    <3>5. CASE EndDrain
      BY <3>5 DEF EndDrain, streamVars, Goto, Alive
    <3> QED
      BY <3>1, <3>2, <3>3, <3>4, <3>5 DEF Drain
  <2> QED
    BY <2>1, LinesTyped DEF OrderInv, SealInv
<1>2. SealInv'
  BY <1>1 DEF SealInv
<1>3. \A to : pc' = [pc EXCEPT ![Writer] = to] => pc'[Writer] = to
  BY LinesTyped, Roles
<1>4. pc[Writer] \in {"drain", "write", "count"} => started
  BY DEF OrderInv, WriterInv
<1>5. \A lines : InOrder(lines)' <=> lines \o Remainder' \o pending' = accepted
  BY <1>1 DEF InOrder
<1>6. CASE WriterWakes
  <2>1. /\ pc[Writer] = "wait" /\ pc'[Writer] = "drain" /\ started
        /\ UNCHANGED <<pending, draining, written, file>>
    BY <1>3, <1>6 DEF WriterWakes, Goto, queueVars, streamVars
  <2>2. WriterInv'
    BY <1>1, <2>1 DEF OrderInv, WriterInv
  <2>3. WrittenInOrder'
    BY <1>1, <2>1 DEF OrderInv, WrittenInOrder, InOrder, Remainder
  <2> QED
    BY <1>2, <2>2, <2>3 DEF OrderInv
<1>7. CASE Swap
  <2>1. /\ pc[Writer] = "drain" /\ pc'[Writer] = "write" /\ draining' = pending /\ pending' = <<>> /\ written' = 0
        /\ file' = file
    BY <1>3, <1>7 DEF Swap, Goto, streamVars
  <2>2. WriterInv'
    BY <1>1, <1>4, <2>1 DEF WriterInv
  <2>3. Remainder = <<>> /\ Remainder' = pending
    <3>1. draining = <<>>
      BY <2>1 DEF OrderInv, WriterInv
    <3>2. Len(draining) = 0
      BY <3>1
    <3>3. Remainder = <<>>
      BY <1>0, <3>2, LeftOfBatch DEF Remainder
    <3>4. SubSeq(pending, 1, Len(pending)) = pending
      BY <1>0, SubSeqFull
    <3>5. Remainder' = SubSeq(pending, 0 + 1, Len(pending))
      BY <2>1 DEF Remainder
    <3> QED
      BY <3>3, <3>4, <3>5
  <2>4. file' \o Remainder' \o pending' = accepted'
    <3>1. file \o Remainder \o pending = accepted
      BY <1>4, <2>1 DEF OrderInv, WrittenInOrder, InOrder
    <3>2. file \o <<>> = file /\ (file \o pending) \o <<>> = file \o pending
      BY <1>0, ConcatProperties, ConcatEmptySeq
    <3> QED
      BY <1>1, <2>1, <2>3, <3>1, <3>2
  <2>5. WrittenInOrder'
    BY <2>1, <2>4 DEF WrittenInOrder, InOrder
  <2> QED
    BY <1>2, <2>2, <2>5 DEF OrderInv
<1>8. CASE WriteLine
  <2> DEFINE x == draining[written + 1]
  <2>1. /\ pc[Writer] = "write" /\ pc'[Writer] = "count" /\ written < Len(draining) /\ file' = Append(file, x)
        /\ UNCHANGED <<pending, draining, written>>
    BY <1>3, <1>8 DEF WriteLine, Goto, queueVars
  <2>2. x \in Lines
    BY <1>0, <2>1, LeftOfBatch
  <2>3. Front(file') = file /\ Last(file') = x /\ file' # <<>>
    BY <1>0, <2>1, <2>2, FrontOfAppend
  <2>4. WriterInv'
    BY <1>1, <1>4, <2>1, <2>3 DEF WriterInv
  <2>5. Front(file') \o Remainder' \o pending' = accepted'
    <3>1. file \o Remainder \o pending = accepted
      BY <1>4, <2>1 DEF OrderInv, WrittenInOrder, InOrder
    <3>2. Remainder' = Remainder
      BY <2>1 DEF Remainder
    <3> QED
      BY <1>1, <2>1, <2>3, <3>1, <3>2
  <2>6. WrittenInOrder'
    BY <1>1, <2>1, <2>5 DEF WrittenInOrder, InOrder
  <2> QED
    BY <1>2, <2>4, <2>6 DEF OrderInv
<1>9. CASE CountLine
  <2>1. /\ pc[Writer] = "count" /\ pc'[Writer] = "write" /\ written' = written + 1
        /\ UNCHANGED <<pending, draining, file>>
    BY <1>3, <1>9 DEF CountLine, Goto, streamVars
  <2>2. WriterInv'
    BY <1>1, <1>4, <2>1 DEF WriterInv
  <2>3. file # <<>> /\ written < Len(draining) /\ Last(file) = draining[written + 1] /\ InOrder(Front(file))
    BY <1>1, <1>4, <2>1 DEF OrderInv, WriterInv, WrittenInOrder
  <2>4. /\ Remainder = <<Last(file)>> \o Remainder' /\ Remainder' \in Seq(Lines)
    <3>1. /\ Remainder = <<draining[written + 1]>> \o SubSeq(draining, written + 2, Len(draining))
          /\ SubSeq(draining, written + 2, Len(draining)) \in Seq(Lines)
      BY <1>0, <2>3, LeftOfBatch DEF Remainder
    <3>2. Remainder' = SubSeq(draining, (written + 1) + 1, Len(draining)) /\ (written + 1) + 1 = written + 2
      BY <1>0, <2>1 DEF Remainder
    <3> QED
      BY <2>3, <3>1, <3>2
  <2>5. Front(file) \in Seq(Lines) /\ Last(file) \in Lines /\ file = Append(Front(file), Last(file))
    BY <1>0, <2>3, FrontAndLast
  <2>6. Front(file) \o Remainder = file \o Remainder'
    <3> DEFINE f == Front(file)
               e == <<Last(file)>>
    <3>1. f \in Seq(Lines) /\ e \in Seq(Lines) /\ file = f \o e /\ Remainder = e \o Remainder'
      <4>1. Append(f, Last(file)) = f \o e
        BY <2>5, AppendIsConcat
      <4>2. e \in Seq(Lines)
        BY <2>5
      <4> QED
        BY <2>4, <2>5, <4>1, <4>2
    <3> HIDE DEF f, e
    <3>2. (f \o e) \o Remainder' = f \o (e \o Remainder')
      BY <2>4, <3>1, ConcatAssociative
    <3>3. f \o Remainder = file \o Remainder'
      BY <3>1, <3>2
    <3> QED
      BY <3>3 DEF f
  <2>7. file' \o Remainder' \o pending' = accepted'
    BY <1>1, <2>1, <2>3, <2>6 DEF InOrder
  <2>8. WrittenInOrder'
    BY <2>1, <2>7 DEF WrittenInOrder, InOrder
  <2> QED
    BY <1>2, <2>2, <2>8 DEF OrderInv
<1>10. CASE EndDrain
  <2>1. /\ pc[Writer] = "write" /\ pc'[Writer] = "wait" /\ written = Len(draining) /\ draining' = <<>> /\ written' = 0
        /\ UNCHANGED <<pending, file>>
    BY <1>3, <1>10 DEF EndDrain, Goto, streamVars
  <2>2. WriterInv'
    BY <1>1, <1>4, <2>1 DEF WriterInv
  <2>3. Remainder = <<>> /\ Remainder' = <<>>
    <3>1. written >= Len(draining)
      BY <1>0, <2>1
    <3>2. Remainder = <<>>
      BY <1>0, <3>1, LeftOfBatch DEF Remainder
    <3>3. <<>> \in Seq(Lines) /\ Len(<<>>) = 0 /\ 0 \in Nat /\ 0 >= 0
      OBVIOUS
    <3>4. SubSeq(<<>>, 0 + 1, Len(<<>>)) = <<>>
      BY <3>3, LeftOfBatch
    <3>5. Remainder' = SubSeq(<<>>, 0 + 1, Len(<<>>))
      BY <2>1 DEF Remainder
    <3> QED
      BY <3>2, <3>4, <3>5
  <2>4. file' \o Remainder' \o pending' = accepted'
    BY <1>1, <1>4, <2>1, <2>3 DEF OrderInv, WrittenInOrder, InOrder
  <2>5. WrittenInOrder'
    BY <2>1, <2>4 DEF WrittenInOrder, InOrder
  <2> QED
    BY <1>2, <2>2, <2>5 DEF OrderInv
<1> QED
  BY <1>6, <1>7, <1>8, <1>9, <1>10 DEF Drain

LEMMA OrderInvNext ==
  ASSUME Inv, OrderInv, [Next]_vars
  PROVE  OrderInv'
<1>0. Inv'
  BY InvNext
<1>1. CASE Start
  BY <1>1, StartKeepsOrder
<1>2. CASE StartSampler \/ Tick
  BY <1>2, Roles, OthersKeepOrder
<1>3. CASE WriterWakes \/ Drain
  BY <1>0, <1>3, WriterKeepsOrder
<1>4. CASE \E t \in Loggers : Locking(t) \/ Going(t) \/ Calls(t)
  <2>1. PICK t \in Loggers : Locking(t) \/ Going(t) \/ Calls(t)
    BY <1>4
  <2>2. CASE Locking(t)
    BY <2>2, OthersKeepOrder
  <2>3. CASE Going(t)
    BY <1>0, <2>3, OthersKeepOrder, EnqueueKeepsOrder, DirectKeepsOrder, SealKeepsOrder DEF Going
  <2>4. CASE Calls(t)
    BY <2>4, OthersKeepOrder, ExitKeepsOrder DEF Calls
  <2> QED
    BY <2>1, <2>2, <2>3, <2>4
<1>5. CASE UNCHANGED vars
  <2>1. UNCHANGED <<pending, draining, written, started, sealing, file, accepted, exiter, pc>>
    BY <1>5 DEF vars, queueVars, streamVars
  <2> QED
    BY <2>1 DEF OrderInv, SealInv, WriterInv, WrittenInOrder, InOrder, Remainder, Repeats
<1> QED
  BY <1>1, <1>2, <1>3, <1>4, <1>5 DEF Next

(* Whoever logs, and wherever the writer is when ExitProcess kills it: the *)
(* file and what is still to be written are the accepted lines, once each  *)
(* and in the order they were accepted, but for the one line that the      *)
(* writer had written and not yet counted (drain_locked, begin_seal).      *)
THEOREM LinesInOrder == Spec => []WrittenInOrder
<1>1. Inv /\ OrderInv /\ [Next]_vars => OrderInv'
  BY OrderInvNext
<1>2. OrderInv => WrittenInOrder
  BY DEF OrderInv
<1> QED
  BY <1>1, <1>2, OrderInvInit, Invariance, PTL DEF Spec
=============================================================================
