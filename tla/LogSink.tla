------------------------------ MODULE LogSink ------------------------------
(***************************************************************************)
(* The log of include/lyrium/log.h, the sampler thread that writes to it   *)
(* (include/lyrium/diag), and the end of the process: ExitProcess kills    *)
(* every thread but the one that called it, wherever they are, and that    *)
(* one runs DLL_PROCESS_DETACH (src/d3d9.cpp).                             *)
(*                                                                         *)
(* A killed thread keeps the locks it holds. A step is what a thread does  *)
(* between two points where another one can be seen or it can be killed.   *)
(* The two streams are one sequence here; a line is a number.              *)
(*                                                                         *)
(* A definition marked as a fault is what a plausible mistake would make   *)
(* of the one that follows it; nothing here uses it.                       *)
(***************************************************************************)
EXTENDS Naturals, Sequences, SequencesExt

CONSTANTS
  Game,        (* threads of the game                                      *)
  Sampler,     (* the sampler thread                                       *)
  Writer,      (* the log's writer thread                                  *)
  Nobody,
  QueueLimit,  (* queue_limit                                              *)
  Interval,    (* sample_interval_ms, in polls                             *)
  MaxLines,    (* bound: log_is_enabled turns false after that many lines  *)
  MaxInline    (* bound: a game's thread samples until so many are logged  *)

ASSUME SinkAssumption ==
  /\ Sampler \notin Game \cup {Writer, Nobody} /\ Writer \notin Game \cup {Nobody}
  /\ Nobody \notin Game
  /\ QueueLimit \in Nat \ {0} /\ Interval \in Nat \ {0}
  /\ MaxLines \in Nat /\ MaxInline \in Nat

VARIABLES
  started,   (* running_, and the streams are open                         *)
  sealing,   (* sealing_                                                   *)
  pending,   (* pending_                                                   *)
  draining,  (* draining_                                                  *)
  written,   (* draining_written_                                          *)
  dropped,   (* dropped_                                                   *)
  file,      (* what the streams have been given                           *)
  accepted,  (* history: lines in the order they were accepted             *)
  made,      (* history: lines logged                                      *)
  wanted,    (* SampleSchedule::pending_                                   *)
  unserved,  (* history: a failed create asked for a walk, and none of     *)
             (* that kind has begun since                                  *)
  elapsed,   (* SampleSchedule::elapsed_ms_, in polls                      *)
  owner,     (* who holds a mutex                                          *)
  pc,        (* where a thread is                                          *)
  line,      (* the line it logs                                           *)
  stage,     (* which call of sample_now it is in, if any                  *)
  exiter     (* the thread that called ExitProcess                         *)

queueVars  == <<pending, draining, written, dropped>>
streamVars == <<started, sealing, file, accepted>>
clockVars  == <<wanted, unserved, elapsed>>
callVars   == <<line, stage>>
vars == <<queueVars, streamVars, made, clockVars, owner, pc, callVars, exiter>>

Loggers == Game \cup {Sampler}
Threads == Loggers \cup {Writer}
Locks   == {"mutex", "tail", "snapshot", "sizes"}
Steps   == {"unborn", "idle", "tail", "inTail", "push", "inQueue", "requested",
            "periodic", "snapshot", "inSnapshot", "ledger", "sizes", "inSizes", "wait", "drain",
            "write", "count", "seal", "marker", "ended"}

Init ==
  /\ started = FALSE /\ sealing = FALSE
  /\ pending = <<>> /\ draining = <<>> /\ written = 0 /\ dropped = 0
  /\ file = <<>> /\ accepted = <<>> /\ made = 0
  /\ wanted = FALSE /\ unserved = FALSE /\ elapsed = 0
  /\ owner = [m \in Locks |-> Nobody]
  /\ pc = [t \in Threads |-> CASE t = Writer  -> "wait"
                               [] t = Sampler -> "unborn"
                               [] OTHER       -> "idle"]
  /\ line = [t \in Loggers |-> 0]
  /\ stage = [t \in Loggers |-> "game"]
  /\ exiter = Nobody

-----------------------------------------------------------------------------
(* Helpers                                                                 *)

Alive(t) == exiter \in {Nobody, t}
Goto(t, from, to) == Alive(t) /\ pc[t] = from /\ pc' = [pc EXCEPT ![t] = to]
Lock(t, m)   == owner[m] = Nobody /\ owner' = [owner EXCEPT ![m] = t]
Unlock(m)    == owner' = [owner EXCEPT ![m] = Nobody]

Observing == pc[Sampler] /= "unborn"

(* Where a thread goes on after a call of log: sample_now logs its own     *)
(* line, then its observer, which is set as the sampler starts, those of   *)
(* the engine. The observer's line about the ledger is left out.           *)
AfterObserver(t) == IF t = exiter THEN "marker" ELSE "idle"
AfterLog(t) == CASE stage[t] = "walk" /\ Observing -> "ledger"
                 [] stage[t] = "game"              -> "idle"
                 [] OTHER                          -> AfterObserver(t)
StageAfterLog(t) == IF AfterLog(t) = "ledger" THEN "walk" ELSE "game"
LogReturns(t) ==
  /\ stage' = [stage EXCEPT ![t] = StageAfterLog(t)]
  /\ line' = [line EXCEPT ![t] = 0]

(* log: the line is formatted, if logging is enabled.                      *)
Enabled == made < MaxLines
BeginLog(t, to) ==
  /\ made' = IF Enabled THEN made + 1 ELSE made
  /\ line' = [line EXCEPT ![t] = IF Enabled THEN made + 1 ELSE 0]
  /\ pc' = [pc EXCEPT ![t] = IF Enabled THEN to ELSE AfterLog(t)]

-----------------------------------------------------------------------------
(* push_text and push_event                                                *)

(* LogSink::start: the streams are open before anybody drains.            *)
Start ==
  /\ ~started /\ exiter = Nobody /\ owner["mutex"] = Nobody
  /\ started' = TRUE
  /\ UNCHANGED <<queueVars, sealing, file, accepted, made, clockVars, owner, pc,
                 callVars, exiter>>

(* A line of text goes through the tail ring, an event does not.           *)
Log(t) ==
  /\ t \in Game /\ Alive(t) /\ pc[t] = "idle" /\ Enabled
  /\ \E to \in {"tail", "push"} : BeginLog(t, to)
  /\ UNCHANGED <<queueVars, streamVars, clockVars, owner, stage, exiter>>

LockTail(t) ==
  /\ Goto(t, "tail", "inTail") /\ Lock(t, "tail")
  /\ UNCHANGED <<queueVars, streamVars, made, clockVars, callVars, exiter>>

UnlockTail(t) ==
  /\ Goto(t, "inTail", "push") /\ Unlock("tail")
  /\ UNCHANGED <<queueVars, streamVars, made, clockVars, callVars, exiter>>

LockQueue(t) ==
  /\ ~sealing
  /\ Goto(t, "push", "inQueue") /\ Lock(t, "mutex")
  /\ UNCHANGED <<queueVars, streamVars, made, clockVars, callVars, exiter>>

Accept(t) == pending' = Append(pending, line[t]) /\ accepted' = Append(accepted, line[t])

DropKeepsLock(t) ==                                                (* fault *)
  /\ Len(pending) >= QueueLimit
  /\ Goto(t, "inQueue", AfterLog(t)) /\ LogReturns(t)
  /\ dropped' = dropped + 1
  /\ UNCHANGED <<pending, draining, written, streamVars, made, clockVars, owner, exiter>>

Drop(t) ==
  /\ Len(pending) >= QueueLimit
  /\ Goto(t, "inQueue", AfterLog(t)) /\ LogReturns(t)
  /\ Unlock("mutex")
  /\ dropped' = dropped + 1
  /\ UNCHANGED <<pending, draining, written, streamVars, made, clockVars, exiter>>

Enqueue(t) ==
  /\ Len(pending) < QueueLimit
  /\ Goto(t, "inQueue", AfterLog(t)) /\ LogReturns(t)
  /\ Unlock("mutex")
  /\ Accept(t)
  /\ UNCHANGED <<draining, written, dropped, started, sealing, file, made, clockVars, exiter>>

(* Nothing reaches a stream that is not open.                              *)
Written(lines) == IF started THEN file \o lines ELSE file

WriteDirect(t) ==
  /\ sealing
  /\ Goto(t, "push", AfterLog(t)) /\ LogReturns(t)
  /\ file' = Written(<<line[t]>>)
  /\ accepted' = Append(accepted, line[t])
  /\ UNCHANGED <<queueVars, started, sealing, made, clockVars, owner, exiter>>

-----------------------------------------------------------------------------
(* The writer: drain_locked, with mutex_ held from beginning to end. (It   *)
(* also wakes to find the queue empty, which changes nothing.)             *)

WriterWakes ==
  /\ started /\ pending /= <<>>
  /\ Goto(Writer, "wait", "drain") /\ Lock(Writer, "mutex")
  /\ UNCHANGED <<queueVars, streamVars, made, clockVars, callVars, exiter>>

Swap ==
  /\ Goto(Writer, "drain", "write")
  /\ draining' = pending /\ pending' = <<>> /\ written' = 0
  /\ UNCHANGED <<dropped, streamVars, made, clockVars, owner, callVars, exiter>>

WriteLine ==
  /\ written < Len(draining)
  /\ Goto(Writer, "write", "count")
  /\ file' = Append(file, draining[written + 1])
  /\ UNCHANGED <<queueVars, started, sealing, accepted, made, clockVars, owner, callVars, exiter>>

CountLine ==
  /\ Goto(Writer, "count", "write")
  /\ written' = written + 1
  /\ UNCHANGED <<pending, draining, dropped, streamVars, made, clockVars, owner, callVars, exiter>>

EndDrainKeepsBatch ==                                              (* fault *)
  /\ written = Len(draining)
  /\ Goto(Writer, "write", "wait") /\ Unlock("mutex")
  /\ written' = 0
  /\ UNCHANGED <<pending, draining, dropped, streamVars, made, clockVars, callVars, exiter>>

EndDrain ==
  /\ written = Len(draining)
  /\ Goto(Writer, "write", "wait") /\ Unlock("mutex")
  /\ draining' = <<>> /\ written' = 0
  /\ UNCHANGED <<pending, dropped, streamVars, made, clockVars, callVars, exiter>>

-----------------------------------------------------------------------------
(* The sampler                                                             *)

(* Sampler::start, later: its thread begins with a walk.                   *)
StartSampler ==
  /\ started /\ exiter = Nobody /\ pc[Sampler] = "unborn"
  /\ pc' = [pc EXCEPT ![Sampler] = "snapshot"]
  /\ stage' = [stage EXCEPT ![Sampler] = "walk"]
  /\ UNCHANGED <<queueVars, streamVars, made, clockVars, owner, line, exiter>>

(* A failed create asks for a walk, however often.                         *)
RequestSample(t) ==
  /\ t \in Game /\ Alive(t) /\ pc[t] = "idle"
  /\ wanted' = TRUE /\ unserved' = TRUE
  /\ UNCHANGED <<queueVars, streamVars, made, elapsed, owner, pc, callVars, exiter>>

(* Fault: a periodic walk that is due outranks the request, which the      *)
(* exchange has cleared.                                                   *)
TickPeriodicFirst ==
  LET now    == elapsed + 1
      action == IF now >= Interval THEN "periodic" ELSE IF wanted THEN "requested" ELSE "idle"
  IN /\ Goto(Sampler, "idle", action)
     /\ wanted' = FALSE
     /\ elapsed' = IF action = "idle" THEN now ELSE 0
     /\ UNCHANGED <<queueVars, streamVars, made, unserved, owner, callVars, exiter>>

(* tick decides: a request comes first, and restarts the interval.         *)
Tick ==
  LET now    == elapsed + 1
      action == IF wanted THEN "requested" ELSE IF now >= Interval THEN "periodic" ELSE "idle"
  IN /\ Goto(Sampler, "idle", action)
     /\ wanted' = FALSE
     /\ elapsed' = IF action = "idle" THEN now ELSE 0
     /\ UNCHANGED <<queueVars, streamVars, made, unserved, owner, callVars, exiter>>

(* The sampler calls sample_now as tick has decided.                       *)
SampleNow(t) ==
  /\ Alive(t) /\ pc[t] \in {"requested", "periodic"}
  /\ pc' = [pc EXCEPT ![t] = "snapshot"]
  /\ stage' = [stage EXCEPT ![t] = "walk"]
  /\ unserved' = (unserved /\ pc[t] /= "requested")
  /\ UNCHANGED <<queueVars, streamVars, made, wanted, elapsed, owner, line, exiter>>

(* A reset or a failed buffer has the game's thread walk itself.           *)
SampleInline(t) ==
  /\ t \in Game /\ made < MaxInline
  /\ Goto(t, "idle", "snapshot")
  /\ stage' = [stage EXCEPT ![t] = "walk"]
  /\ UNCHANGED <<queueVars, streamVars, made, clockVars, owner, line, exiter>>

(* sample_now walks without a lock, then publishes its figures under one.  *)
LockSnapshot(t) ==
  /\ Goto(t, "snapshot", "inSnapshot") /\ Lock(t, "snapshot")
  /\ UNCHANGED <<queueVars, streamVars, made, clockVars, callVars, exiter>>

StoreSnapshot(t) ==
  /\ t \in Loggers /\ Alive(t) /\ pc[t] = "inSnapshot" /\ Unlock("snapshot")
  /\ IF stage[t] = "walk"
     THEN BeginLog(t, "tail") /\ stage' = [stage EXCEPT ![t] = IF Enabled THEN "walk" ELSE StageAfterLog(t)]
     ELSE pc' = [pc EXCEPT ![t] = "idle"] /\ UNCHANGED <<made, line, stage>>
  /\ UNCHANGED <<queueVars, streamVars, clockVars, exiter>>

(* The observer gives up if the ledger is busy, which it does not wait     *)
(* for; the engine's figures are taken under used_sizes_mutex.             *)
ReadLedger(t) ==
  /\ Goto(t, "ledger", "sizes")
  /\ UNCHANGED <<queueVars, streamVars, made, clockVars, owner, callVars, exiter>>

LedgerBusy(t) ==
  /\ Goto(t, "ledger", AfterObserver(t))
  /\ stage' = [stage EXCEPT ![t] = "game"]
  /\ UNCHANGED <<queueVars, streamVars, made, clockVars, owner, line, exiter>>

LockSizes(t) ==
  /\ Goto(t, "sizes", "inSizes") /\ Lock(t, "sizes")
  /\ UNCHANGED <<queueVars, streamVars, made, clockVars, callVars, exiter>>

StoreSizes(t) ==
  /\ t \in Loggers /\ Alive(t) /\ pc[t] = "inSizes" /\ Unlock("sizes")
  /\ made' = IF Enabled THEN made + 1 ELSE made
  /\ line' = [line EXCEPT ![t] = IF Enabled THEN made + 1 ELSE 0]
  /\ pc' = [pc EXCEPT ![t] = IF Enabled THEN "tail" ELSE AfterObserver(t)]
  /\ stage' = [stage EXCEPT ![t] = IF Enabled THEN "observer" ELSE "game"]
  /\ UNCHANGED <<queueVars, streamVars, clockVars, exiter>>

(* The overlay reads the figures each frame, and declines rather than      *)
(* waits (try_snapshot).                                                   *)
TrySnapshot(t) ==
  /\ t \in Game
  /\ Goto(t, "idle", "inSnapshot") /\ Lock(t, "snapshot")
  /\ UNCHANGED <<queueVars, streamVars, made, clockVars, callVars, exiter>>

-----------------------------------------------------------------------------
(* The end of the process                                                  *)

ExitProcess(t) ==
  /\ t \in Game /\ exiter = Nobody /\ pc[t] = "idle"
  /\ exiter' = t
  /\ pc' = [pc EXCEPT ![t] = "seal"]
  /\ UNCHANGED <<queueVars, streamVars, made, clockVars, owner, callVars>>

(* What the writer had in flight when it died, oldest first.               *)
Remainder == SubSeq(draining, written + 1, Len(draining))

SealQueueOnly(t) ==                                                (* fault *)
  /\ Goto(t, "seal", "snapshot")
  /\ sealing' = TRUE
  /\ file' = Written(pending)
  /\ pending' = <<>> /\ draining' = <<>>
  /\ stage' = [stage EXCEPT ![t] = "walk"]
  /\ UNCHANGED <<written, dropped, started, accepted, made, clockVars, owner, line, exiter>>

(* begin_seal, which takes no lock; then sample_now("shutdown").           *)
BeginSeal(t) ==
  /\ Goto(t, "seal", "snapshot")
  /\ sealing' = TRUE
  /\ file' = Written(Remainder \o pending)
  /\ pending' = <<>> /\ draining' = <<>>
  /\ stage' = [stage EXCEPT ![t] = "walk"]
  /\ UNCHANGED <<written, dropped, started, accepted, made, clockVars, owner, line, exiter>>

(* end_seal writes a marker with the number of dropped lines.              *)
EndSeal(t) ==
  /\ Goto(t, "marker", "ended")
  /\ UNCHANGED <<queueVars, streamVars, made, clockVars, owner, callVars, exiter>>

-----------------------------------------------------------------------------
Locking(t) == \/ LockTail(t) \/ LockQueue(t) \/ LockSnapshot(t) \/ LockSizes(t)
Going(t) == \/ SampleNow(t) \/ UnlockTail(t) \/ Drop(t) \/ Enqueue(t) \/ WriteDirect(t)
            \/ StoreSnapshot(t) \/ ReadLedger(t) \/ LedgerBusy(t)
            \/ StoreSizes(t) \/ BeginSeal(t) \/ EndSeal(t)
Drain == Swap \/ WriteLine \/ CountLine \/ EndDrain
Calls(t) == Log(t) \/ RequestSample(t) \/ SampleInline(t) \/ TrySnapshot(t) \/ ExitProcess(t)

Next == \/ Start \/ StartSampler \/ WriterWakes \/ Drain \/ Tick
        \/ \E t \in Loggers : Locking(t) \/ Going(t) \/ Calls(t)

Spec == Init /\ [][Next]_vars

(* The operating system runs every thread and a mutex that is free again   *)
(* and again is given to whoever waits; the sampler's sleep ends.          *)
Fairness ==
  /\ SF_vars(WriterWakes) /\ WF_vars(Drain) /\ WF_vars(Tick)
  /\ \A t \in Loggers : SF_vars(Locking(t)) /\ WF_vars(Going(t))
FairSpec == Spec /\ Fairness

-----------------------------------------------------------------------------
(* Properties                                                              *)

Lines == 1..MaxLines
TypeOK ==
  /\ started \in BOOLEAN /\ sealing \in BOOLEAN /\ wanted \in BOOLEAN /\ unserved \in BOOLEAN
  /\ pending \in Seq(Lines) /\ Len(pending) <= QueueLimit
  /\ draining \in Seq(Lines) /\ file \in Seq(Lines) /\ accepted \in Seq(Lines)
  /\ written \in 0..QueueLimit
  /\ dropped \in Nat /\ made \in 0..MaxLines
  /\ elapsed \in 0..(Interval - 1)
  /\ owner \in [Locks -> Threads \cup {Nobody}]
  /\ pc \in [Threads -> Steps]
  /\ line \in [Loggers -> Lines \cup {0}]
  /\ stage \in [Loggers -> {"game", "walk", "observer"}]
  /\ exiter \in Game \cup {Nobody}

(* What is written and what is still to be written are the accepted lines  *)
(* in the order they were accepted, wherever the writer was killed. The    *)
(* one exception: the line it had written and not yet counted, which the   *)
(* seal writes a second time (drain_locked, begin_seal).                   *)
Repeats == {k \in 1..(Len(file) - 1) : file[k] = file[k + 1]}
InOrder(lines) == lines \o Remainder \o pending = accepted
WrittenInOrder ==
  started => \/ pc[Writer] /= "count" /\ InOrder(file)
             \/ pc[Writer] = "count" /\ ~sealing /\ InOrder(Front(file))
             \/ pc[Writer] = "count" /\ sealing /\ \E k \in Repeats : InOrder(RemoveAt(file, k))

(* An accepted line is written, also when the process exits while it is    *)
(* queued or in the writer's hands and even if the exit then hangs         *)
(* (run, begin_seal).                                                      *)
EveryLineWritten ==
  \A l \in Lines :
    (started /\ l \in ToSet(accepted)) ~> (l \in ToSet(file))

(* While the process runs nobody is stuck in the log or in the sampler:    *)
(* each mutex is released, a full queue too (push, run).                   *)
NobodyStuck ==
  \A t \in Loggers : (pc[t] \notin {"unborn", "idle"}) ~> (pc[t] = "idle" \/ exiter /= Nobody)

(* A failed create is answered by a walk that begins after it and carries  *)
(* its reason (va[create_failed]), however the request falls: during       *)
(* another walk, which was too early to count, on the tick a periodic walk *)
(* is due, or before the sampler starts (SampleSchedule, run).             *)
RequestServed == (Observing /\ unserved) ~> (~unserved \/ exiter /= Nobody)

(* "a thread killed by ExitProcess while holding one holds it forever, and *)
(* anything that later waits on it deadlocks inside the loader": the exit  *)
(* waits for no lock that a killed thread holds.                           *)
WaitsFor(t) == CASE pc[t] = "tail"     -> {"tail"}
                 [] pc[t] = "snapshot" -> {"snapshot"}
                 [] pc[t] = "sizes"    -> {"sizes"}
                 [] pc[t] = "push" /\ ~sealing -> {"mutex"}
                 [] OTHER              -> {}
ExitWaitsForNobody ==
  exiter /= Nobody => \A m \in WaitsFor(exiter) : owner[m] = Nobody
=============================================================================
