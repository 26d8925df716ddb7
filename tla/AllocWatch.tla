----------------------------- MODULE AllocWatch -----------------------------
(***************************************************************************)
(* The allocation watch (diag/alloc_watch.h): a detour on one function of  *)
(* the operating system that counts every large allocation of the process, *)
(* keeps a record of the first Slots, and a report that reads the records  *)
(* without a lock while other threads write them.                          *)
(*                                                                         *)
(* The functions tried, in order, are NtAllocateVirtualMemory ("nt"),      *)
(* VirtualAlloc ("virtual"), and the executable's import of VirtualAlloc   *)
(* ("import"). The first two get a jump written over their first bytes     *)
(* while other threads may be executing them.                              *)
(***************************************************************************)
EXTENDS Naturals, Sequences, SequencesExt, Tally

CONSTANTS
  Threads,
  Slots,            (* max_alloc_records                                   *)
  MaxModules,       (* max_alloc_modules                                   *)
  WatchThreshold,   (* alloc_watch_threshold                               *)
  Backtraces,       (* bound: the modules a stack may show, callee first   *)
  Sizes,            (* bound: what is asked for                            *)
  MaxNotes          (* bound: large allocations counted                    *)

ASSUME WatchAssumption ==
  /\ {Slots, MaxModules, WatchThreshold, MaxNotes} \subseteq Nat /\ Slots > 0
  /\ Sizes \subseteq Nat \ {0} /\ IsFiniteSet(Threads)

VARIABLES
  install,    (* which function is being patched, and how far              *)
  original,   (* the original of that function has been stored           *)
  adrift,     (* a thread ran a jump of which only the opcode was written  *)
  refused,    (* a detour ran without an original                          *)
  call,       (* what a thread in the detour is doing, and for what        *)
  totals,     (* context_totals, of all contexts together                  *)
  claimed,    (* alloc_record_count                                        *)
  dropped,    (* alloc_records_dropped                                     *)
  records,    (* alloc_records                                             *)
  report      (* report_alloc_records on the sampler's thread              *)

vars == <<install, original, adrift, refused, call, totals, claimed, dropped, records, report>>

Allocator == "ntdll"     (* stands for the modules of allocator_modules()   *)
Kinds  == <<"nt", "virtual", "import">>
Inline == {"nt", "virtual"}
NoRecord == [size |-> 0, landed |-> FALSE, frames |-> << >>]
Quiet    == [step |-> "none", size |-> 0, landed |-> FALSE, slot |-> 0]
NoReport == [at |-> 0, count |-> 0, rows |-> << >>, missed |-> 0, seen |-> 0, bytes |-> 0, half |-> FALSE]

Init ==
  /\ install = [kind |-> 1, step |-> "look"]
  /\ original = FALSE /\ adrift = FALSE /\ refused = FALSE
  /\ call = [t \in Threads |-> Quiet]
  /\ totals = [count |-> 0, bytes |-> 0]
  /\ claimed = 0 /\ dropped = 0
  /\ records = [i \in 0..(Slots - 1) |-> NoRecord]
  /\ report = NoReport

TypeOK ==
  /\ install \in [kind : 1..4, step : {"look", "protect", "patch", "half", "done"}]
  /\ original \in BOOLEAN /\ adrift \in BOOLEAN /\ refused \in BOOLEAN
  /\ call \in [Threads -> [step : {"none", "note", "claim", "write", "frames", "cap", "drop"},
                           size : Sizes \cup {0}, landed : BOOLEAN, slot : Nat]]
  /\ totals \in [count : Nat, bytes : Nat]
  /\ claimed \in Nat /\ dropped \in Nat
  /\ records \in [0..(Slots - 1) -> [size : Sizes \cup {0}, landed : BOOLEAN, frames : Backtraces \cup {<< >>}]]

-----------------------------------------------------------------------------
(* enable_allocation_watch                                                 *)

Kind == Kinds[install.kind]
To(step) == install' = [install EXCEPT !.step = step]
watchRest == <<adrift, refused, call, totals, claimed, dropped, records, report>>

(* The function is not found, its first bytes are not the ones known, no   *)
(* trampoline, or the page cannot be written: the next one is tried.       *)
TryNext ==
  /\ install.kind < 4 /\ install.step \in {"look", "protect"}
  /\ install' = [kind |-> install.kind + 1, step |-> IF install.kind = 3 THEN "done" ELSE "look"]
  /\ original' = FALSE
  /\ UNCHANGED watchRest

(* The trampoline is built and stored; for the import, its slot is found.  *)
Find ==
  /\ install.kind < 4 /\ install.step = "look" /\ To("protect")
  /\ original' = (Kind \in Inline)
  /\ UNCHANGED watchRest

Unprotect ==
  /\ install.step = "protect" /\ To("patch")
  /\ UNCHANGED <<original, watchRest>>

(* The opcode of the jump; for the import, the original.                   *)
PatchFirst ==
  /\ install.step = "patch" /\ To("half")
  /\ original' = TRUE
  /\ UNCHANGED watchRest

(* The distance of the jump; for the import, the slot.                     *)
PatchSecond ==
  /\ install.step = "half" /\ To("done")
  /\ UNCHANGED <<original, watchRest>>

-----------------------------------------------------------------------------
(* The detours                                                             *)

Watching == install.kind < 4 /\ install.step = "done"
(* A thread that enters the function now executes a torn jump.             *)
Torn == install.kind < 4 /\ install.step = "half" /\ Kind \in Inline

Goto(t, step) == call' = [call EXCEPT ![t].step = step]

(* The memory has been reserved, or not, and the detour has seen it. Only  *)
(* NtAllocateVirtualMemory's status is looked at before it is counted.     *)
Observed(t, size, landed) ==
  IF Watching /\ original /\ size >= WatchThreshold /\ (Kind = "nt" => landed)
  THEN call' = [call EXCEPT ![t] = [step |-> "note", size |-> size, landed |-> landed, slot |-> 0]]
  ELSE UNCHANGED call

(* A thread asks the operating system for memory.                          *)
Reserve(t, size, landed) ==
  /\ call[t] = Quiet /\ ~adrift
  /\ Watching /\ size >= WatchThreshold
       => totals.count + Cardinality({u \in Threads : call[u].step = "note"}) < MaxNotes
  /\ adrift'  = Torn
  /\ refused' = (refused \/ (Watching /\ ~original))
  /\ Observed(t, size, landed)
  /\ UNCHANGED <<install, original, totals, claimed, dropped, records, report>>

detourRest == <<install, original, adrift, refused, report>>

Note(t) ==
  /\ call[t].step = "note" /\ Goto(t, "claim")
  /\ totals' = [count |-> totals.count + 1, bytes |-> totals.bytes + call[t].size]
  /\ UNCHANGED <<detourRest, claimed, dropped, records>>

(* fetch_add.                                                              *)
Claim(t) ==
  /\ call[t].step = "claim"
  /\ call' = [call EXCEPT ![t].slot = claimed, ![t].step = IF claimed < Slots THEN "write" ELSE "cap"]
  /\ claimed' = claimed + 1
  /\ UNCHANGED <<detourRest, totals, dropped, records>>

(* The stores of a record have no order that a reader could rely on: the   *)
(* size or the address may be seen without the other.                      *)
Write(t) ==
  /\ call[t].step = "write"
  /\ LET slot == call[t].slot
         done == [NoRecord EXCEPT !.size = call[t].size, !.landed = call[t].landed]
     IN \/ /\ records[slot] = NoRecord /\ UNCHANGED call
           /\ \/ records' = [records EXCEPT ![slot].size = call[t].size]
              \/ call[t].landed /\ records' = [records EXCEPT ![slot].landed = TRUE]
        \/ records' = [records EXCEPT ![slot] = done] /\ Goto(t, "frames")
  /\ UNCHANGED <<detourRest, totals, claimed, dropped>>

(* collect_frames: what the unwinder shows, or nothing.                    *)
Unwind(t) ==
  /\ call[t].step = "frames" /\ call' = [call EXCEPT ![t] = Quiet]
  /\ \E b \in Backtraces \cup {<< >>} : records' = [records EXCEPT ![call[t].slot].frames = b]
  /\ UNCHANGED <<detourRest, totals, claimed, dropped>>

(* Fault: one too few.                                                     *)
CapLow(t) ==
  /\ call[t].step = "cap" /\ Goto(t, "drop")
  /\ claimed' = Slots - 1
  /\ UNCHANGED <<detourRest, totals, dropped, records>>

Cap(t) ==
  /\ call[t].step = "cap" /\ Goto(t, "drop")
  /\ claimed' = Slots
  /\ UNCHANGED <<detourRest, totals, dropped, records>>

CountDropped(t) ==
  /\ call[t].step = "drop" /\ call' = [call EXCEPT ![t] = Quiet]
  /\ dropped' = dropped + 1
  /\ UNCHANGED <<detourRest, totals, claimed, records>>

-----------------------------------------------------------------------------
(* report_alloc_records                                                    *)

(* requester_of: the first frame that is no allocator's, or the immediate  *)
(* caller's module, which is one.                                          *)
Requester(frames) ==
  LET clients == SelectSeq(frames, LAMBDA m : m /= Allocator)
  IN  IF clients = << >> THEN Allocator ELSE Head(clients)

(* Fault: a further allocation of a module adds only its bytes.            *)
AttributeBytes(rows, module, bytes) ==
  LET known == SelectInSeq(rows, LAMBDA r : r.module = module)
  IN  IF bytes = 0 \/ (known = 0 /\ Len(rows) = MaxModules) THEN rows
      ELSE IF known = 0 THEN Append(rows, [module |-> module, count |-> 1, bytes |-> bytes])
      ELSE [rows EXCEPT ![known] = [@ EXCEPT !.bytes = @ + bytes]]

(* attribute: the rows with a further allocation; the same rows when it    *)
(* has no size or the table is full.                                       *)
Attribute(rows, module, bytes) ==
  LET known == SelectInSeq(rows, LAMBDA r : r.module = module)
      Row(count, total) == [module |-> module, count |-> count, bytes |-> total]
  IN  IF bytes = 0 \/ (known = 0 /\ Len(rows) = MaxModules) THEN rows
      ELSE IF known = 0 THEN Append(rows, Row(1, bytes))
      ELSE [rows EXCEPT ![known] = Row(@.count + 1, @.bytes + bytes)]

reportRest == <<install, original, adrift, refused, call, totals, claimed, dropped, records>>
Reporting == report.at < report.count

StartReport ==
  /\ ~Reporting /\ claimed > 0
  /\ report' = [NoReport EXCEPT !.count = IF claimed < Slots THEN claimed ELSE Slots]
  /\ UNCHANGED reportRest

(* A record whose address is not there is passed over.                     *)
SkipRecord ==
  /\ Reporting /\ ~report.half /\ ~records[report.at].landed
  /\ report' = [report EXCEPT !.at = @ + 1]
  /\ UNCHANGED reportRest

(* The size is read for the module's row ...                               *)
AttributeRecord ==
  /\ Reporting /\ ~report.half /\ records[report.at].landed
  /\ LET r    == records[report.at]
         rows == Attribute(report.rows, Requester(r.frames), r.size)
     IN report' = [report EXCEPT !.rows = rows, !.half = TRUE,
                                 !.missed = IF rows = report.rows THEN @ + 1 ELSE @]
  /\ UNCHANGED reportRest

(* ... and read again for the sums below and above 2 GB.                   *)
TallyRecord ==
  /\ report.half
  /\ report' = [report EXCEPT !.half = FALSE, !.at = @ + 1, !.seen = @ + 1,
                              !.bytes = @ + records[report.at].size]
  /\ UNCHANGED reportRest

(* A thread that ran a torn jump takes the process with it.                *)
Install == TryNext \/ Find \/ Unprotect \/ PatchFirst \/ PatchSecond
Report  == StartReport \/ SkipRecord \/ AttributeRecord \/ TallyRecord
ThreadNext(t) ==
  \/ \E size \in Sizes, landed \in BOOLEAN : Reserve(t, size, landed)
  \/ Note(t) \/ Claim(t) \/ Write(t) \/ Unwind(t) \/ Cap(t) \/ CountDropped(t)

Next == ~adrift /\ (Install \/ Report \/ \E t \in Threads : ThreadNext(t))

Spec == Init /\ [][Next]_vars

-----------------------------------------------------------------------------
At(step) == {t \in Threads : call[t].step = step}
Counts(rows) == [i \in DOMAIN rows |-> rows[i].count]
Bytes(rows)  == [i \in DOMAIN rows |-> rows[i].bytes]
Half   == IF report.half THEN 1 ELSE 0

(* Every large allocation is accounted for once: it has a record of its    *)
(* own, or is counted as dropped, or its thread is still on its way; no    *)
(* record is written by two threads, whoever stores the cap over whose     *)
(* increment, and the count stays about its cap, however many allocations  *)
(* follow; and no detour is entered before it knows what to call.          *)
RecordsAccounted ==
  /\ claimed <= Slots + Cardinality(Threads)
  /\ totals.count = Cardinality({i \in DOMAIN records : records[i].size /= 0 /\ \A t \in At("write") : call[t].slot /= i})
             + dropped + Cardinality(At("claim") \cup At("write") \cup At("cap") \cup At("drop"))
  /\ \A t, u \in At("write") \cup At("frames") : call[t].slot = call[u].slot => t = u
  /\ ~refused

(* A report that races the detours adds up: each record that it counts is  *)
(* in one module's row or counted as unattributable, and no line claims    *)
(* more than the sums below it, nor they more than was ever counted.       *)
ReportAddsUp ==
  /\ Total(Counts(report.rows)) + report.missed = report.seen + Half
  /\ report.half \/ Total(Bytes(report.rows)) <= report.bytes
  /\ report.bytes <= totals.bytes
  /\ \A i, j \in DOMAIN report.rows : report.rows[i].module = report.rows[j].module => i = j
=============================================================================
