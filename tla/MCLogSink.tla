----------------------------- MODULE MCLogSink -----------------------------
(* Small instances of LogSink for TLC: threads of the game, of which any   *)
(* may call ExitProcess, the sampler and the writer.                       *)
EXTENDS LogSink
============================================================================
