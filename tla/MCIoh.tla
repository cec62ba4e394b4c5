------------------------------- MODULE MCIoh -------------------------------
(* Instances of Ioh for TLC: which calls the program makes, and where. *)
EXTENDS Ioh

\* Everything from everywhere, but for flushes and nested runs in callbacks.
AllCalls == [p \in Status \cup {"main"} |->
  CASE p = "main" -> CallName
    [] p = "IohClosing" -> {"write", "close", "abort", "shutwrite"}
    [] p = "WriteAborted" -> {"write", "bypass", "shutread", "shutwrite", "throttle"}
    [] OTHER -> CallName \ {"flush", "run", "rundestroy"}]

CloseCalls == [p \in Status \cup {"main"} |->
  IF p \in {"main", "WriteComplete"} THEN {"write", "close"} ELSE {}]
=============================================================================
