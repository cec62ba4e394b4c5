----------------------------- MODULE MCRunLoop -----------------------------
(* Instances of RunLoop for TLC: which calls the program makes. *)
EXTENDS RunLoop

SafetyCalls == {"run", "once", "handle", "close", "setpref", "funcs", "demand", "over",
                "fail", "dontblock"}
LiveCalls == {"run", "badfd", "once", "handle", "close", "enqueue", "dequeue", "signal", "kill"}

\* At first the program wants all it can of each registered descriptor, and its
\* on-demand functions' integers are set: a call of its takes that back.
SafetyInit ==
  /\ Init
  /\ \A fd \in assoc : want[fd] = Type
  /\ demand = Demand
SafetySpec == SafetyInit /\ [][Next]_vars
=============================================================================
