--------------------------- MODULE PlayerPromise ---------------------------
(***************************************************************************)
(* What one call of the scenario player promises to whoever started it, a  *)
(* person or a nightly job that sees nothing but the exit code:            *)
(*                                                                         *)
(*   - it exits once, and by then no node process it started is left;      *)
(*   - if the scenario's outermost task has succeeded it exits with 0, and  *)
(*     if that task has failed with an assertion it exits with 30; in any  *)
(*     other case the code is neither of the two;                          *)
(*   - except when the console UI was asked for without a terminal: then   *)
(*     the code is 10 whatever the outermost task did, and tells nothing.  *)
(*                                                                         *)
(* How the nodes come and go, who stops them and in what order, is open.   *)
(* ScenarioRun is shown to implement this module.                          *)
(***************************************************************************)
EXTENDS Naturals

CONSTANTS
    Nodes,       \* the Raiden nodes
    Codes,       \* the codes the program can exit with
    NotExited    \* the value of `code` before the exit

VARIABLES
    busy,        \* the nodes with a process that runs
    result,      \* of the outermost task
    headless,    \* whether the console UI was asked for without a terminal
    code         \* the exit code

vars == <<busy, result, headless, code>>

Results == {"open", "success", "assertion", "failure"}

\* The exit codes that tell this result; an exit may come before any result.
Telling(r) ==
    IF headless /\ r # "open" THEN {10}
    ELSE CASE r = "success"   -> {0}
           [] r = "assertion" -> {30}
           [] OTHER           -> Codes \ {0, 30}

Init ==
    /\ busy = {}
    /\ result = "open"
    /\ headless \in BOOLEAN
    /\ code = NotExited

\* Nodes start and stop; the outermost task gets its result once.
Work ==
    /\ code = NotExited
    /\ busy' \in SUBSET Nodes
    /\ result' \in IF result = "open" THEN Results ELSE {result}
    /\ UNCHANGED <<headless, code>>

Exit ==
    /\ code = NotExited
    /\ busy = {}
    /\ code' \in Telling(result)
    /\ UNCHANGED <<busy, result, headless>>

Next == Work \/ Exit

Spec == Init /\ [][Next]_vars
=============================================================================
