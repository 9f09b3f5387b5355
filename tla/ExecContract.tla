---------------------------- MODULE ExecContract ----------------------------
(***************************************************************************)
(* What Sandbox.Exec promises its caller, without backends, cgroups,       *)
(* signals or goroutines:                                                  *)
(*   - it answers once, and when it does nobody writes to the output any   *)
(*     more;                                                               *)
(*   - an exit status is that of a command which was started and which the *)
(*     context has not killed; an abort has its cause in the context;      *)
(*   - of a command that is confined, in a PID namespace or a cgroup,      *)
(*     nothing goes on once it has answered, unless control was lost.      *)
(* SandboxExec, the Exec methods with their clean-up, implements it.       *)
(***************************************************************************)
CONSTANT Procs

VARIABLES
    context,    \* "live" or "done"
    answer,     \* what the caller gets: "none" before it
    born,       \* the processes of the command, past and present
    active,     \* those that go on
    talking,    \* those that may write to the output
    killed,     \* the command was killed for its context
    confined    \* what the command started can be found and killed

vars == <<context, answer, born, active, talking, killed, confined>>

Init ==
    /\ context = "live"
    /\ answer = "none"
    /\ born = {}
    /\ active = {}
    /\ talking = {}
    /\ killed = FALSE
    /\ confined \in BOOLEAN

Expire ==
    /\ context = "live" /\ answer = "none"
    /\ context' = "done"
    /\ UNCHANGED <<answer, born, active, talking, killed, confined>>

Confine ==
    /\ born = {} /\ answer = "none"
    /\ confined' = TRUE
    /\ UNCHANGED <<context, answer, born, active, talking, killed>>

Launch(p) ==
    /\ born = {} /\ answer = "none" /\ context = "live"
    /\ born' = {p} /\ active' = {p} /\ talking' = {p}
    /\ UNCHANGED <<context, answer, killed, confined>>

(* Only who has the output can pass it on.                                 *)
Grow(p, q) ==
    /\ p \in active /\ q \notin born
    /\ born' = born \cup {q}
    /\ active' = active \cup {q}
    /\ \/ talking' = talking
       \/ p \in talking /\ talking' = talking \cup {q}
    /\ UNCHANGED <<context, answer, killed, confined>>

(* Some processes end, or have a signal on its way to them.                *)
Shrink ==
    /\ active' \in SUBSET active
    /\ talking' \in SUBSET talking
    /\ UNCHANGED <<context, answer, born, killed, confined>>

Kill(p) ==
    /\ context = "done" /\ answer = "none" /\ p \in active
    /\ killed' = TRUE
    /\ active' = active \ {p}
    /\ UNCHANGED <<context, answer, born, talking, confined>>

(* The kill of what is left fails.                                         *)
LoseControl ==
    /\ confined /\ answer = "none"
    /\ confined' = FALSE
    /\ UNCHANGED <<context, answer, born, active, talking, killed>>

Return(outcome) ==
    /\ answer = "none"
    /\ talking = {}
    /\ confined => active = {}
    /\ outcome = "exit" => born # {} /\ ~ killed
    /\ outcome = "aborted" => born # {} /\ context = "done"
    /\ answer' = outcome
    /\ UNCHANGED <<context, born, active, talking, killed, confined>>

Next ==
    \/ Expire
    \/ Confine
    \/ \E p \in Procs : Launch(p)
    \/ \E p, q \in Procs : Grow(p, q)
    \/ Shrink
    \/ \E p \in Procs : Kill(p)
    \/ LoseControl
    \/ \E outcome \in {"exit", "aborted", "failed"} : Return(outcome)

Spec == Init /\ [][Next]_vars
=============================================================================
