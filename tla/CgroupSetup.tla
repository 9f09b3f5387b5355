----------------------------- MODULE CgroupSetup -----------------------------
(***************************************************************************)
(* What a daemon with a memory limit does to the cgroup v2 hierarchy       *)
(* before it serves, and what the doctor sees of it.                       *)
(*   sandbox/cgroup_k8s.go   SetupCgroupV2, runInitLeafAt,                 *)
(*                           enableMemoryController                        *)
(*   sandbox/cgroup.go       checkCgroupAvailableWith                      *)
(*   sandbox/status.go       CurrentStatus                                 *)
(* There is the cgroup of the pod, "root", and the leaf "init" below it.   *)
(* Two processes may run the daemon: "main", which the container or        *)
(* launchd starts, and "other", which someone starts beside it.  Each file *)
(* operation is a step, so their setups interleave; the daemon's life      *)
(* after the setup is in Daemon.                                           *)
(***************************************************************************)
EXTENDS Naturals

Daemons == {"main", "other"}
Places == {"root", "init"}

SetupPhases == {"start", "mkdir", "migrate", "enable", "retry", "verify"}

LaterPhases == {"load", "remove", "listen", "chmod", "serving", "closing",
                "draining", "exit", "off"}

VARIABLES
    host,       \* what the daemon finds: a record that never changes
    pc,         \* the phase each daemon is in
    where,      \* the cgroup each daemon is in
    base,       \* execCgroupBase, "none" before it is set
    ready,      \* cgroupReady
    initDir,    \* whether init/ exists
    subtree     \* whether root's cgroup.subtree_control has memory

cgroupVars == <<where, base, ready, initDir, subtree>>

Alive(d) == pc[d] \notin {"exit", "off"}

Goto(d, phase) == pc' = [pc EXCEPT ![d] = phase]

(* Run returns the error and the process ends.                             *)
Fail(d) == Goto(d, "exit") /\ UNCHANGED cgroupVars

-----------------------------------------------------------------------------
(* The kernel's side.                                                      *)

(* Processes in root itself: +memory is refused with EBUSY.                *)
Crowded == host.wrapped \/ \E d \in Daemons : Alive(d) /\ where[d] = "root"

(* cgroup.controllers of a cgroup is the subtree_control of its parent.    *)
HasMemory(place) == IF place = "root" THEN host.memory ELSE subtree

-----------------------------------------------------------------------------
(* The setup.  Definitions named Faulty... are plausible mistakes in the    *)
(* definition that follows them; each makes one property of Service fail.   *)

InK8sPod == host.mounted /\ host.k8s

(* The base of the cgroups to come is the cgroup that the process is in.    *)
FaultyProbe(d) ==
    /\ pc[d] = "start"
    /\ IF ~ host.limit THEN Goto(d, "load") /\ UNCHANGED cgroupVars
       ELSE IF ~ InK8sPod \/ ~ host.v2 THEN Fail(d)
       ELSE IF where[d] = "root" THEN Goto(d, "mkdir") /\ UNCHANGED cgroupVars
       ELSE /\ Goto(d, "verify")
            /\ base' = [base EXCEPT ![d] = where[d]]
            /\ UNCHANGED <<where, ready, initDir, subtree>>

(* A process that starts inside init/ has nothing to do but to check.      *)
Probe(d) ==
    /\ pc[d] = "start"
    /\ IF ~ host.limit THEN Goto(d, "load") /\ UNCHANGED cgroupVars
       ELSE IF ~ InK8sPod \/ ~ host.v2 THEN Fail(d)
       ELSE IF where[d] = "root" THEN Goto(d, "mkdir") /\ UNCHANGED cgroupVars
       ELSE /\ Goto(d, "verify")
            /\ base' = [base EXCEPT ![d] = "root"]
            /\ UNCHANGED <<where, ready, initDir, subtree>>

(* A directory that is there already is no failure.                        *)
MakeInit(d) ==
    /\ pc[d] = "mkdir"
    /\ IF initDir \/ host.writable
       THEN /\ Goto(d, "migrate")
            /\ initDir' = TRUE
            /\ UNCHANGED <<where, base, ready, subtree>>
       ELSE Fail(d)

(* Only the daemon itself moves; whoever shares root with it stays.        *)
Migrate(d) ==
    /\ pc[d] = "migrate"
    /\ IF host.writable
       THEN /\ Goto(d, "enable")
            /\ where' = [where EXCEPT ![d] = "init"]
            /\ UNCHANGED <<base, ready, initDir, subtree>>
       ELSE Fail(d)

(* EBUSY is tried again once, any other error is final.                    *)
EnableMemory(d) ==
    /\ pc[d] \in {"enable", "retry"}
    /\ IF subtree \/ (host.memory /\ ~ Crowded)
       THEN /\ Goto(d, "verify")
            /\ subtree' = TRUE
            /\ base' = [base EXCEPT ![d] = "root"]
            /\ UNCHANGED <<where, ready, initDir>>
       ELSE IF host.memory /\ pc[d] = "enable"
            THEN Goto(d, "retry") /\ UNCHANGED cgroupVars
            ELSE Fail(d)

(* SetupCgroupV2's second half: the cgroup that the process is in now has  *)
(* the controller and can be written to.                                   *)
Verify(d) ==
    /\ pc[d] = "verify"
    /\ IF HasMemory(where[d]) /\ host.writable
       THEN /\ Goto(d, "load")
            /\ ready' = [ready EXCEPT ![d] = TRUE]
            /\ UNCHANGED <<where, base, initDir, subtree>>
       ELSE Fail(d)

SetupStep(d) ==
    \/ Probe(d)
    \/ MakeInit(d)
    \/ Migrate(d)
    \/ EnableMemory(d)
    \/ Verify(d)

-----------------------------------------------------------------------------
(* The doctor, a process of its own, looks at the cgroup of PID 1.         *)

Proc1 == IF host.wrapped THEN "root" ELSE where["main"]

InitLeafCheck == InK8sPod /\ host.v2 /\ Proc1 = "init"

(* The memory controller is looked for in the leaf itself.                  *)
FaultyMemoryCheck == InK8sPod /\ host.v2 /\ Proc1 = "root" /\ subtree

(* The parent of PID 1's cgroup, or that cgroup itself, is root.           *)
MemoryCheck == InK8sPod /\ host.v2 /\ subtree

DoctorReady == InK8sPod /\ host.mounted /\ InitLeafCheck /\ MemoryCheck
=============================================================================
