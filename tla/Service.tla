------------------------------ MODULE Service ------------------------------
(***************************************************************************)
(* The daemon among those who start it, stop it and look at it: a          *)
(* container runtime or launchd, which start it again when it has ended;   *)
(* somebody who runs a second one; the command line on macOS.              *)
(*   internal/daemon/launchd.go   Install, Uninstall, Start, Stop, Restart *)
(*   internal/daemon/daemon.go    what a signal does before and after      *)
(*                                signal.Notify                            *)
(* A daemon may die at any step.  What it leaves behind - the path of its  *)
(* socket, an init leaf without the controller - is what the next one      *)
(* finds.  Crashes, signals, commands and second daemons are counted       *)
(* together, and MaxDisturbances bounds them.                              *)
(***************************************************************************)
EXTENDS Daemon

VARIABLES
    plist,      \* whether the agent's file is there
    loaded,     \* whether launchd has the agent loaded: KeepAlive, RunAtLoad
    cli         \* what the command line is about to do

serviceVars == <<plist, loaded, cli>>
vars == <<host, pc, cgroupVars, daemonVars, serviceVars>>

CliPhases == {"idle", "write", "bootstrap", "delete", "unlink"}

Init ==
    /\ host \in Hosts
    /\ pc = [d \in Daemons |-> "off"]
    /\ where = [d \in Daemons |-> "root"]
    /\ base = [d \in Daemons |-> "none"]
    /\ ready = [d \in Daemons |-> FALSE]
    /\ initDir = FALSE
    /\ subtree = FALSE
    /\ path = "free"
    /\ open = [d \in Daemons |-> FALSE]
    /\ work = [d \in Daemons |-> FALSE]
    /\ alone = TRUE
    /\ disturbances = 0
    /\ plist = FALSE
    /\ loaded = FALSE
    /\ cli = "idle"

Disturb ==
    /\ disturbances < MaxDisturbances
    /\ disturbances' = disturbances + 1

Before == SetupPhases \cup {"load", "remove", "listen", "chmod"}

-----------------------------------------------------------------------------
(* Processes start and end.                                                *)

StartsAs(d, place) ==
    /\ pc[d] = "off"
    /\ Goto(d, "start")
    /\ where' = [where EXCEPT ![d] = place]
    /\ base' = [base EXCEPT ![d] = "none"]
    /\ ready' = [ready EXCEPT ![d] = FALSE]
    /\ UNCHANGED <<host, initDir, subtree, path, open, work, serviceVars>>

(* launchd starts a loaded agent whenever its process is gone, a container *)
(* its command.                                                            *)
Spawn ==
    /\ host.launchd => loaded
    /\ StartsAs("main", "root")
    /\ alone' = (pc["other"] = "off")
    /\ UNCHANGED disturbances

(* By hand, or by an exec into the container, which puts the process into  *)
(* the leaf once root may hold none.  By hand it has the environment of    *)
(* the shell; at another address than the agent's it does not meet main.   *)
StartOther ==
    /\ Disturb
    /\ host.launchd => OneEnvironment
    /\ host.launchd \/ host.wrapped \/ Alive("main")
    /\ StartsAs("other", IF subtree THEN "init" ELSE "root")
    /\ alone' = FALSE

(* The listener goes with the process, the path of a unix socket does not. *)
Ends(d) ==
    /\ Goto(d, "exit")
    /\ open' = [open EXCEPT ![d] = FALSE]
    /\ path' = IF path # d THEN path
               ELSE IF Network = "unix" THEN "stale" ELSE "free"

Crash(d) ==
    /\ Disturb
    /\ Alive(d)
    /\ Ends(d)
    /\ UNCHANGED <<host, cgroupVars, work, alone, serviceVars>>

(* SIGTERM ends a daemon that has not yet called signal.Notify, which it   *)
(* does a moment after it has begun to serve; it starts the shutdown of    *)
(* one that has, and tells one that shuts down nothing new.                *)
Terminated(d) ==
    \/ pc[d] \in Before \cup {"serving"} /\ Ends(d)
    \/ pc[d] = "serving" /\ Goto(d, "closing") /\ UNCHANGED <<path, open>>
    \/ pc[d] \notin Before \cup {"serving"} /\ UNCHANGED <<pc, path, open>>

Signal(d) ==
    /\ Disturb
    /\ Alive(d)
    /\ Terminated(d)
    /\ UNCHANGED <<host, cgroupVars, work, alone, serviceVars>>

(* Serve gives up, closing the listener, and Run returns its error.        *)
ServeFails(d) ==
    /\ Disturb
    /\ pc[d] = "serving"
    /\ Goto(d, "exit")
    /\ Unlistens(d)
    /\ UNCHANGED <<host, cgroupVars, work, alone, serviceVars>>

(* With PID 1 the container ends, and the next one has cgroups and files   *)
(* of its own.                                                             *)
ContainerEnds ==
    /\ ~ host.launchd /\ ~ host.wrapped
    /\ pc["main"] = "exit"
    /\ pc' = [d \in Daemons |-> "off"]
    /\ path' = "free"
    /\ open' = [d \in Daemons |-> FALSE]
    /\ work' = [d \in Daemons |-> FALSE]
    /\ initDir' = FALSE
    /\ subtree' = FALSE
    /\ UNCHANGED <<host, where, base, ready, alone, disturbances, serviceVars>>

Reaped(d) ==
    /\ pc[d] = "exit"
    /\ d = "main" => host.launchd \/ host.wrapped
    /\ Goto(d, "off")
    /\ work' = [work EXCEPT ![d] = FALSE]
    /\ UNCHANGED <<host, cgroupVars, path, open, alone, disturbances, serviceVars>>

-----------------------------------------------------------------------------
(* The command line, where there is launchd.                               *)

Command ==
    /\ host.launchd
    /\ cli = "idle"
    /\ Disturb

(* launchctl bootout.  Its failure is logged by those who go on after it.  *)
Bootout(ok) ==
    IF loaded /\ ok THEN loaded' = FALSE /\ Terminated("main")
    ELSE UNCHANGED <<loaded, pc, path, open>>

Install(ok) ==
    /\ Command
    /\ Bootout(ok)
    /\ cli' = "write"
    /\ UNCHANGED <<host, cgroupVars, work, alone, plist>>

(* Each of these may fail, and then the command ends there.                *)
WritePlist ==
    /\ cli = "write"
    /\ \/ plist' = TRUE /\ cli' = "bootstrap"
       \/ plist' = plist /\ cli' = "idle"
    /\ UNCHANGED <<host, pc, cgroupVars, daemonVars, loaded>>

(* An agent that is loaded already is an error for Install, and fine for   *)
(* Start.                                                                  *)
Bootstrap ==
    /\ cli = "bootstrap"
    /\ loaded' \in {loaded, TRUE}
    /\ cli' = "idle"
    /\ UNCHANGED <<host, pc, cgroupVars, daemonVars, plist>>

Start ==
    /\ Command
    /\ plist
    /\ cli' = "bootstrap"
    /\ UNCHANGED <<host, pc, cgroupVars, path, open, work, alone, plist, loaded>>

Stop(ok) ==
    /\ Command
    /\ Bootout(ok)
    /\ UNCHANGED <<host, cgroupVars, work, alone, plist, cli>>

(* kickstart -k ends the process, and launchd starts it again.             *)
Restart ==
    /\ Command
    /\ loaded /\ Alive("main")
    /\ Ends("main")
    /\ UNCHANGED <<host, cgroupVars, work, alone, serviceVars>>

(* Without its file the agent is taken for not installed, and not unloaded. *)
Uninstall(ok) ==
    /\ Command
    /\ IF plist THEN Bootout(ok) /\ cli' = "delete"
       ELSE cli' = "unlink" /\ UNCHANGED <<loaded, pc, path, open>>
    /\ UNCHANGED <<host, cgroupVars, work, alone, plist>>

DeletePlist ==
    /\ cli = "delete"
    /\ \/ plist' = FALSE /\ cli' = "unlink"
       \/ plist' = plist /\ cli' = "idle"
    /\ UNCHANGED <<host, pc, cgroupVars, daemonVars, loaded>>

(* The socket that the shell's environment names goes in any case, also    *)
(* from under a daemon that listens.                                       *)
UnlinkSocket ==
    /\ cli = "unlink"
    /\ IF DefaultSocketPath(host.shell) = ListenAddr
       THEN path' = "free" /\ alone' = (alone /\ path # "main")
       ELSE UNCHANGED <<path, alone>>
    /\ cli' = "idle"
    /\ UNCHANGED <<host, pc, cgroupVars, open, work, disturbances, plist, loaded>>

CliStep == WritePlist \/ Bootstrap \/ DeletePlist \/ UnlinkSocket

Next ==
    \/ \E d \in Daemons :
          \/ RunStep(d) /\ UNCHANGED serviceVars
          \/ Request(d) /\ UNCHANGED serviceVars
          \/ Answer(d) /\ UNCHANGED serviceVars
          \/ Crash(d)
          \/ Signal(d)
          \/ ServeFails(d)
          \/ Reaped(d)
    \/ Spawn
    \/ StartOther
    \/ ContainerEnds
    \/ \E ok \in BOOLEAN : Install(ok) \/ Stop(ok) \/ Uninstall(ok)
    \/ Start
    \/ Restart
    \/ CliStep

Spec == Init /\ [][Next]_vars

(* Processes run, launchd and the container runtime restart what has ended *)
(* and a command that was begun goes on.  No request has to be answered.   *)
Fairness ==
    /\ \A d \in Daemons :
          /\ WF_vars(RunStep(d) /\ UNCHANGED serviceVars)
          /\ WF_vars(Reaped(d))
    /\ WF_vars(Spawn)
    /\ WF_vars(ContainerEnds)
    /\ WF_vars(CliStep)

FairSpec == Spec /\ Fairness

-----------------------------------------------------------------------------
(* The properties.                                                         *)

(* Every variable keeps its type, no daemon listens outside the phases in   *)
(* which it has a listener, and the address leads to none that does not.    *)
TypeOK ==
    /\ host \in Hosts
    /\ pc \in [Daemons -> SetupPhases \cup LaterPhases]
    /\ where \in [Daemons -> Places]
    /\ base \in [Daemons -> Places \cup {"none"}]
    /\ ready \in [Daemons -> BOOLEAN]
    /\ initDir \in BOOLEAN /\ subtree \in BOOLEAN
    /\ path \in Daemons \cup {"stale", "free"}
    /\ open \in [Daemons -> BOOLEAN]
    /\ work \in [Daemons -> BOOLEAN]
    /\ alone \in BOOLEAN
    /\ disturbances \in 0..MaxDisturbances
    /\ plist \in BOOLEAN /\ loaded \in BOOLEAN
    /\ cli \in CliPhases
    /\ \A d \in Daemons :
          /\ open[d] <=> pc[d] \in {"chmod", "serving", "closing"}
          /\ path = d => open[d]

(* A daemon that was asked for a memory limit serves only where it can     *)
(* give every execution one: the base of the cgroups to come is not the     *)
(* daemon's own cgroup, it hands the controller down, and no setup that     *)
(* was cut short, by a crash or by another process in the way, passes for  *)
(* a complete one (SetupCgroupV2).                                          *)
LimitEnforceable ==
    \A d \in Daemons :
        host.limit /\ pc[d] = "serving" =>
            /\ ready[d]
            /\ base[d] = "root" /\ where[d] = "init"
            /\ subtree /\ ~ Crowded

(* The doctor, which looks at PID 1 from outside, calls the pod ready       *)
(* exactly when the daemon that serves there has set itself up for limits.  *)
DoctorAgrees ==
    ~ host.launchd /\ ~ host.wrapped /\ pc["main"] = "serving" =>
        (DoctorReady <=> host.limit)

(* A daemon that serves can be reached at its address, whatever its        *)
(* predecessors left there, as long as no second daemon and no uninstall   *)
(* has meddled with the path since it started (listenHTTP).                 *)
ServingReachable ==
    pc["main"] = "serving" /\ alone => path = "main"

(* The client and the daemon, which resolve and parse the address with      *)
(* code of their own, take every address that a daemon serves at for the    *)
(* same kind of place, and mean the same one if their environments agree.   *)
AddressesAgree ==
    \A d \in Daemons :
        pc[d] = "serving" =>
            /\ ClientNetwork(ListenAddr) = Network
            /\ OneEnvironment => ResolveAddr = ListenAddr

Capable ==
    /\ Listenable(ListenAddr)
    /\ host.limit => InK8sPod /\ host.v2 /\ host.memory /\ host.writable /\ ~ host.wrapped

ShouldServe == IF host.launchd THEN loaded ELSE Capable

(* Once the disturbances are over, a daemon that is to run serves at its    *)
(* address for good: neither a stale socket nor what an earlier setup left  *)
(* in the cgroups keeps it from starting.                                   *)
ServesAgain ==
    <>[](ShouldServe /\ alone => pc["main"] = "serving" /\ path = "main")

(* A shutdown ends, also when a request is never answered.                  *)
ShutdownEnds ==
    \A d \in Daemons : pc[d] = "closing" ~> ~ Alive(d)
=============================================================================
