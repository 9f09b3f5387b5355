------------------------------- MODULE Daemon -------------------------------
(***************************************************************************)
(* The life of a daemon process: the address it listens on, the unix       *)
(* socket's path, serving, and the shutdown.                               *)
(*   internal/daemon/daemon.go   listenAddr, Run, waitAndShutdown          *)
(*   internal/daemon/socket.go   listenHTTP, parseListenAddr               *)
(*   client/client.go            resolveAddr, New: the same rules again    *)
(* The path of a socket is a name: it leads to the listener of one daemon, *)
(* to one that nobody listens on any more, or it does not exist.  A daemon *)
(* may go on serving a listener that no path leads to.                     *)
(***************************************************************************)
EXTENDS CgroupSetup

CONSTANTS
    Hosts,              \* where a daemon may be started
    MaxDisturbances     \* how often something happens to it from outside

(* An address by its form: an absolute or a relative path, a host:port, an *)
(* URL, or a bare name, which is neither.  Two of one form are the same    *)
(* place, and ~/.temenos/daemon.sock is a place of its own.                *)
Forms == {"/abs", "./rel", "host:port", "http://", "https://", "bare"}

Paths == {"/abs", "./rel", "~/.temenos"}

Settings == Forms \cup {"unset"}

(* TEMENOS_LISTEN_ADDR and TEMENOS_SOCKET_PATH are set apart for the daemon *)
(* and for the shell that the client and the command line run in.  The     *)
(* agent that launchd runs has no limit in its arguments and PATH only in  *)
(* its environment.                                                        *)
ASSUME DaemonAssumption ==
    /\ MaxDisturbances \in Nat
    /\ \A h \in Hosts :
          /\ h \in [launchd : BOOLEAN, k8s : BOOLEAN, mounted : BOOLEAN,
                    v2 : BOOLEAN, memory : BOOLEAN, writable : BOOLEAN,
                    wrapped : BOOLEAN, limit : BOOLEAN,
                    listen : Settings, socket : Settings,
                    shell : [listen : Settings, socket : Settings]]
          /\ h.launchd => ~ h.limit /\ h.listen = "unset" /\ h.socket = "unset"

VARIABLES
    path,           \* whom the address leads to: a daemon, "stale" or "free"
    open,           \* whether each daemon's listener is open
    work,           \* whether each daemon handles a request
    alone,          \* main has been alone, and its path left alone, since its start
    disturbances    \* how many there have been

daemonVars == <<path, open, work, alone, disturbances>>

Unaddressed == UNCHANGED <<path, open, work, alone, disturbances>>

-----------------------------------------------------------------------------
(* Addresses.                                                              *)

DefaultSocketPath(env) ==
    IF env.socket # "unset" THEN env.socket ELSE "~/.temenos"

ListenAddr ==
    IF host.listen # "unset" THEN host.listen ELSE DefaultSocketPath(host)

ParseListenAddr(a) == IF a \in Paths THEN "unix" ELSE "tcp"

Network == ParseListenAddr(ListenAddr)

(* net.Listen wants a port in a tcp address.                               *)
Listenable(a) == ParseListenAddr(a) = "unix" \/ a = "host:port"

(* The client asks the environment it runs in.                             *)
ResolveAddr ==
    IF host.shell.listen # "unset" THEN host.shell.listen
    ELSE IF host.shell.socket # "unset" THEN host.shell.socket
    ELSE "~/.temenos"

OneEnvironment ==
    host.shell.listen = host.listen /\ host.shell.socket = host.socket

(* The client takes absolute paths only for sockets.                        *)
FaultyClientNetwork(a) ==
    IF a = "https://" THEN "error"
    ELSE IF a \in Paths \ {"./rel"} THEN "unix" ELSE "tcp"

ClientNetwork(a) ==
    IF a = "https://" THEN "error"
    ELSE IF a \in Paths THEN "unix" ELSE "tcp"

-----------------------------------------------------------------------------
(* Run.                                                                    *)

(* A configuration that cannot be loaded is no reason to stop.             *)
Load(d) ==
    /\ pc[d] = "load"
    /\ Goto(d, IF Network = "unix" THEN "remove" ELSE "listen")
    /\ Unaddressed
    /\ UNCHANGED <<host, cgroupVars>>

(* What is left of an earlier daemon is taken for a running one.            *)
FaultyRemoveStale(d) ==
    /\ pc[d] = "remove"
    /\ Goto(d, "listen")
    /\ Unaddressed
    /\ UNCHANGED <<host, cgroupVars>>

(* os.Remove takes the path away from whoever is there.  Its failure is    *)
(* logged.                                                                 *)
RemoveStale(d) ==
    /\ pc[d] = "remove"
    /\ Goto(d, "listen")
    /\ \/ path' = "free" /\ UNCHANGED disturbances
       \/ /\ path # "free" /\ disturbances < MaxDisturbances
          /\ disturbances' = disturbances + 1
          /\ UNCHANGED path
    /\ UNCHANGED <<host, cgroupVars, open, work, alone>>

(* The address is in use: somebody serves there, so go on.                  *)
FaultyListen(d) ==
    /\ pc[d] = "listen"
    /\ IF Listenable(ListenAddr)
       THEN /\ Goto(d, IF Network = "unix" THEN "chmod" ELSE "serving")
            /\ path' = IF path = "free" THEN d ELSE path
            /\ open' = [open EXCEPT ![d] = TRUE]
       ELSE Goto(d, "exit") /\ UNCHANGED <<path, open>>
    /\ UNCHANGED <<host, cgroupVars, work, alone, disturbances>>

(* bind fails on a path that exists, stale or not, and on a port in use.   *)
Listen(d) ==
    /\ pc[d] = "listen"
    /\ IF Listenable(ListenAddr) /\ path = "free"
       THEN /\ Goto(d, IF Network = "unix" THEN "chmod" ELSE "serving")
            /\ path' = d
            /\ open' = [open EXCEPT ![d] = TRUE]
       ELSE Goto(d, "exit") /\ UNCHANGED <<path, open>>
    /\ UNCHANGED <<host, cgroupVars, work, alone, disturbances>>

(* The permissions of whatever is at the path now.  The close on failure   *)
(* unlinks what is not there.                                              *)
Chmod(d) ==
    /\ pc[d] = "chmod"
    /\ IF path # "free"
       THEN Goto(d, "serving") /\ UNCHANGED open
       ELSE Goto(d, "exit") /\ open' = [open EXCEPT ![d] = FALSE]
    /\ UNCHANGED <<host, cgroupVars, path, work, alone, disturbances>>

(* A request reaches the daemon that the address leads to.                 *)
Request(d) ==
    /\ pc[d] = "serving" /\ path = d /\ ~ work[d]
    /\ work' = [work EXCEPT ![d] = TRUE]
    /\ UNCHANGED <<host, pc, cgroupVars, path, open, alone, disturbances>>

Answer(d) ==
    /\ Alive(d) /\ work[d]
    /\ work' = [work EXCEPT ![d] = FALSE]
    /\ UNCHANGED <<host, pc, cgroupVars, path, open, alone, disturbances>>

(* The listener is closed and its path left for the next daemon to remove. *)
FaultyUnlistens(d) ==
    /\ open' = [open EXCEPT ![d] = FALSE]
    /\ UNCHANGED path

(* A unix listener that is closed unlinks its path by name, whoever it     *)
(* leads to by then.                                                       *)
Unlistens(d) ==
    /\ open' = [open EXCEPT ![d] = FALSE]
    /\ path' = IF Network = "unix" \/ path = d THEN "free" ELSE path

(* Shutdown closes the listener first.                                     *)
CloseListener(d) ==
    /\ pc[d] = "closing"
    /\ Goto(d, "draining")
    /\ Unlistens(d)
    /\ UNCHANGED <<host, cgroupVars, work, alone, disturbances>>

(* Shutdown has no deadline of its own.                                     *)
FaultyDrain(d) ==
    /\ pc[d] = "draining" /\ ~ work[d]
    /\ Goto(d, "exit")
    /\ Unaddressed
    /\ UNCHANGED <<host, cgroupVars>>

(* The requests have been answered, or 10 seconds have passed.             *)
Drain(d) ==
    /\ pc[d] = "draining"
    /\ Goto(d, "exit")
    /\ Unaddressed
    /\ UNCHANGED <<host, cgroupVars>>

RunStep(d) ==
    \/ SetupStep(d) /\ Unaddressed /\ UNCHANGED host
    \/ Load(d)
    \/ RemoveStale(d)
    \/ Listen(d)
    \/ Chmod(d)
    \/ CloseListener(d)
    \/ Drain(d)
=============================================================================
