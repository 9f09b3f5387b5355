----------------------------- MODULE MCService -----------------------------
(* A small instance of Service for TLC: a Mac, and pods that lack one thing *)
(* each or get their address in every form.  On the Mac the shell has      *)
(* variables that the agent does not; elsewhere there is one environment.  *)
EXTENDS Service

Nothing == [listen |-> "unset", socket |-> "unset"]

Pod == [launchd |-> FALSE, k8s |-> TRUE, mounted |-> TRUE, v2 |-> TRUE,
        memory |-> TRUE, writable |-> TRUE, wrapped |-> FALSE, limit |-> TRUE,
        listen |-> "host:port", socket |-> "unset",
        shell |-> [listen |-> "host:port", socket |-> "unset"]]

Mac == [Pod EXCEPT !.launchd = TRUE, !.limit = FALSE, !.k8s = FALSE,
                   !.mounted = FALSE, !.listen = "unset",
                   !.shell = Nothing]

MCHosts ==
    {Mac, [Mac EXCEPT !.shell.socket = "/abs"],
     [Mac EXCEPT !.shell.listen = "host:port"],
     Pod, [Pod EXCEPT !.k8s = FALSE], [Pod EXCEPT !.mounted = FALSE],
     [Pod EXCEPT !.v2 = FALSE], [Pod EXCEPT !.memory = FALSE],
     [Pod EXCEPT !.writable = FALSE], [Pod EXCEPT !.wrapped = TRUE],
     [Pod EXCEPT !.wrapped = TRUE, !.limit = FALSE]}
    \cup {[Pod EXCEPT !.limit = FALSE, !.listen = l, !.socket = s,
                        !.shell = [listen |-> l, socket |-> s]] :
             l \in Settings, s \in {"unset", "./rel"}}
=============================================================================
