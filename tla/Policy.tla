------------------------------- MODULE Policy -------------------------------
(***************************************************************************)
(* What a command may do, from the operator's file to the sandbox: the     *)
(* daemon loads the file when it starts and keeps what it read; a request  *)
(* passes the token check, then its paths and its environment are looked   *)
(* at, then the sandbox is made.                                           *)
(*   internal/daemon/daemon.go   Run: the configuration in force           *)
(*   sandbox/config.go           Load                                      *)
(*   internal/daemon/handler.go  handleRun, handleRunAutoBackground        *)
(*   sandbox/paths.go            allToolDirs, once per process             *)
(* The file, the directories on the disk and the requests are the          *)
(* environment's.  The properties compare what comes out at the end with   *)
(* what the operator and the caller asked for, on both backends.           *)
(***************************************************************************)
EXTENDS Mounts, EnvFilter

CONSTANTS
    Name,       \* names that paths are made of, with ".."
    Account,    \* service accounts
    Key,        \* keys of environment variables
    Patterns,   \* patterns of allow_env, well-formed or not
    Files,      \* configuration files an operator may write
    Requests,   \* requests a client may send
    Disks       \* sets of paths that may exist at a time

FileStates == {"absent", "ok", "malformed", "unreadable"}
Modes == {"ro", "rw", "meta"}
Tokens == Account \cup {"none", "bad"}

ASSUME InputsAssumption ==
    /\ {"none", "bad"} \cap Account = {}
    /\ HomeDir \in Seq(Name)
    /\ \A f \in Files :
          /\ f \in [state : FileStates, read : Seq([home : BOOLEAN, names : Seq(Name)]),
                    write : Seq([home : BOOLEAN, names : Seq(Name)]),
                    socket : BOOLEAN, allowEnv : SUBSET Patterns,
                    enabled : BOOLEAN, accounts : SUBSET Account]
    /\ \A r \in Requests :
          /\ r \in [token : Tokens, env : SUBSET Key,
                    paths : Seq([abs : BOOLEAN, names : Seq(Name), mode : Modes])]

(* What exists has all its parents.                                        *)
ASSUME DisksAssumption ==
    \A d \in Disks : \A p \in d : \A n \in 0..Len(p) : SubSeq(p, 1, n) \in d

(* paths.go: each bin directory is in one of its own ReadDirs, and what    *)
(* buildSandboxPATH starts with is in the static mounts and rules.         *)
ASSUME ToolsAssumption ==
    /\ \A td \in ToolDirs :
          /\ td.bin \in Seq(Name)
          /\ \E rd \in td.reads : Below(td.bin, rd)
    /\ \A d \in BasePATH :
          /\ CoveredByStaticRoot(d)
          /\ \E sd \in SeatbeltReadable : Below(d, sd)

VARIABLES
    file,       \* the operator's file when the daemon started
    home,       \* whether user.Current finds the home directory
    cfg,        \* the configuration in force
    looked,     \* cachedToolDirsOnce
    tools,      \* cachedToolDirs
    disk,       \* the paths that exist
    stage,      \* how far the request has got
    req,        \* the request that is handled
    mounts,     \* MountDirs, before AddAncestorMounts
    env,        \* what FilterEnv lets through
    status      \* of the answer, 0 before it

vars == <<file, home, cfg, looked, tools, disk, stage, req, mounts, env, status>>

Stages == {"down", "idle", "authorize", "mounts", "env", "exec", "running"}

EmptyConfig == [read |-> <<>>, write |-> <<>>, allowEnv |-> {},
                enabled |-> FALSE, accounts |-> {}]

-----------------------------------------------------------------------------
(* Load, and what Run makes of its failure.                                *)

(* A path with ~, or a default that has one, has to be expanded.           *)
NeedsHome(f) ==
    \/ f.state = "absent"
    \/ ~ f.socket
    \/ \E i \in DOMAIN f.read : f.read[i].home
    \/ \E i \in DOMAIN f.write : f.write[i].home

(* Load goes without its last check.                                        *)
FaultyLoadFails(f, h) ==
    \/ f.state \in {"malformed", "unreadable"}
    \/ NeedsHome(f) /\ ~ h
    \/ f.state = "ok" /\ ~ WellFormed(f.allowEnv)

LoadFails(f, h) ==
    \/ f.state \in {"malformed", "unreadable"}
    \/ NeedsHome(f) /\ ~ h
    \/ f.state = "ok" /\ ~ WellFormed(f.allowEnv)
    \/ f.state = "ok" /\ f.enabled /\ f.accounts = {}

InForce(f, h) ==
    IF LoadFails(f, h) \/ f.state = "absent" THEN EmptyConfig
    ELSE [read |-> f.read, write |-> f.write, allowEnv |-> f.allowEnv,
          enabled |-> f.enabled, accounts |-> f.accounts]

Init ==
    /\ file \in Files
    /\ home = TRUE
    /\ cfg = EmptyConfig
    /\ looked = FALSE
    /\ tools = {}
    /\ disk \in Disks
    /\ stage = "down"
    /\ req \in Requests
    /\ mounts = <<>>
    /\ env = {}
    /\ status = 0

(* A failure to load is logged, and the daemon goes on.                    *)
Start(h) ==
    /\ stage = "down"
    /\ home' = h
    /\ cfg' = InForce(file, h)
    /\ looked' = FALSE
    /\ tools' = {}
    /\ stage' = "idle"
    /\ UNCHANGED <<file, disk, req, mounts, env, status>>

Receive(r) ==
    /\ stage = "idle"
    /\ req' = r
    /\ mounts' = <<>>
    /\ env' = {}
    /\ status' = 0
    /\ stage' = "authorize"
    /\ UNCHANGED <<file, home, cfg, looked, tools, disk>>

-----------------------------------------------------------------------------
(* handleRun: every stage either passes the request on or answers it.      *)

AuthConfigured == cfg.enabled /\ cfg.accounts # {}

AuthStatus ==
    IF ~ AuthConfigured \/ req.token \in cfg.accounts THEN 0
    ELSE IF req.token = "none" THEN 401 ELSE 403

Decide(code, next) ==
    /\ status' = code
    /\ stage' = IF code = 0 THEN next ELSE "idle"

Authorize ==
    /\ stage = "authorize"
    /\ Decide(AuthStatus, "mounts")
    /\ UNCHANGED <<file, home, cfg, looked, tools, disk, req, mounts, env>>

PathsValid == \A i \in DOMAIN req.paths : ValidPath(req.paths[i])

BuildMounts ==
    /\ stage = "mounts"
    /\ Decide(IF PathsValid THEN 0 ELSE 400, "env")
    /\ mounts' = IF PathsValid
                 THEN BaselineMounts(cfg.read, cfg.write) \o RequestMounts(req.paths)
                 ELSE mounts
    /\ UNCHANGED <<file, home, cfg, looked, tools, disk, req, env>>

(* An invalid environment is answered as an internal error.                *)
FilterRequest ==
    /\ stage = "env"
    /\ Decide(IF ValidEnv(req.env) THEN 0 ELSE 500, "exec")
    /\ env' = IF ValidEnv(req.env) THEN FilterEnv(cfg.allowEnv, req.env) ELSE env
    /\ UNCHANGED <<file, home, cfg, looked, tools, disk, req, mounts>>

(* The tools are looked for when they are first needed, and not again.     *)
Exec ==
    /\ stage = "exec"
    /\ tools' = IF looked THEN tools ELSE Discovered(disk)
    /\ looked' = TRUE
    /\ stage' = "running"
    /\ UNCHANGED <<file, home, cfg, disk, req, mounts, env, status>>

Finish ==
    /\ stage = "running"
    /\ status' = 200
    /\ stage' = "idle"
    /\ UNCHANGED <<file, home, cfg, looked, tools, disk, req, mounts, env>>

(* Directories come and go.  What a sandbox shows was settled when it was  *)
(* made, so a change under a running command is left for later.            *)
Change(d) ==
    /\ stage \in {"idle", "exec"}
    /\ disk' = d
    /\ UNCHANGED <<file, home, cfg, looked, tools, stage, req, mounts, env, status>>

Stop ==
    /\ stage = "idle"
    /\ stage' = "down"
    /\ UNCHANGED <<file, home, cfg, looked, tools, disk, req, mounts, env, status>>

Next ==
    \/ \E h \in BOOLEAN : Start(h)
    \/ \E r \in Requests : Receive(r)
    \/ Authorize
    \/ BuildMounts
    \/ FilterRequest
    \/ Exec
    \/ Finish
    \/ \E d \in Disks : Change(d)
    \/ Stop

Spec == Init /\ [][Next]_vars

-----------------------------------------------------------------------------
(* The properties.                                                         *)

Entries(s) == {s[i] : i \in DOMAIN s}

ConfigPaths == UNION {Entries(f.read) \cup Entries(f.write) : f \in Files}

MountPaths ==
    {ExpandHome(p) : p \in ConfigPaths}
        \cup {Clean(p.names) : p \in UNION {Entries(r.paths) : r \in Requests}}

Configs == {EmptyConfig} \cup {InForce(f, h) : f \in Files, h \in BOOLEAN}

(* Every variable keeps its type, and a mount's path is one that the        *)
(* operator or the caller wrote, with ~ expanded or cleaned: buildMounts    *)
(* copies the baseline and adds to it.                                      *)
TypeOK ==
    /\ file \in Files
    /\ home \in BOOLEAN
    /\ cfg \in Configs
    /\ looked \in BOOLEAN
    /\ tools \in SUBSET ToolDirs
    /\ disk \in Disks
    /\ stage \in Stages
    /\ req \in Requests
    /\ mounts \in Seq([path : MountPaths, mode : Modes])
    /\ env \in SUBSET Key
    /\ status \in {0, 200, 400, 401, 403, 500}

(* When the file asks for service accounts and could be loaded, no command *)
(* runs for anyone else: Load refuses a file that would leave the handler's *)
(* condition, which wants an account as well as the switch, unmet.          *)
AuthEnforced ==
    stage = "running" /\ file.state = "ok" /\ file.enabled
        => \/ req.token \in file.accounts
           \/ LoadFails(file, home)

(* PATH, TERM and GOTELEMETRY are the sandbox's own, although the request's *)
(* entries come last and os/exec keeps the last, unless a pattern that the  *)
(* operator wrote lets the key through.                                     *)
PathIsCurated ==
    stage = "running" =>
        \A key \in Injected :
            \/ Giver(BuildEnv(env), key, "sandbox")
            \/ \E pattern \in file.allowEnv \cap DOMAIN Glob : key \in Glob[pattern]

(* The two backends agree on what is writable, for every path that exists  *)
(* and that the request does not make read-only (nor seatbelt's own rules   *)
(* writable): a writable directory of the file is not hidden by a readable *)
(* one above it.  Binds hide each other and rules add up, so this rests on  *)
(* the order in which BaselineMounts lists them.                            *)
GrantsAgree ==
    stage = "running" =>
        \A p \in disk :
            \/ \E i \in DOMAIN req.paths :
                  req.paths[i].mode = "ro" /\ Below(p, Clean(req.paths[i].names))
            \/ \E d \in SeatbeltScratch : Below(p, d)
            \/ BwrapWritable(mounts, disk, p) <=> SeatbeltWritable(mounts, p)

(* No order of mounts, and no missing source, lets bwrap write where        *)
(* seatbelt does not.                                                       *)
BwrapNoWider ==
    stage = "running" =>
        \A p \in disk : BwrapWritable(mounts, disk, p) => SeatbeltWritable(mounts, p)

(* A command under seatbelt can look up every directory above what it was  *)
(* given, as git does, although the walks of AddAncestorMounts stop at what *)
(* is listed: only a metadata-only path of the request may cut them short.  *)
AncestorsVisible ==
    stage = "running" =>
        \A i \in Granting(mounts) : \A d \in Ancestors(mounts[i].path) :
            \/ SeatbeltStatAllowed(mounts, tools, d)
            \/ \E j \in DOMAIN mounts :
                  /\ mounts[j].mode = "meta"
                  /\ mounts[j].path \in Ancestors(mounts[i].path)
                  /\ Below(mounts[j].path, d)

(* Every directory in PATH that exists can be read on both backends, also  *)
(* when the tools were found long before and the disk has changed since.    *)
ToolsReadable ==
    stage = "running" =>
        \A d \in SandboxPATH(tools) \cap disk :
            /\ BwrapReadable(mounts, tools, disk, d)
            /\ SeatbeltReadAllowed(mounts, tools, d)
=============================================================================
