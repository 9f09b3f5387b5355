------------------------------- MODULE Mounts -------------------------------
(***************************************************************************)
(* Which files of the host a command can reach: from the configuration and *)
(* the request to the list of mounts, and from the list to what each       *)
(* backend makes of it.                                                    *)
(*   sandbox/config.go           BaselineMounts, ExpandHome                *)
(*   internal/daemon/handler.go  validatePath, buildMounts                 *)
(*   sandbox/sandbox.go          AddAncestorMounts                         *)
(*   sandbox/bwrap.go            buildArgs: binds, where a later one lies  *)
(*                               over an earlier one                       *)
(*   sandbox/policy.go           buildPolicy: rules, which add up          *)
(*   sandbox/paths.go            the directories of tools                  *)
(*                                                                         *)
(* A path is the sequence of its names.  A mount has the same path inside  *)
(* and outside: every mount that the daemon makes has Source = Target.     *)
(***************************************************************************)
EXTENDS Integers, Sequences, SequencesExt

CONSTANTS
    HomeDir,            \* the home directory of the daemon's user
    BwrapStaticRoots,   \* bwrapStaticRoots: /usr, /bin, /lib
    SeatbeltReadable,   \* what seatbelt_platform.sbpl makes readable,
    SeatbeltScratch,    \* and what it makes writable: /tmp and others
    BasePATH,           \* the directories that are always in PATH
    NixStore,           \* bwrapNixStorePath
    ToolDirs            \* the registry: records with bin and reads

Root == <<>>

(* p is d or lies under it.                                                *)
Below(p, d) == d \in {SubSeq(p, 1, n) : n \in 0..Len(p)}

WithoutLast(p) == IF p = Root THEN Root ELSE Front(p)

(* A path cleaned name by name: .. takes the last name away, but not at    *)
(* the root.                                                               *)
Cleaned(names) ==
    LET walk[n \in 0..Len(names)] ==
            IF n = 0 THEN Root
            ELSE IF names[n] = ".." THEN WithoutLast(walk[n - 1])
            ELSE Append(walk[n - 1], names[n])
    IN  walk

Clean(names) == Cleaned(names)[Len(names)]

Dir(p) == Clean(WithoutLast(p))

(* filepath.Dir again and again, as far as the root, which is left out.    *)
Ancestors(p) == {SubSeq(Dir(p), 1, n) : n \in 1..Len(Dir(p))}

(* Only a leading ~ makes ExpandHome join, and clean, the path.            *)
ExpandHome(p) == IF p.home THEN Clean(HomeDir \o p.names) ELSE p.names

Mount(p, m) == [path |-> p, mode |-> m]

Expanded(paths, m) == [i \in DOMAIN paths |-> Mount(ExpandHome(paths[i]), m)]

(* Definitions named Faulty... are plausible mistakes in the definition     *)
(* that follows them; each makes one property of Policy fail.               *)

(* What is writable bound first, and what is readable over it.              *)
FaultyBaselineMounts(read, write) ==
    Expanded(write, "rw") \o Expanded(read, "ro")

BaselineMounts(read, write) == Expanded(read, "ro") \o Expanded(write, "rw")

ValidPath(p) == p.abs

(* The path is mounted as it was written.                                   *)
FaultyRequestMounts(paths) ==
    [i \in DOMAIN paths |-> Mount(paths[i].names, paths[i].mode)]

RequestMounts(paths) ==
    [i \in DOMAIN paths |-> Mount(Clean(paths[i].names), paths[i].mode)]

Listed(ms) == {ms[i].path : i \in DOMAIN ms}

Granting(ms) == {i \in DOMAIN ms : ms[i].mode # "meta"}

(* The walk up from p ends at a directory that the list names already.      *)
FaultyReached(ms, p) == {Dir(p)} \ (Listed(ms) \cup {Root})

(* The walk up from p ends at a directory that the list names already.  It *)
(* also ends at one that an earlier walk has added, which went on from it. *)
Reached(ms, p) ==
    {d \in Ancestors(p) :
        \A e \in Ancestors(p) : Below(e, d) => e \notin Listed(ms)}

(* The metadata-only mounts that AddAncestorMounts appends.                *)
AncestorMounts(ms) == UNION {Reached(ms, ms[i].path) : i \in Granting(ms)}

-----------------------------------------------------------------------------
(* Tool directories.                                                       *)

(* allToolDirs: those whose bin directory is on the disk.                  *)
Discovered(disk) == {td \in ToolDirs : td.bin \in disk}

ToolReads(tools) == UNION {td.reads : td \in tools}

SandboxPATH(tools) == BasePATH \cup {td.bin : td \in tools}

CoveredByStaticRoot(p) == \E root \in BwrapStaticRoots : Below(p, root)

(* Only a directory that is itself a bin directory is bound.                *)
FaultyBwrapToolBinds(tools, disk) ==
    {rd \in ToolReads(tools) :
        /\ rd \in {td.bin : td \in tools} \cap disk
        /\ ~ CoveredByStaticRoot(rd)}

BwrapToolBinds(tools, disk) ==
    {rd \in ToolReads(tools) : rd \in disk /\ ~ CoveredByStaticRoot(rd)}

-----------------------------------------------------------------------------
(* bwrap: binds in the order of the list, after the static ones, which are *)
(* read-only.  A metadata-only mount, or one whose source is missing, is   *)
(* skipped.                                                                *)

(* Metadata-only mounts are bound like the others.                          *)
FaultyBound(ms, disk) == {i \in DOMAIN ms : ms[i].path \in disk}

Bound(ms, disk) == {i \in Granting(ms) : ms[i].path \in disk}

(* A writable bind holds p, and no read-only one lies over it.             *)
BwrapWritable(ms, disk, p) ==
    \E i \in Bound(ms, disk) :
        /\ Below(p, ms[i].path)
        /\ ms[i].mode # "ro"
        /\ \A j \in Bound(ms, disk) :
              j > i /\ Below(p, ms[j].path) => ms[j].mode # "ro"

BwrapReadable(ms, tools, disk, p) ==
    \/ CoveredByStaticRoot(p)
    \/ \E d \in BwrapToolBinds(tools, disk) \cup ({NixStore} \cap disk) :
          Below(p, d)
    \/ \E i \in Bound(ms, disk) : Below(p, ms[i].path)

-----------------------------------------------------------------------------
(* seatbelt: every rule that allows something allows it.                    *)

SeatbeltWritable(ms, p) ==
    \/ \E d \in SeatbeltScratch : Below(p, d)
    \/ \E i \in Granting(ms) : ms[i].mode = "rw" /\ Below(p, ms[i].path)

SeatbeltReadAllowed(ms, tools, p) ==
    \/ \E d \in SeatbeltReadable \cup SeatbeltScratch \cup ToolReads(tools) : Below(p, d)
    \/ \E i \in Granting(ms) : Below(p, ms[i].path)

(* file-read-metadata: for literal paths, and with every file-read rule.   *)
SeatbeltStatAllowed(ms, tools, p) ==
    \/ SeatbeltReadAllowed(ms, tools, p)
    \/ p \in AncestorMounts(ms)
    \/ \E i \in DOMAIN ms : ms[i].mode = "meta" /\ ms[i].path = p
=============================================================================
