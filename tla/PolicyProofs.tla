---------------------------- MODULE PolicyProofs ----------------------------
(***************************************************************************)
(* Proofs about Policy, for every registry of tools, every set of patterns *)
(* and every set of files, requests and disks.                             *)
(*                                                                         *)
(* The invariant Handled says how far a request's data agree with its      *)
(* stage: the configuration is what Load makes of the file, the mounts and *)
(* the environment are what the handler computes from it.  What a command  *)
(* may do is then a fact about the operators of Mounts and EnvFilter.      *)
(***************************************************************************)
EXTENDS Policy, MountsProofs

CfgPath == [home : BOOLEAN, names : Seq(Name)]
MountList == Seq([path : MountPaths, mode : Modes])

-----------------------------------------------------------------------------
(* Lists of mounts.                                                        *)

LEMMA SubsetsOfLists ==
    ASSUME NEW S, NEW R, S \subseteq R, NEW s \in Seq(S)
    PROVE  s \in Seq(R)
OBVIOUS

LEMMA ListsConcatenate ==
    ASSUME NEW S, NEW s \in Seq(S), NEW t \in Seq(S)
    PROVE  s \o t \in Seq(S)
OBVIOUS

LEMMA FilePathsAreConfigPaths ==
    ASSUME NEW f \in Files
    PROVE  /\ f.read \in Seq(CfgPath) /\ f.write \in Seq(CfgPath)
           /\ \A i \in DOMAIN f.read : f.read[i] \in ConfigPaths
           /\ \A i \in DOMAIN f.write : f.write[i] \in ConfigPaths
<1>1. f.read \in Seq(CfgPath) /\ f.write \in Seq(CfgPath)
  BY InputsAssumption DEF CfgPath
<1>2. \A i \in DOMAIN f.read : f.read[i] \in ConfigPaths
  BY DEF ConfigPaths, Entries
<1>3. \A i \in DOMAIN f.write : f.write[i] \in ConfigPaths
  BY DEF ConfigPaths, Entries
<1> QED
  BY <1>1, <1>2, <1>3

LEMMA ExpandedType ==
    ASSUME NEW paths \in Seq(CfgPath), NEW m \in Modes,
           \A i \in DOMAIN paths : paths[i] \in ConfigPaths
    PROVE  Expanded(paths, m) \in MountList
<1>1. \A i \in 1..Len(paths) :
          Mount(ExpandHome(paths[i]), m) \in [path : MountPaths, mode : Modes]
  BY DEF MountPaths, Mount
<1>2. DOMAIN paths = 1..Len(paths) /\ Len(paths) \in Nat
  OBVIOUS
<1> QED
  BY <1>1, <1>2 DEF Expanded, MountList

LEMMA RequestMountsType ==
    ASSUME NEW r \in Requests
    PROVE  RequestMounts(r.paths) \in MountList
<1>1. r.paths \in Seq([abs : BOOLEAN, names : Seq(Name), mode : Modes])
  BY InputsAssumption
<1>2. DOMAIN r.paths = 1..Len(r.paths) /\ Len(r.paths) \in Nat
  BY <1>1
<1>3. ASSUME NEW i \in 1..Len(r.paths)
      PROVE  Mount(Clean(r.paths[i].names), r.paths[i].mode)
                 \in [path : MountPaths, mode : Modes]
  <2>1. r.paths[i].mode \in Modes
    <3>1. r.paths[i] \in [abs : BOOLEAN, names : Seq(Name), mode : Modes]
      BY <1>1, ElementsOfLists
    <3> QED
      BY <3>1
  <2>2. r.paths[i] \in UNION {Entries(q.paths) : q \in Requests}
    BY <1>2 DEF Entries
  <2>3. Clean(r.paths[i].names) \in MountPaths
    BY <2>2 DEF MountPaths
  <2> QED
    BY <2>1, <2>3 DEF Mount
<1> QED
  BY <1>2, <1>3 DEF RequestMounts, MountList

LEMMA BaselineType ==
    ASSUME NEW rs \in Seq(CfgPath), NEW ws \in Seq(CfgPath),
           \A i \in DOMAIN rs : rs[i] \in ConfigPaths,
           \A i \in DOMAIN ws : ws[i] \in ConfigPaths
    PROVE  BaselineMounts(rs, ws) \in MountList
<1>1. "ro" \in Modes /\ "rw" \in Modes
  BY DEF Modes
<1>2. Expanded(rs, "ro") \in MountList
  BY <1>1, ExpandedType
<1>3. Expanded(ws, "rw") \in MountList
  BY <1>1, ExpandedType
<1> QED
  BY <1>2, <1>3, ListsConcatenate DEF BaselineMounts, MountList

LEMMA ConfigIsTyped ==
    ASSUME NEW c \in Configs
    PROVE  BaselineMounts(c.read, c.write) \in MountList
<1>1. CASE c = EmptyConfig
  <2>1. <<>> \in Seq(CfgPath) /\ DOMAIN <<>> = {}
    OBVIOUS
  <2>2. c.read = <<>> /\ c.write = <<>>
    BY <1>1 DEF EmptyConfig
  <2>3. /\ c.read \in Seq(CfgPath) /\ c.write \in Seq(CfgPath)
        /\ \A i \in DOMAIN c.read : c.read[i] \in ConfigPaths
        /\ \A i \in DOMAIN c.write : c.write[i] \in ConfigPaths
    BY <2>1, <2>2
  <2> QED
    BY <2>3, BaselineType
<1>2. CASE c # EmptyConfig
  <2>1. PICK f \in Files : c.read = f.read /\ c.write = f.write
    BY <1>2 DEF InForce, Configs
  <2> QED
    BY <2>1, FilePathsAreConfigPaths, BaselineType
<1> QED
  BY <1>1, <1>2

-----------------------------------------------------------------------------
(* The invariant.                                                          *)

Handled ==
    /\ stage # "down" => cfg = InForce(file, home)
    /\ stage \in {"mounts", "env", "exec", "running"} => AuthStatus = 0
    /\ stage \in {"env", "exec", "running"} =>
          mounts = BaselineMounts(cfg.read, cfg.write) \o RequestMounts(req.paths)
    /\ stage \in {"exec", "running"} => env = FilterEnv(cfg.allowEnv, req.env)

Inv == TypeOK /\ Handled

LEMMA InitEstablishesInv == Init => Inv
<1> SUFFICES ASSUME Init PROVE Inv
  OBVIOUS
<1>1. TypeOK
  <2>1. mounts \in Seq([path : MountPaths, mode : Modes])
    BY DEF Init
  <2>2. cfg \in Configs
    BY DEF Init, Configs
  <2> QED
    BY <2>1, <2>2 DEF Init, TypeOK, Stages
<1>2. Handled
  BY DEF Init, Handled
<1> QED
  BY <1>1, <1>2 DEF Inv

LEMMA StartKeepsInv == ASSUME Inv, NEW h \in BOOLEAN, Start(h) PROVE Inv'
<1> USE DEF Inv, Start
<1>0. InForce(file, h) \in Configs
  BY DEF TypeOK, Configs
<1>1. TypeOK'
  <2>1. cfg' \in Configs
    BY <1>0
  <2> QED
    BY <2>1 DEF TypeOK, Stages
<1>2. Handled'
  BY DEF Handled
<1> QED
  BY <1>1, <1>2

LEMMA ReceiveKeepsInv == ASSUME Inv, NEW r \in Requests, Receive(r) PROVE Inv'
<1> USE DEF Inv, Receive
<1>1. TypeOK'
  BY DEF TypeOK, Stages
<1>2. Handled'
  BY DEF Handled
<1> QED
  BY <1>1, <1>2

LEMMA AuthorizeKeepsInv == ASSUME Inv, Authorize PROVE Inv'
<1> USE DEF Inv, Authorize, Decide
<1>0. AuthStatus \in {0, 401, 403} /\ AuthStatus' = AuthStatus
  BY DEF AuthStatus, AuthConfigured
<1>1. TypeOK'
  BY <1>0 DEF TypeOK, Stages
<1>2. Handled'
  BY <1>0 DEF Handled
<1> QED
  BY <1>1, <1>2

(* The configuration and the request decide whether a token is accepted.    *)
LEMMA SameAnswerToToken ==
    ASSUME UNCHANGED <<cfg, req>>
    PROVE  AuthStatus' = AuthStatus
BY DEF AuthStatus, AuthConfigured

LEMMA BuildMountsKeepsInv == ASSUME Inv, BuildMounts PROVE Inv'
<1>0. BaselineMounts(cfg.read, cfg.write) \o RequestMounts(req.paths) \in MountList
  <2>1. BaselineMounts(cfg.read, cfg.write) \in MountList
    BY ConfigIsTyped DEF Inv, TypeOK
  <2>2. RequestMounts(req.paths) \in MountList
    BY RequestMountsType DEF Inv, TypeOK
  <2> QED
    BY <2>1, <2>2, ListsConcatenate DEF MountList
<1>1. TypeOK'
  <2>1. mounts' \in Seq([path : MountPaths, mode : Modes])
    BY <1>0 DEF Inv, TypeOK, BuildMounts, MountList
  <2>2. stage' \in Stages /\ status' \in {0, 200, 400, 401, 403, 500}
    BY DEF Inv, TypeOK, BuildMounts, Decide, Stages
  <2>3. UNCHANGED <<file, home, cfg, looked, tools, disk, req, env>>
    BY DEF BuildMounts
  <2> QED
    BY <2>1, <2>2, <2>3 DEF Inv, TypeOK
<1>2. Handled'
  <2>1. /\ stage = "mounts" /\ stage' \in {"env", "idle"}
        /\ UNCHANGED <<file, home, cfg, req>>
    BY DEF BuildMounts, Decide
  <2>2. cfg' = InForce(file', home') /\ AuthStatus' = 0
    BY <2>1, SameAnswerToToken DEF Inv, Handled
  <2>3. stage' = "env" =>
          mounts' = BaselineMounts(cfg.read, cfg.write) \o RequestMounts(req.paths)
    BY DEF BuildMounts, Decide
  <2> QED
    BY <2>1, <2>2, <2>3 DEF Handled
<1> QED
  BY <1>1, <1>2 DEF Inv

LEMMA FilterRequestKeepsInv == ASSUME Inv, FilterRequest PROVE Inv'
<1>0. FilterEnv(cfg.allowEnv, req.env) \in SUBSET Key
  BY InputsAssumption DEF Inv, TypeOK, FilterEnv
<1>1. TypeOK'
  <2>1. env' \in SUBSET Key
    BY <1>0 DEF Inv, TypeOK, FilterRequest
  <2>2. stage' \in Stages /\ status' \in {0, 200, 400, 401, 403, 500}
    BY DEF Inv, TypeOK, FilterRequest, Decide, Stages
  <2>3. UNCHANGED <<file, home, cfg, looked, tools, disk, req, mounts>>
    BY DEF FilterRequest
  <2> QED
    BY <2>1, <2>2, <2>3 DEF Inv, TypeOK
<1>2. Handled'
  <2>1. /\ stage = "env" /\ stage' \in {"exec", "idle"}
        /\ UNCHANGED <<file, home, cfg, req, mounts>>
    BY DEF FilterRequest, Decide
  <2>2. /\ cfg' = InForce(file', home') /\ AuthStatus' = 0
        /\ mounts' = BaselineMounts(cfg'.read, cfg'.write) \o RequestMounts(req'.paths)
    BY <2>1, SameAnswerToToken DEF Inv, Handled
  <2>3. stage' = "exec" => env' = FilterEnv(cfg.allowEnv, req.env)
    BY DEF FilterRequest, Decide
  <2> QED
    BY <2>1, <2>2, <2>3 DEF Handled
<1> QED
  BY <1>1, <1>2 DEF Inv

LEMMA ExecKeepsInv == ASSUME Inv, Exec PROVE Inv'
<1> USE DEF Inv, Exec
<1>0. Discovered(disk) \in SUBSET ToolDirs
  BY DEF Discovered
<1>1. TypeOK'
  BY <1>0 DEF TypeOK, Stages
<1>2. Handled'
  BY SameAnswerToToken DEF Handled
<1> QED
  BY <1>1, <1>2

LEMMA OtherStepsKeepInv ==
    ASSUME Inv, \/ Finish \/ Stop \/ UNCHANGED vars
                \/ \E d \in Disks : Change(d)
    PROVE  Inv'
<1> USE DEF Inv
<1>1. CASE Finish \/ Stop
  <2>1. TypeOK'
    BY <1>1 DEF Finish, Stop, TypeOK, Stages
  <2>2. Handled'
    BY <1>1, SameAnswerToToken DEF Finish, Stop, Handled
  <2> QED
    BY <2>1, <2>2
<1>2. CASE UNCHANGED vars
  <2>1. TypeOK'
    BY <1>2 DEF vars, TypeOK
  <2>2. Handled'
    BY <1>2, SameAnswerToToken DEF vars, Handled
  <2> QED
    BY <2>1, <2>2
<1>3. ASSUME NEW d \in Disks, Change(d) PROVE Inv'
  <2>1. TypeOK'
    BY <1>3 DEF Change, TypeOK
  <2>2. Handled'
    BY <1>3, SameAnswerToToken DEF Change, Handled
  <2> QED
    BY <2>1, <2>2
<1> QED
  BY <1>1, <1>2, <1>3

LEMMA StepKeepsInv == Inv /\ [Next]_vars => Inv'
BY StartKeepsInv, ReceiveKeepsInv, AuthorizeKeepsInv, BuildMountsKeepsInv,
   FilterRequestKeepsInv, ExecKeepsInv, OtherStepsKeepInv DEF Next

LEMMA InvHolds == Spec => []Inv
BY InitEstablishesInv, StepKeepsInv, PTL DEF Spec

(* Every variable keeps its type, and every mount's path is one that the    *)
(* operator's file or the request names.                                    *)
THEOREM PolicyTypesCorrect == Spec => []TypeOK
BY InvHolds, PTL DEF Inv

-----------------------------------------------------------------------------
(* What follows for a command.                                             *)

(* When the file asks for service accounts and could be loaded, no command *)
(* runs for anyone else.                                                    *)
THEOREM AuthIsEnforced == Spec => []AuthEnforced
<1>1. Inv => AuthEnforced
  <2> SUFFICES ASSUME Inv, stage = "running", file.state = "ok", file.enabled,
                      ~ LoadFails(file, home)
               PROVE  req.token \in file.accounts
    BY DEF AuthEnforced
  <2>1. cfg.enabled = file.enabled /\ cfg.accounts = file.accounts
    <3>1. cfg = InForce(file, home) /\ file.state # "absent"
      BY DEF Inv, Handled
    <3> QED
      BY <3>1 DEF InForce
  <2>2. file.accounts # {}
    BY DEF LoadFails
  <2>3. AuthStatus = 0
    BY DEF Inv, Handled
  <2> QED
    BY <2>1, <2>2, <2>3 DEF AuthStatus, AuthConfigured
<1> QED
  BY <1>1, InvHolds, PTL

LEMMA InjectedUnlessAsked ==
    ASSUME NEW es, NEW key \in Injected, key \notin es
    PROVE  Giver(BuildEnv(es), key, "sandbox")
<1> DEFINE layers == BuildEnv(es)
<1>1. /\ DOMAIN layers = 1..4
      /\ layers[1] = Layer({"PATH"}, "sandbox")
      /\ layers[2].keys \subseteq {"HOME"}
      /\ layers[3] = Layer({"TERM", "GOTELEMETRY"}, "sandbox")
      /\ layers[4] = Layer(es, "request")
  BY DEF BuildEnv, Layer
<1>2. CASE key = "PATH"
  <2>1. \A j \in 2..4 : key \notin layers[j].keys
    BY <1>1, <1>2 DEF Layer
  <2> QED
    BY <1>1, <1>2, <2>1 DEF Giver, Layer
<1>3. CASE key \in {"TERM", "GOTELEMETRY"}
  <2>1. key \notin layers[4].keys
    BY <1>1 DEF Layer
  <2> QED
    BY <1>1, <1>3, <2>1 DEF Giver, Layer
<1> QED
  BY <1>2, <1>3 DEF Injected

(* PATH, TERM and GOTELEMETRY are the sandbox's own unless a pattern that   *)
(* the operator wrote lets the request's through.                           *)
THEOREM PathIsTheSandboxs == Spec => []PathIsCurated
<1>1. Inv => PathIsCurated
  <2> SUFFICES ASSUME Inv, stage = "running", NEW key \in Injected, key \in env
               PROVE  \E p \in file.allowEnv \cap DOMAIN Glob : key \in Glob[p]
    BY InjectedUnlessAsked DEF PathIsCurated
  <2>1. PICK p \in EffectiveAllowEnv(cfg.allowEnv) : key \in Glob[p]
    BY DEF Inv, Handled, FilterEnv, Matched
  <2>2. p \in cfg.allowEnv
    BY <2>1, BaselineAssumption DEF EffectiveAllowEnv
  <2>3. ~ LoadFails(file, home) /\ file.state # "absent" /\ cfg.allowEnv = file.allowEnv
    BY <2>2 DEF Inv, Handled, InForce, EmptyConfig
  <2>4. file.state = "ok"
    BY <2>3, InputsAssumption DEF Inv, TypeOK, FileStates, LoadFails
  <2>5. p \in DOMAIN Glob
    BY <2>2, <2>3, <2>4 DEF LoadFails, WellFormed
  <2> QED
    BY <2>1, <2>2, <2>3, <2>5
<1> QED
  BY <1>1, InvHolds, PTL

(* Whoever is above an existing path exists.                               *)
LEMMA ParentsExist ==
    ASSUME NEW d \in Disks, NEW p \in d, NEW q, Below(p, q)
    PROVE  q \in d
<1>1. PICK n \in 0..Len(p) : q = SubSeq(p, 1, n)
  BY DEF Below
<1> QED
  BY <1>1, DisksAssumption

LEMMA BwrapWritesAreGranted ==
    ASSUME NEW ms \in MountList, NEW d, NEW p, BwrapWritable(ms, d, p)
    PROVE  SeatbeltWritable(ms, p)
<1>1. PICK i \in Bound(ms, d) : Below(p, ms[i].path) /\ ms[i].mode # "ro"
  BY DEF BwrapWritable
<1>2. i \in DOMAIN ms /\ i \in Granting(ms) /\ ms[i].mode # "meta"
  BY <1>1 DEF Bound, Granting
<1>3. ms[i] \in [path : MountPaths, mode : Modes]
  <2>1. i \in 1..Len(ms)
    BY <1>2 DEF MountList
  <2> QED
    BY <2>1, ElementsOfLists DEF MountList
<1>4. ms[i].mode = "rw"
  BY <1>1, <1>2, <1>3 DEF Modes
<1> QED
  BY <1>1, <1>2, <1>4 DEF SeatbeltWritable

LEMMA MountsAreTyped == Inv => mounts \in MountList
BY DEF Inv, TypeOK, MountList

(* No order of mounts and no missing source makes bwrap the wider of the   *)
(* two.                                                                     *)
THEOREM BwrapIsNoWider == Spec => []BwrapNoWider
<1>1. Inv => BwrapNoWider
  BY MountsAreTyped, BwrapWritesAreGranted DEF BwrapNoWider
<1> QED
  BY <1>1, InvHolds, PTL

(* A list whose readable mounts come first, but for some that are not      *)
(* above p.                                                                 *)
LEMMA ReadableFirst ==
    ASSUME NEW ms \in MountList, NEW d \in Disks, NEW p \in d, NEW n \in Nat,
           \A i \in DOMAIN ms : i <= n => ms[i].mode = "ro",
           \A i \in DOMAIN ms :
               i > n /\ ms[i].mode = "ro" => ~ Below(p, ms[i].path),
           \A sd \in SeatbeltScratch : ~ Below(p, sd),
           SeatbeltWritable(ms, p)
    PROVE  BwrapWritable(ms, d, p)
<1>1. PICK i \in Granting(ms) : ms[i].mode = "rw" /\ Below(p, ms[i].path)
  BY DEF SeatbeltWritable
<1>2. i \in DOMAIN ms /\ i \in Nat /\ DOMAIN ms \subseteq Nat
  BY <1>1 DEF Granting, MountList
<1>3. i \in Bound(ms, d)
  BY <1>1, ParentsExist DEF Bound
<1>4. i > n
  BY <1>1, <1>2
<1>5. \A j \in Bound(ms, d) : j > i /\ Below(p, ms[j].path) => ms[j].mode # "ro"
  BY <1>2, <1>4 DEF Bound, Granting
<1> QED
  BY <1>1, <1>3, <1>5 DEF BwrapWritable

LEMMA ConfigIsLists ==
    ASSUME NEW c \in Configs
    PROVE  /\ Expanded(c.read, "ro") \in MountList
           /\ Expanded(c.write, "rw") \in MountList
<1>0. "ro" \in Modes /\ "rw" \in Modes
  BY DEF Modes
<1>1. CASE c = EmptyConfig
  <2>1. <<>> \in Seq(CfgPath) /\ DOMAIN <<>> = {}
    OBVIOUS
  <2>2. /\ c.read \in Seq(CfgPath) /\ c.write \in Seq(CfgPath)
        /\ \A i \in DOMAIN c.read : c.read[i] \in ConfigPaths
        /\ \A i \in DOMAIN c.write : c.write[i] \in ConfigPaths
    BY <1>1, <2>1 DEF EmptyConfig
  <2> QED
    BY <1>0, <2>2, ExpandedType
<1>2. CASE c # EmptyConfig
  <2>1. PICK f \in Files : c.read = f.read /\ c.write = f.write
    BY <1>2 DEF InForce, Configs
  <2> QED
    BY <1>0, <2>1, FilePathsAreConfigPaths, ExpandedType
<1> QED
  BY <1>1, <1>2

LEMMA ExpandedMode ==
    ASSUME NEW ps, NEW m, NEW i \in DOMAIN Expanded(ps, m)
    PROVE  Expanded(ps, m)[i].mode = m
BY DEF Expanded, Mount

LEMMA ThreeLists ==
    ASSUME NEW S, NEW a \in Seq(S), NEW b \in Seq(S), NEW c \in Seq(S),
           NEW i \in DOMAIN ((a \o b) \o c)
    PROVE  \/ i <= Len(a) /\ i \in DOMAIN a /\ ((a \o b) \o c)[i] = a[i]
           \/ i > Len(a) /\ \E j \in DOMAIN b : ((a \o b) \o c)[i] = b[j]
           \/ i > Len(a) /\ \E j \in DOMAIN c : ((a \o b) \o c)[i] = c[j]
<1>1. a \o b \in Seq(S) /\ Len(a \o b) = Len(a) + Len(b)
  OBVIOUS
<1>2. i \in 1..(Len(a) + Len(b) + Len(c))
  BY <1>1
<1>3. CASE i <= Len(a)
  <2>1. (a \o b)[i] = a[i] /\ i \in DOMAIN a
    BY <1>2, <1>3
  <2>2. ((a \o b) \o c)[i] = (a \o b)[i]
    BY <1>1, <1>2, <1>3
  <2> QED
    BY <1>3, <2>1, <2>2
<1>4. CASE i > Len(a) /\ i <= Len(a) + Len(b)
  <2>1. (a \o b)[i] = b[i - Len(a)] /\ i - Len(a) \in DOMAIN b
    BY <1>2, <1>4
  <2>2. ((a \o b) \o c)[i] = (a \o b)[i]
    BY <1>1, <1>2, <1>4
  <2> QED
    BY <1>4, <2>1, <2>2
<1>5. CASE i > Len(a) + Len(b)
  <2>1. /\ ((a \o b) \o c)[i] = c[i - (Len(a) + Len(b))]
        /\ i - (Len(a) + Len(b)) \in DOMAIN c /\ i > Len(a)
    BY <1>1, <1>2, <1>5
  <2> QED
    BY <2>1
<1> QED
  BY <1>2, <1>3, <1>4, <1>5

(* Both backends make the same paths writable.                              *)
THEOREM GrantsAgreeOnBothBackends == Spec => []GrantsAgree
<1>1. Inv => GrantsAgree
  <2> SUFFICES ASSUME Inv, stage = "running", NEW p \in disk,
                      \A i \in DOMAIN req.paths : req.paths[i].mode = "ro" =>
                          ~ Below(p, Clean(req.paths[i].names)),
                      \A d \in SeatbeltScratch : ~ Below(p, d)
               PROVE  BwrapWritable(mounts, disk, p) <=> SeatbeltWritable(mounts, p)
    BY DEF GrantsAgree
  <2>1. mounts = BaselineMounts(cfg.read, cfg.write) \o RequestMounts(req.paths)
    BY DEF Inv, Handled
  <2>2. /\ Expanded(cfg.read, "ro") \in MountList
        /\ Expanded(cfg.write, "rw") \in MountList
        /\ RequestMounts(req.paths) \in MountList
    BY ConfigIsLists, RequestMountsType DEF Inv, TypeOK
  <2>3. PICK n \in Nat : \A i \in DOMAIN mounts :
            \/ i <= n /\ mounts[i].mode = "ro"
            \/ i > n /\ mounts[i].mode = "rw"
            \/ i > n /\ \E j \in DOMAIN RequestMounts(req.paths) :
                           mounts[i] = RequestMounts(req.paths)[j]
    <3>1. Len(Expanded(cfg.read, "ro")) \in Nat
      BY <2>2 DEF MountList
    <3>2. ASSUME NEW i \in DOMAIN mounts
          PROVE  \/ i <= Len(Expanded(cfg.read, "ro")) /\ mounts[i].mode = "ro"
                 \/ i > Len(Expanded(cfg.read, "ro")) /\ mounts[i].mode = "rw"
                 \/ /\ i > Len(Expanded(cfg.read, "ro"))
                    /\ \E j \in DOMAIN RequestMounts(req.paths) :
                           mounts[i] = RequestMounts(req.paths)[j]
      BY <2>1, <2>2, ThreeLists, ExpandedMode DEF BaselineMounts, MountList
    <3> QED
      BY <3>1, <3>2
  <2>4. \A j \in DOMAIN RequestMounts(req.paths) :
            RequestMounts(req.paths)[j].mode = "ro"
                => ~ Below(p, RequestMounts(req.paths)[j].path)
    BY DEF RequestMounts, Mount
  <2>5. DOMAIN mounts \subseteq Nat /\ mounts \in MountList /\ disk \in Disks
    BY MountsAreTyped DEF Inv, TypeOK, MountList
  <2>6. \A i \in DOMAIN mounts : i <= n => mounts[i].mode = "ro"
    BY <2>3, <2>5
  <2>7. \A i \in DOMAIN mounts :
            i > n /\ mounts[i].mode = "ro" => ~ Below(p, mounts[i].path)
    BY <2>3, <2>4, <2>5
  <2> QED
    BY <2>5, <2>6, <2>7, ReadableFirst, BwrapWritesAreGranted
<1> QED
  BY <1>1, InvHolds, PTL

LEMMA BelowIsTransitive ==
    ASSUME NEW p \in Seq(Name), NEW q, NEW r, Below(p, q), Below(q, r)
    PROVE  Below(p, r)
<1>1. PICK n \in 0..Len(p) : q = SubSeq(p, 1, n)
  BY DEF Below
<1>2. Len(q) = n
  BY <1>1
<1>3. PICK m \in 0..n : r = SubSeq(q, 1, m)
  BY <1>2 DEF Below
<1>4. SubSeq(q, 1, m) = SubSeq(p, 1, m)
  BY <1>1, <1>3
<1> QED
  BY <1>1, <1>3, <1>4 DEF Below

(* Every existing directory in PATH can be read on both backends, however   *)
(* long ago the tools were found.                                           *)
THEOREM ToolsAreReadable == Spec => []ToolsReadable
<1>1. Inv => ToolsReadable
  <2> SUFFICES ASSUME Inv, NEW d \in SandboxPATH(tools) \cap disk
               PROVE  /\ BwrapReadable(mounts, tools, disk, d)
                      /\ SeatbeltReadAllowed(mounts, tools, d)
    BY DEF ToolsReadable
  <2>1. CASE d \in BasePATH
    BY <2>1, ToolsAssumption DEF BwrapReadable, SeatbeltReadAllowed
  <2>2. ASSUME NEW td \in tools, d = td.bin
        PROVE  /\ BwrapReadable(mounts, tools, disk, d)
               /\ SeatbeltReadAllowed(mounts, tools, d)
    <3>1. td \in ToolDirs /\ disk \in Disks
      BY DEF Inv, TypeOK
    <3>2. PICK rd \in td.reads : Below(d, rd)
      BY <2>2, <3>1, ToolsAssumption
    <3>3. rd \in disk /\ rd \in ToolReads(tools)
      BY <3>1, <3>2, ParentsExist DEF ToolReads
    <3>4. CASE CoveredByStaticRoot(rd)
      <4>1. PICK root \in BwrapStaticRoots : Below(rd, root)
        BY <3>4 DEF CoveredByStaticRoot
      <4>2. Below(d, root)
        BY <2>2, <3>1, <3>2, <4>1, ToolsAssumption, BelowIsTransitive
      <4> QED
        BY <3>2, <3>3, <4>2 DEF BwrapReadable, SeatbeltReadAllowed, CoveredByStaticRoot
    <3>5. CASE ~ CoveredByStaticRoot(rd)
      BY <3>2, <3>3, <3>5 DEF BwrapReadable, SeatbeltReadAllowed, BwrapToolBinds
    <3> QED
      BY <3>4, <3>5
  <2> QED
    BY <2>1, <2>2 DEF SandboxPATH
<1> QED
  BY <1>1, InvHolds, PTL

LEMMA MountPathsAreSequences == MountPaths \subseteq Seq(Name)
<1>1. ASSUME NEW c \in ConfigPaths PROVE ExpandHome(c) \in Seq(Name)
  <2>1. c \in CfgPath
    <3>1. PICK f \in Files : c \in Entries(f.read) \cup Entries(f.write)
      BY DEF ConfigPaths
    <3>2. f.read \in Seq(CfgPath) /\ f.write \in Seq(CfgPath)
      BY FilePathsAreConfigPaths
    <3>3. ASSUME NEW s \in Seq(CfgPath) PROVE Entries(s) \subseteq CfgPath
      BY ElementsOfLists DEF Entries
    <3> QED
      BY <3>1, <3>2, <3>3
  <2>2. HomeDir \o c.names \in Seq(Name) /\ c.names \in Seq(Name)
    BY <2>1, InputsAssumption, ListsConcatenate DEF CfgPath
  <2>3. Clean(HomeDir \o c.names) \in Seq(Name \ {".."})
    BY <2>2, CleanNamesNoParent
  <2> QED
    BY <2>2, <2>3, SubsetsOfLists DEF ExpandHome
<1>2. ASSUME NEW r \in Requests, NEW q \in Entries(r.paths)
      PROVE  Clean(q.names) \in Seq(Name)
  <2>1. q \in [abs : BOOLEAN, names : Seq(Name), mode : Modes]
    <3>1. r.paths \in Seq([abs : BOOLEAN, names : Seq(Name), mode : Modes])
      BY InputsAssumption
    <3>2. PICK i \in 1..Len(r.paths) : q = r.paths[i]
      BY <3>1 DEF Entries
    <3> QED
      BY <3>1, <3>2, ElementsOfLists
  <2>2. Clean(q.names) \in Seq(Name \ {".."})
    BY <2>1, CleanNamesNoParent
  <2> QED
    BY <2>2, SubsetsOfLists
<1> QED
  BY <1>1, <1>2 DEF MountPaths

(* Under seatbelt every directory above what a command was given can be     *)
(* looked up, unless a metadata-only path of the request cuts the walk up   *)
(* to it short.                                                             *)
THEOREM AncestorsAreVisible == Spec => []AncestorsVisible
<1>1. Inv => AncestorsVisible
  <2> SUFFICES ASSUME Inv, NEW i \in Granting(mounts),
                      NEW d \in Ancestors(mounts[i].path)
               PROVE  \/ SeatbeltStatAllowed(mounts, tools, d)
                      \/ \E j \in DOMAIN mounts :
                            /\ mounts[j].mode = "meta"
                            /\ mounts[j].path \in Ancestors(mounts[i].path)
                            /\ Below(mounts[j].path, d)
    BY DEF AncestorsVisible
  <2>1. mounts \in Seq([path : Seq(Name), mode : Modes])
    <3>1. [path : MountPaths, mode : Modes] \subseteq [path : Seq(Name), mode : Modes]
      BY MountPathsAreSequences
    <3> QED
      BY <3>1, MountsAreTyped, SubsetsOfLists DEF MountList
  <2> QED
    BY <2>1, WalksReachAncestors
<1> QED
  BY <1>1, InvHolds, PTL
=============================================================================
