---------------------------- MODULE ServiceProofs ----------------------------
(***************************************************************************)
(* Proofs about Service, for every set of hosts and every number of        *)
(* disturbances.                                                           *)
(*                                                                         *)
(* Two invariants stand behind the properties.  SetupInv follows a daemon  *)
(* through the setup: once root hands the memory controller down, every    *)
(* living process is in the leaf, and it stays so because whoever starts   *)
(* from then on starts there; only the end of the container takes it back. *)
(* PathInv follows the path of main's socket while main is alone.          *)
(***************************************************************************)
EXTENDS Service, TLAPS

Running == {"load", "remove", "listen", "chmod", "serving"}

SetUp(d) ==
    /\ ready[d] /\ base[d] = "root" /\ where[d] = "init"
    /\ subtree /\ InK8sPod /\ host.v2

SubtreeInv ==
    subtree => /\ host.limit /\ ~ host.wrapped
               /\ \A d \in Daemons : Alive(d) => where[d] = "init"

ContainerInv ==
    ~ host.launchd /\ ~ host.wrapped /\ pc["main"] = "off"
        => pc["other"] = "off" /\ ~ subtree

SetupOf(d) ==
    /\ ~ host.limit => where[d] = "root"
    /\ pc[d] \in SetupPhases \ {"start"} => host.limit /\ InK8sPod /\ host.v2
    /\ pc[d] \in {"enable", "retry", "verify"} => where[d] = "init"
    /\ pc[d] = "verify" => base[d] = "root"
    /\ pc[d] \in Running /\ host.limit => SetUp(d)

SetupInv == SubtreeInv /\ ContainerInv /\ \A d \in Daemons : SetupOf(d)

PathInv ==
    /\ alone => pc["other"] = "off"
    /\ alone /\ pc["main"] \in {"chmod", "serving"} => path = "main"
    /\ \A d \in Daemons : pc[d] \in {"chmod", "serving"} => Listenable(ListenAddr)

-----------------------------------------------------------------------------
(* Types.                                                                  *)

LEMMA InitTypes == Init => TypeOK
<1> SUFFICES ASSUME Init PROVE TypeOK
  OBVIOUS
<1>1. disturbances \in 0..MaxDisturbances
  BY DaemonAssumption DEF Init
<1>2. pc \in [Daemons -> SetupPhases \cup LaterPhases] /\ where \in [Daemons -> Places]
  BY DEF Init, LaterPhases, Places
<1>3. base \in [Daemons -> Places \cup {"none"}]
  BY DEF Init
<1>4. path \in Daemons \cup {"stale", "free"} /\ cli \in CliPhases
  BY DEF Init, CliPhases
<1>5. \A d \in Daemons :
         /\ open[d] <=> pc[d] \in {"chmod", "serving", "closing"}
         /\ path = d => open[d]
  BY DEF Init, Daemons
<1> QED
  BY <1>1, <1>2, <1>3, <1>4, <1>5 DEF Init, TypeOK

LEMMA SetupStepTypes ==
    ASSUME TypeOK, NEW d \in Daemons,
           SetupStep(d), Unaddressed, UNCHANGED host, UNCHANGED serviceVars
    PROVE  TypeOK'
<1> DEFINE Earlier == SetupPhases \cup {"load", "exit"}
<1>1. pc[d] \in SetupPhases /\ \E phase \in Earlier : Goto(d, phase)
  <2> USE DEF SetupPhases, Fail
  <2>1. CASE Probe(d)
    BY <2>1 DEF Probe
  <2>2. CASE MakeInit(d) \/ Migrate(d)
    BY <2>2 DEF MakeInit, Migrate
  <2>3. CASE EnableMemory(d) \/ Verify(d)
    BY <2>3 DEF EnableMemory, Verify
  <2> QED
    BY <2>1, <2>2, <2>3 DEF SetupStep
<1>2. /\ where' \in [Daemons -> Places]
      /\ base' \in [Daemons -> Places \cup {"none"}]
      /\ ready' \in [Daemons -> BOOLEAN]
      /\ initDir' \in BOOLEAN /\ subtree' \in BOOLEAN
  <2> USE DEF TypeOK, Fail, cgroupVars, Places
  <2>1. CASE Probe(d)
    BY <2>1 DEF Probe
  <2>2. CASE MakeInit(d)
    BY <2>2 DEF MakeInit
  <2>3. CASE Migrate(d)
    BY <2>3 DEF Migrate
  <2>4. CASE EnableMemory(d)
    BY <2>4 DEF EnableMemory
  <2>5. CASE Verify(d)
    BY <2>5 DEF Verify
  <2> QED
    BY <2>1, <2>2, <2>3, <2>4, <2>5 DEF SetupStep
<1>3. PICK phase \in Earlier : pc' = [pc EXCEPT ![d] = phase]
  BY <1>1 DEF Goto
<1>4. pc' \in [Daemons -> SetupPhases \cup LaterPhases]
  BY <1>3 DEF TypeOK, LaterPhases
<1>5. \A e \in Daemons :
         /\ open'[e] <=> pc'[e] \in {"chmod", "serving", "closing"}
         /\ path' = e => open'[e]
  BY <1>1, <1>3 DEF TypeOK, Unaddressed, SetupPhases
<1> QED
  BY <1>2, <1>4, <1>5 DEF TypeOK, Unaddressed, serviceVars

LEMMA RunStepTypes ==
    ASSUME TypeOK, NEW d \in Daemons, RunStep(d), UNCHANGED serviceVars
    PROVE  TypeOK'
<1> USE DEF TypeOK, Goto, cgroupVars, Unaddressed, serviceVars, Daemons,
            SetupPhases, LaterPhases
<1>1. CASE Load(d)
  BY <1>1 DEF Load
<1>2. CASE RemoveStale(d)
  BY <1>2, DaemonAssumption DEF RemoveStale
<1>3. CASE Listen(d)
  <2>1. CASE Listenable(ListenAddr) /\ path = "free"
    <3>1. PICK phase \in {"chmod", "serving"} : Goto(d, phase)
      BY <1>3, <2>1 DEF Listen
    <3>2. /\ pc' = [pc EXCEPT ![d] = phase]
          /\ path' = d /\ open' = [open EXCEPT ![d] = TRUE]
          /\ UNCHANGED <<host, where, base, ready, initDir, subtree, work, alone,
                         disturbances, plist, loaded, cli>>
      BY <1>3, <2>1, <3>1 DEF Listen
    <3>3. \A e \in Daemons :
             /\ open'[e] <=> pc'[e] \in {"chmod", "serving", "closing"}
             /\ path' = e => open'[e]
      BY <3>2
    <3> QED
      BY <3>2, <3>3
  <2>2. CASE ~ (Listenable(ListenAddr) /\ path = "free")
    BY <1>3, <2>2 DEF Listen
  <2> QED
    BY <2>1, <2>2
<1>4. CASE Chmod(d)
  <2>1. CASE path # "free"
    BY <1>4, <2>1 DEF Chmod
  <2>2. CASE path = "free"
    <3>1. /\ pc' = [pc EXCEPT ![d] = "exit"] /\ open' = [open EXCEPT ![d] = FALSE]
          /\ UNCHANGED <<host, where, base, ready, initDir, subtree, path, work, alone,
                         disturbances, plist, loaded, cli>>
      BY <1>4, <2>2 DEF Chmod
    <3>2. \A e \in Daemons :
             /\ open'[e] <=> pc'[e] \in {"chmod", "serving", "closing"}
             /\ path' = e => open'[e]
      BY <2>2, <3>1
    <3> QED
      BY <3>1, <3>2
  <2> QED
    BY <2>1, <2>2
<1>5. CASE CloseListener(d)
  BY <1>5 DEF CloseListener, Unlistens
<1>6. CASE Drain(d)
  BY <1>6 DEF Drain
<1> QED
  BY <1>1, <1>2, <1>3, <1>4, <1>5, <1>6, SetupStepTypes DEF RunStep

LEMMA EndsTypes ==
    ASSUME TypeOK, NEW d \in Daemons,
           Ends(d) \/ Terminated(d) \/ UNCHANGED <<pc, path, open>>
    PROVE  /\ pc' \in [Daemons -> SetupPhases \cup LaterPhases]
           /\ path' \in Daemons \cup {"stale", "free"}
           /\ open' \in [Daemons -> BOOLEAN]
           /\ \A e \in Daemons :
                 /\ open'[e] <=> pc'[e] \in {"chmod", "serving", "closing"}
                 /\ path' = e => open'[e]
<1> USE DEF TypeOK, Goto, SetupPhases, LaterPhases, Daemons
<1>1. CASE Ends(d)
  BY <1>1 DEF Ends
<1>2. CASE pc[d] = "serving" /\ Goto(d, "closing") /\ UNCHANGED <<path, open>>
  BY <1>2
<1>3. CASE UNCHANGED <<pc, path, open>>
  BY <1>3
<1> QED
  BY <1>1, <1>2, <1>3 DEF Terminated

LEMMA DisturbTypes ==
    ASSUME TypeOK, Disturb
    PROVE  disturbances' \in 0..MaxDisturbances
BY DaemonAssumption DEF TypeOK, Disturb

LEMMA ProcessTypes ==
    ASSUME TypeOK, NEW d \in Daemons,
           \/ Request(d) /\ UNCHANGED serviceVars
           \/ Answer(d) /\ UNCHANGED serviceVars
           \/ Crash(d) \/ Signal(d) \/ ServeFails(d) \/ Reaped(d)
           \/ Spawn \/ StartOther \/ ContainerEnds
    PROVE  TypeOK'
<1>1. CASE (Request(d) \/ Answer(d)) /\ UNCHANGED serviceVars
  BY <1>1 DEF TypeOK, Request, Answer, cgroupVars, serviceVars
<1>2. CASE Crash(d) \/ Signal(d)
  BY <1>2, EndsTypes, DisturbTypes DEF TypeOK, Crash, Signal, cgroupVars, serviceVars
<1>3. CASE ServeFails(d)
  BY <1>3, DisturbTypes
     DEF TypeOK, ServeFails, Unlistens, Goto, cgroupVars, serviceVars,
         SetupPhases, LaterPhases, Daemons
<1>4. CASE Reaped(d)
  BY <1>4 DEF TypeOK, Reaped, Goto, cgroupVars, serviceVars, SetupPhases, LaterPhases
<1>5. CASE Spawn
  BY <1>5 DEF TypeOK, Spawn, StartsAs, Goto, serviceVars, SetupPhases, LaterPhases,
              Places, Daemons
<1>6. CASE StartOther
  BY <1>6, DisturbTypes
     DEF TypeOK, StartOther, StartsAs, Goto, serviceVars, SetupPhases, LaterPhases,
         Places, Daemons
<1>7. CASE ContainerEnds
  BY <1>7 DEF TypeOK, ContainerEnds, serviceVars, LaterPhases, Daemons
<1> QED
  BY <1>1, <1>2, <1>3, <1>4, <1>5, <1>6, <1>7

CliNext ==
    \/ \E ok \in BOOLEAN : Install(ok) \/ Stop(ok) \/ Uninstall(ok)
    \/ Start
    \/ Restart
    \/ CliStep

(* What the command line may do to a daemon.                               *)
LEMMA CliEffect ==
    ASSUME TypeOK, CliNext
    PROVE  /\ UNCHANGED <<host, cgroupVars, work>>
           /\ \/ Ends("main") /\ Alive("main") /\ UNCHANGED alone
              \/ Terminated("main") /\ UNCHANGED alone
              \/ UNCHANGED <<pc, path, open, alone>>
              \/ UnlinkSocket
<1>1. ASSUME NEW ok \in BOOLEAN, Install(ok) \/ Stop(ok) \/ Uninstall(ok)
      PROVE  /\ UNCHANGED <<host, cgroupVars, work, alone>>
             /\ Terminated("main") \/ UNCHANGED <<pc, path, open>>
  BY <1>1 DEF Install, Stop, Uninstall, Bootout
<1>2. CASE Start \/ WritePlist \/ Bootstrap \/ DeletePlist
  BY <1>2 DEF Start, WritePlist, Bootstrap, DeletePlist, daemonVars
<1>3. CASE Restart
  BY <1>3 DEF Restart
<1>4. CASE UnlinkSocket
  BY <1>4 DEF UnlinkSocket
<1> QED
  BY <1>1, <1>2, <1>3, <1>4 DEF CliNext, CliStep

LEMMA CliTypes ==
    ASSUME TypeOK, CliNext
    PROVE  TypeOK'
<1>1. /\ pc' \in [Daemons -> SetupPhases \cup LaterPhases]
      /\ path' \in Daemons \cup {"stale", "free"}
      /\ open' \in [Daemons -> BOOLEAN]
      /\ \A e \in Daemons :
            /\ open'[e] <=> pc'[e] \in {"chmod", "serving", "closing"}
            /\ path' = e => open'[e]
  <2>1. "main" \in Daemons
    BY DEF Daemons
  <2>2. CASE UnlinkSocket
    BY <2>2 DEF UnlinkSocket, TypeOK, Daemons
  <2> QED
    BY <2>1, <2>2, CliEffect, EndsTypes
<1>2. /\ plist' \in BOOLEAN /\ loaded' \in BOOLEAN /\ cli' \in CliPhases
      /\ alone' \in BOOLEAN /\ disturbances' \in 0..MaxDisturbances
  <2>1. ASSUME NEW ok \in BOOLEAN, Install(ok) \/ Stop(ok) \/ Uninstall(ok)
        PROVE  /\ plist' \in BOOLEAN /\ loaded' \in BOOLEAN /\ cli' \in CliPhases
               /\ alone' \in BOOLEAN /\ disturbances' \in 0..MaxDisturbances
    BY <2>1, DisturbTypes DEF TypeOK, Install, Stop, Uninstall, Command, Bootout, CliPhases
  <2>2. CASE Start \/ Restart
    BY <2>2, DisturbTypes DEF TypeOK, Start, Restart, Command, CliPhases, serviceVars
  <2>3. CASE CliStep
    BY <2>3 DEF TypeOK, CliStep, WritePlist, Bootstrap, DeletePlist, UnlinkSocket,
                CliPhases, daemonVars
  <2> QED
    BY <2>1, <2>2, <2>3 DEF CliNext
<1> QED
  BY <1>1, <1>2, CliEffect DEF TypeOK, cgroupVars

LEMMA StepTypes == TypeOK /\ [Next]_vars => TypeOK'
<1> SUFFICES ASSUME TypeOK, [Next]_vars PROVE TypeOK'
  OBVIOUS
<1>1. CASE UNCHANGED vars
  BY <1>1 DEF TypeOK, vars, cgroupVars, daemonVars, serviceVars
<1>2. CASE CliNext
  BY <1>2, CliTypes
<1>3. CASE Spawn \/ StartOther \/ ContainerEnds
  BY <1>3, ProcessTypes DEF Daemons
<1>4. ASSUME NEW d \in Daemons,
             \/ (RunStep(d) \/ Request(d) \/ Answer(d)) /\ UNCHANGED serviceVars
             \/ Crash(d) \/ Signal(d) \/ ServeFails(d) \/ Reaped(d)
      PROVE  TypeOK'
  BY <1>4, RunStepTypes, ProcessTypes
<1> QED
  BY <1>1, <1>2, <1>3, <1>4 DEF Next, CliNext

(* Every variable keeps its type, and an address never leads to a daemon    *)
(* whose listener is closed.                                                *)
THEOREM ServiceTypesCorrect == Spec => []TypeOK
BY InitTypes, StepTypes, PTL DEF Spec

-----------------------------------------------------------------------------
(* The setup.                                                              *)

LEMMA HostFacts ==
    ASSUME TypeOK
    PROVE  /\ host.limit \in BOOLEAN /\ host.launchd \in BOOLEAN /\ host.wrapped \in BOOLEAN
           /\ host.limit => ~ host.launchd
BY DaemonAssumption DEF TypeOK

(* What a step does to the phase of a daemon when it is no part of the      *)
(* setup: it serves, it ends, or it is cleared away.                        *)
Moves(d) ==
    \/ pc'[d] = pc[d]
    \/ pc[d] \in Running /\ pc'[d] \in Running
    \/ Alive(d) /\ pc'[d] \in {"closing", "draining", "exit"}
    \/ /\ pc[d] = "exit" /\ pc'[d] = "off"
       /\ d = "main" => host.launchd \/ host.wrapped

Quiet == UNCHANGED <<host, cgroupVars>> /\ \A d \in Daemons : Moves(d)

LEMMA QuietKeepsSetup ==
    ASSUME TypeOK, SetupInv, Quiet
    PROVE  SetupInv'
<1> USE DEF Quiet, Moves, Alive, Running, cgroupVars, Daemons
<1>1. SubtreeInv'
  BY DEF SetupInv, SubtreeInv
<1>2. ContainerInv'
  BY DEF SetupInv, ContainerInv
<1>3. ASSUME NEW d \in Daemons PROVE SetupOf(d)'
  <2>1. SetupOf(d)
    BY DEF SetupInv
  <2>2. CASE pc'[d] = pc[d]
    BY <2>1, <2>2 DEF SetupOf, SetUp, InK8sPod
  <2>3. CASE pc[d] \in Running /\ pc'[d] \in Running
    BY <2>1, <2>3 DEF SetupOf, SetUp, InK8sPod, SetupPhases
  <2>4. CASE pc'[d] \in {"closing", "draining", "exit", "off"}
    BY <2>1, <2>4 DEF SetupOf, SetupPhases
  <2> QED
    BY <2>2, <2>3, <2>4
<1> QED
  BY <1>1, <1>2, <1>3 DEF SetupInv

LEMMA EndingIsQuiet ==
    ASSUME TypeOK, NEW d \in Daemons, UNCHANGED <<host, cgroupVars>>,
           \/ Ends(d) /\ Alive(d)
           \/ Terminated(d)
           \/ UNCHANGED pc
    PROVE  Quiet
<1> USE DEF Quiet, Moves, TypeOK, Daemons, Alive
<1>1. CASE Ends(d) /\ Alive(d)
  BY <1>1 DEF Ends, Goto
<1>2. CASE Terminated(d)
  BY <1>2 DEF Terminated, Ends, Goto, Before, SetupPhases
<1>3. CASE UNCHANGED pc
  BY <1>3
<1> QED
  BY <1>1, <1>2, <1>3

LEMMA RunIsQuiet ==
    ASSUME TypeOK, NEW d \in Daemons,
           \/ Load(d) \/ RemoveStale(d) \/ Listen(d) \/ Chmod(d) \/ CloseListener(d) \/ Drain(d)
           \/ Request(d) \/ Answer(d)
           \/ ServeFails(d) \/ Reaped(d)
    PROVE  Quiet
<1> USE DEF Quiet, Moves, TypeOK, Daemons, Alive, Goto, Running
<1>1. CASE Load(d) \/ RemoveStale(d)
  BY <1>1 DEF Load, RemoveStale
<1>2. CASE Listen(d)
  BY <1>2 DEF Listen
<1>3. CASE Chmod(d)
  BY <1>3 DEF Chmod
<1>4. CASE CloseListener(d) \/ Drain(d)
  BY <1>4 DEF CloseListener, Drain
<1>5. CASE Request(d) \/ Answer(d)
  BY <1>5 DEF Request, Answer
<1>6. CASE ServeFails(d) \/ Reaped(d)
  BY <1>6 DEF ServeFails, Reaped
<1> QED
  BY <1>1, <1>2, <1>3, <1>4, <1>5, <1>6

LEMMA CliIsQuiet ==
    ASSUME TypeOK, CliNext
    PROVE  Quiet
<1>1. "main" \in Daemons
  BY DEF Daemons
<1>2. CASE UnlinkSocket
  BY <1>2 DEF UnlinkSocket, Quiet, Moves
<1> QED
  BY <1>1, <1>2, CliEffect, EndingIsQuiet

LEMMA SetupStepKeepsSetup ==
    ASSUME TypeOK, SetupInv, NEW d \in Daemons, SetupStep(d), UNCHANGED host
    PROVE  SetupInv'
<1> USE DEF Goto, Fail, cgroupVars
<1>0. /\ SubtreeInv /\ ContainerInv /\ SetupOf(d)
      /\ \A e \in Daemons : SetupOf(e)
  BY DEF SetupInv
<1>1. CASE Fail(d) /\ Alive(d)
  BY <1>1, QuietKeepsSetup DEF Quiet, Moves, TypeOK
<1> USE DEF TypeOK, Daemons, Alive
<1>2. CASE pc[d] = "start" /\ Goto(d, "load") /\ ~ host.limit /\ UNCHANGED cgroupVars
  <2>1. SubtreeInv' /\ ContainerInv'
    BY <1>0, <1>2 DEF SubtreeInv, ContainerInv
  <2>2. \A e \in Daemons : SetupOf(e)'
    BY <1>0, <1>2 DEF SetupOf, SetUp, InK8sPod, SetupPhases, Running
  <2> QED
    BY <2>1, <2>2 DEF SetupInv
<1>3. CASE /\ pc[d] = "start" /\ host.limit /\ InK8sPod /\ host.v2
           /\ \/ Goto(d, "mkdir") /\ UNCHANGED base
              \/ /\ where[d] # "root" /\ Goto(d, "verify")
                 /\ base' = [base EXCEPT ![d] = "root"]
           /\ UNCHANGED <<where, ready, initDir, subtree>>
  <2>1. SubtreeInv' /\ ContainerInv'
    BY <1>0, <1>3 DEF SubtreeInv, ContainerInv
  <2>2. where[d] # "root" => where[d] = "init"
    BY DEF Places
  <2>3. \A e \in Daemons : SetupOf(e)'
    BY <1>0, <1>3, <2>2 DEF SetupOf, SetUp, InK8sPod, SetupPhases, Running
  <2> QED
    BY <2>1, <2>3 DEF SetupInv
<1>4. CASE MakeInit(d) /\ ~ Fail(d)
  <2>1. SubtreeInv' /\ ContainerInv'
    BY <1>0, <1>4 DEF SubtreeInv, ContainerInv, MakeInit
  <2>2. \A e \in Daemons : SetupOf(e)'
    BY <1>0, <1>4 DEF SetupOf, SetUp, InK8sPod, SetupPhases, Running, MakeInit
  <2> QED
    BY <2>1, <2>2 DEF SetupInv
<1>5. CASE Migrate(d) /\ ~ Fail(d)
  <2>1. SubtreeInv' /\ ContainerInv'
    BY <1>0, <1>5 DEF SubtreeInv, ContainerInv, Migrate
  <2>2. \A e \in Daemons : SetupOf(e)'
    BY <1>0, <1>5 DEF SetupOf, SetUp, InK8sPod, SetupPhases, Running, Migrate
  <2> QED
    BY <2>1, <2>2 DEF SetupInv
<1>6. CASE EnableMemory(d) /\ Goto(d, "verify")
  <2>0. /\ pc[d] \in {"enable", "retry"} /\ subtree' = TRUE
        /\ base' = [base EXCEPT ![d] = "root"]
        /\ UNCHANGED <<where, ready, initDir>>
        /\ subtree \/ ~ Crowded
    BY <1>6 DEF EnableMemory
  <2>1. host.limit /\ InK8sPod /\ host.v2 /\ where[d] = "init"
    BY <1>0, <2>0 DEF SetupOf, SetupPhases
  <2>2. ~ host.wrapped /\ \A e \in Daemons : Alive(e) => where[e] = "init"
    BY <1>0, <2>0 DEF SubtreeInv, Crowded, Places
  <2>3. SubtreeInv' /\ ContainerInv'
    BY <1>0, <1>6, <2>0, <2>1, <2>2 DEF SubtreeInv, ContainerInv
  <2>4. \A e \in Daemons : SetupOf(e)'
    BY <1>0, <1>6, <2>0, <2>1 DEF SetupOf, SetUp, InK8sPod, SetupPhases, Running
  <2> QED
    BY <2>3, <2>4 DEF SetupInv
<1>7. CASE EnableMemory(d) /\ pc[d] = "enable" /\ Goto(d, "retry") /\ UNCHANGED cgroupVars
  <2>1. SubtreeInv' /\ ContainerInv'
    BY <1>0, <1>7 DEF SubtreeInv, ContainerInv
  <2>2. \A e \in Daemons : SetupOf(e)'
    BY <1>0, <1>7 DEF SetupOf, SetUp, InK8sPod, SetupPhases, Running
  <2> QED
    BY <2>1, <2>2 DEF SetupInv
<1>8. CASE Verify(d) /\ ~ Fail(d)
  <2>0. /\ pc[d] = "verify" /\ HasMemory(where[d]) /\ Goto(d, "load")
        /\ ready' = [ready EXCEPT ![d] = TRUE]
        /\ UNCHANGED <<where, base, initDir, subtree>>
    BY <1>8 DEF Verify
  <2>1. host.limit /\ InK8sPod /\ host.v2 /\ where[d] = "init" /\ base[d] = "root"
    BY <1>0, <2>0 DEF SetupOf, SetupPhases
  <2>2. subtree
    BY <2>0, <2>1 DEF HasMemory
  <2>3. SubtreeInv' /\ ContainerInv'
    BY <1>0, <2>0 DEF SubtreeInv, ContainerInv
  <2>4. \A e \in Daemons : SetupOf(e)'
    BY <1>0, <2>0, <2>1, <2>2 DEF SetupOf, SetUp, InK8sPod, SetupPhases, Running
  <2> QED
    BY <2>3, <2>4 DEF SetupInv
<1>9. Fail(d) => pc[d] \in SetupPhases /\ Alive(d)
  BY DEF SetupStep, Probe, MakeInit, Migrate, EnableMemory, Verify, SetupPhases
<1>10. CASE Probe(d)
  BY <1>1, <1>2, <1>3, <1>9, <1>10 DEF Probe
<1>11. CASE EnableMemory(d)
  BY <1>1, <1>6, <1>7, <1>9, <1>11 DEF EnableMemory
<1> QED
  BY <1>1, <1>4, <1>5, <1>8, <1>9, <1>10, <1>11 DEF SetupStep

LEMMA StartKeepsSetup ==
    ASSUME TypeOK, SetupInv, Spawn \/ StartOther
    PROVE  SetupInv'
<1> USE DEF TypeOK, Daemons, Alive
<1>0. SubtreeInv /\ ContainerInv /\ \A e \in Daemons : SetupOf(e)
  BY DEF SetupInv
<1>1. CASE Spawn
  <2>1. /\ pc["main"] = "off" /\ pc' = [pc EXCEPT !["main"] = "start"]
        /\ where' = [where EXCEPT !["main"] = "root"]
        /\ base' = [base EXCEPT !["main"] = "none"]
        /\ ready' = [ready EXCEPT !["main"] = FALSE]
        /\ UNCHANGED <<host, subtree>>
    BY <1>1 DEF Spawn, StartsAs, Goto
  <2>2. ~ subtree
    BY <1>0, <2>1, HostFacts DEF SubtreeInv, ContainerInv
  <2>3. SubtreeInv' /\ ContainerInv'
    BY <2>1, <2>2 DEF SubtreeInv, ContainerInv
  <2>4. \A e \in Daemons : SetupOf(e)'
    BY <1>0, <2>1 DEF SetupOf, SetUp, InK8sPod, SetupPhases, Running
  <2> QED
    BY <2>3, <2>4 DEF SetupInv
<1>2. CASE StartOther
  <2>1. /\ pc' = [pc EXCEPT !["other"] = "start"]
        /\ where' = [where EXCEPT !["other"] = IF subtree THEN "init" ELSE "root"]
        /\ base' = [base EXCEPT !["other"] = "none"]
        /\ ready' = [ready EXCEPT !["other"] = FALSE]
        /\ UNCHANGED <<host, subtree>>
        /\ host.launchd \/ host.wrapped \/ Alive("main")
    BY <1>2 DEF StartOther, StartsAs, Goto
  <2>2. SubtreeInv' /\ ContainerInv'
    BY <1>0, <2>1 DEF SubtreeInv, ContainerInv
  <2>3. \A e \in Daemons : SetupOf(e)'
    BY <1>0, <2>1 DEF SetupOf, SetUp, InK8sPod, SetupPhases, Running, SubtreeInv
  <2> QED
    BY <2>2, <2>3 DEF SetupInv
<1> QED
  BY <1>1, <1>2

LEMMA ContainerEndKeepsSetup ==
    ASSUME TypeOK, SetupInv, ContainerEnds
    PROVE  SetupInv'
BY DEF ContainerEnds, SetupInv, SubtreeInv, ContainerInv, SetupOf, Daemons,
       SetupPhases, Running, TypeOK

LEMMA StepSetup == TypeOK /\ SetupInv /\ [Next]_vars => SetupInv'
<1> SUFFICES ASSUME TypeOK, SetupInv, [Next]_vars PROVE SetupInv'
  OBVIOUS
<1>1. CASE UNCHANGED vars
  BY <1>1, QuietKeepsSetup DEF vars, Quiet, Moves
<1>2. CASE CliNext
  BY <1>2, CliIsQuiet, QuietKeepsSetup
<1>3. CASE Spawn \/ StartOther \/ ContainerEnds
  BY <1>3, StartKeepsSetup, ContainerEndKeepsSetup
<1>4. ASSUME NEW d \in Daemons, RunStep(d) PROVE SetupInv'
  BY <1>4, RunIsQuiet, QuietKeepsSetup, SetupStepKeepsSetup DEF RunStep
<1>5. ASSUME NEW d \in Daemons,
             Request(d) \/ Answer(d) \/ ServeFails(d) \/ Reaped(d)
      PROVE  SetupInv'
  BY <1>5, RunIsQuiet, QuietKeepsSetup
<1>6. ASSUME NEW d \in Daemons, Crash(d) \/ Signal(d) PROVE SetupInv'
  BY <1>6, EndingIsQuiet, QuietKeepsSetup DEF Crash, Signal
<1> QED
  BY <1>1, <1>2, <1>3, <1>4, <1>5, <1>6 DEF Next, CliNext

LEMMA InitSetup == Init => SetupInv
BY DEF Init, SetupInv, SubtreeInv, ContainerInv, SetupOf, Daemons, SetupPhases, Running

LEMMA SetupHolds == Spec => [](TypeOK /\ SetupInv)
<1>1. Init => TypeOK /\ SetupInv
  BY InitTypes, InitSetup
<1>2. TypeOK /\ SetupInv /\ [Next]_vars => (TypeOK /\ SetupInv)'
  BY StepTypes, StepSetup
<1> QED
  BY <1>1, <1>2, PTL DEF Spec

(* A daemon asked for a limit serves only where it can give every execution *)
(* one, whoever crashed or interfered while the cgroups were set up         *)
(* (SetupCgroupV2).                                                         *)
THEOREM LimitIsEnforceable == Spec => []LimitEnforceable
<1>1. TypeOK /\ SetupInv => LimitEnforceable
  BY DEF TypeOK, SetupInv, SubtreeInv, SetupOf, SetUp, Running, LimitEnforceable, Crowded
<1> QED
  BY <1>1, SetupHolds, PTL

(* The doctor calls a pod ready exactly when the daemon that serves in it   *)
(* has set itself up for limits (CurrentStatus).                            *)
THEOREM DoctorAgreesWithDaemon == Spec => []DoctorAgrees
<1>1. TypeOK /\ SetupInv => DoctorAgrees
  <2> SUFFICES ASSUME TypeOK, SetupInv, ~ host.wrapped, pc["main"] = "serving"
               PROVE  DoctorReady <=> host.limit
    BY DEF DoctorAgrees
  <2>1. SubtreeInv /\ SetupOf("main")
    BY DEF SetupInv, Daemons
  <2>2. CASE host.limit
    BY <2>1, <2>2 DEF SetupOf, SetUp, Running, DoctorReady, InitLeafCheck, MemoryCheck,
                      Proc1, InK8sPod
  <2>3. CASE ~ host.limit
    BY <2>1, <2>3 DEF SubtreeInv, DoctorReady, MemoryCheck
  <2> QED
    BY <2>2, <2>3
<1> QED
  BY <1>1, SetupHolds, PTL

-----------------------------------------------------------------------------
(* The socket and the address.                                             *)

LEMMA InitPath == Init => PathInv
BY DEF Init, PathInv, Daemons

(* One daemon moves on.  Beside another one, main is not alone.            *)
LEMMA PathKept ==
    ASSUME TypeOK, PathInv, NEW d \in Daemons, NEW phase,
           UNCHANGED <<host, alone>>, pc[d] # "off", Goto(d, phase),
           phase \in {"chmod", "serving"} =>
               Listenable(ListenAddr) /\ (alone => path' = d)
    PROVE  PathInv'
<1>1. (alone => pc["other"] = "off")'
  BY DEF PathInv, TypeOK, Goto, Daemons
<1>2. (alone /\ pc["main"] \in {"chmod", "serving"} => path = "main")'
  BY DEF PathInv, TypeOK, Goto, Daemons
<1>3. (\A e \in Daemons : pc[e] \in {"chmod", "serving"} => Listenable(ListenAddr))'
  BY DEF PathInv, TypeOK, Goto, Daemons, Listenable, ListenAddr, DefaultSocketPath
<1> QED
  BY <1>1, <1>2, <1>3 DEF PathInv

LEMMA PathUnmoved ==
    ASSUME PathInv, UNCHANGED <<host, pc, path, alone>>
    PROVE  PathInv'
BY DEF PathInv, Listenable, ListenAddr, DefaultSocketPath

LEMMA EndingKeepsPath ==
    ASSUME TypeOK, PathInv, NEW d \in Daemons, UNCHANGED <<host, alone>>,
           \/ Ends(d) /\ Alive(d)
           \/ Terminated(d)
           \/ UNCHANGED <<pc, path, open>>
    PROVE  PathInv'
<1>1. CASE Ends(d) /\ Alive(d)
  BY <1>1, PathKept DEF Ends, Alive
<1>2. CASE Terminated(d)
  BY <1>2, PathKept, PathUnmoved DEF Terminated, Ends, Before, SetupPhases
<1>3. CASE UNCHANGED <<pc, path, open>>
  BY <1>3, PathUnmoved
<1> QED
  BY <1>1, <1>2, <1>3

LEMMA SetupStepGoes ==
    ASSUME NEW d \in Daemons, SetupStep(d)
    PROVE  pc[d] # "off" /\ \E phase \in SetupPhases \cup {"load", "exit"} : Goto(d, phase)
<1> USE DEF SetupPhases, Fail
<1>1. CASE Probe(d)
  BY <1>1 DEF Probe
<1>2. CASE MakeInit(d) \/ Migrate(d)
  BY <1>2 DEF MakeInit, Migrate
<1>3. CASE EnableMemory(d) \/ Verify(d)
  BY <1>3 DEF EnableMemory, Verify
<1> QED
  BY <1>1, <1>2, <1>3 DEF SetupStep

LEMMA RunKeepsPath ==
    ASSUME TypeOK, PathInv, NEW d \in Daemons, RunStep(d)
    PROVE  PathInv'
<1>1. CASE SetupStep(d) /\ Unaddressed /\ UNCHANGED host
  <2>1. PICK phase \in SetupPhases \cup {"load", "exit"} : Goto(d, phase)
    BY <1>1, SetupStepGoes
  <2> QED
    BY <1>1, <2>1, SetupStepGoes, PathKept DEF SetupPhases, Unaddressed
<1>2. CASE Load(d) \/ RemoveStale(d)
  <2>1. PICK phase \in {"remove", "listen"} : Goto(d, phase)
    BY <1>2 DEF Load, RemoveStale
  <2> QED
    BY <1>2, <2>1, PathKept DEF Load, RemoveStale, Unaddressed
<1>3. CASE Listen(d)
  <2>1. CASE Listenable(ListenAddr) /\ path = "free"
    <3>1. PICK phase \in {"chmod", "serving"} : Goto(d, phase)
      BY <1>3, <2>1 DEF Listen
    <3> QED
      BY <1>3, <2>1, <3>1, PathKept DEF Listen
  <2>2. CASE ~ (Listenable(ListenAddr) /\ path = "free")
    BY <1>3, <2>2, PathKept DEF Listen
  <2> QED
    BY <2>1, <2>2
<1>4. CASE Chmod(d)
  <2>1. /\ pc[d] = "chmod" /\ UNCHANGED <<host, alone, path>>
        /\ Goto(d, "serving") \/ Goto(d, "exit")
    BY <1>4 DEF Chmod
  <2>2. Listenable(ListenAddr) /\ (alone => path' = d)
    BY <2>1 DEF PathInv, Daemons
  <2> QED
    BY <2>1, <2>2, PathKept
<1>5. CASE CloseListener(d)
  BY <1>5, PathKept DEF CloseListener
<1>6. CASE Drain(d)
  BY <1>6, PathKept DEF Drain, Unaddressed
<1> QED
  BY <1>1, <1>2, <1>3, <1>4, <1>5, <1>6 DEF RunStep

LEMMA StartKeepsPath ==
    ASSUME TypeOK, PathInv, Spawn \/ StartOther \/ ContainerEnds \/ UnlinkSocket
    PROVE  PathInv'
<1> USE DEF TypeOK, PathInv, Daemons, Listenable, ListenAddr, DefaultSocketPath
<1>1. CASE Spawn \/ StartOther
  BY <1>1 DEF Spawn, StartOther, StartsAs, Goto
<1>2. CASE ContainerEnds
  BY <1>2 DEF ContainerEnds
<1>3. CASE UnlinkSocket
  BY <1>3 DEF UnlinkSocket
<1> QED
  BY <1>1, <1>2, <1>3

LEMMA StepPath == TypeOK /\ PathInv /\ [Next]_vars => PathInv'
<1> SUFFICES ASSUME TypeOK, PathInv, [Next]_vars PROVE PathInv'
  OBVIOUS
<1>1. CASE UNCHANGED vars
  BY <1>1, PathUnmoved DEF vars, daemonVars
<1>2. CASE CliNext
  <2>1. "main" \in Daemons
    BY DEF Daemons
  <2> QED
    BY <1>2, <2>1, CliEffect, EndingKeepsPath, StartKeepsPath
<1>3. CASE Spawn \/ StartOther \/ ContainerEnds
  BY <1>3, StartKeepsPath
<1>4. ASSUME NEW d \in Daemons, RunStep(d) PROVE PathInv'
  BY <1>4, RunKeepsPath
<1>5. ASSUME NEW d \in Daemons, Request(d) \/ Answer(d) PROVE PathInv'
  BY <1>5, PathUnmoved DEF Request, Answer
<1>6. ASSUME NEW d \in Daemons, ServeFails(d) PROVE PathInv'
  BY <1>6, PathKept DEF ServeFails
<1>7. ASSUME NEW d \in Daemons, Reaped(d) PROVE PathInv'
  BY <1>7, PathKept DEF Reaped
<1>8. ASSUME NEW d \in Daemons, Crash(d) \/ Signal(d) PROVE PathInv'
  BY <1>8, EndingKeepsPath DEF Crash, Signal
<1> QED
  BY <1>1, <1>2, <1>3, <1>4, <1>5, <1>6, <1>7, <1>8 DEF Next, CliNext

LEMMA PathHolds == Spec => [](TypeOK /\ PathInv)
<1>1. Init => TypeOK /\ PathInv
  BY InitTypes, InitPath
<1>2. TypeOK /\ PathInv /\ [Next]_vars => (TypeOK /\ PathInv)'
  BY StepTypes, StepPath
<1> QED
  BY <1>1, <1>2, PTL DEF Spec

(* Whatever an earlier daemon left at its path, a daemon that serves is    *)
(* reached there until somebody else takes the path (listenHTTP).          *)
THEOREM ServingIsReachable == Spec => []ServingReachable
<1>1. PathInv => ServingReachable
  BY DEF PathInv, ServingReachable
<1> QED
  BY <1>1, PathHolds, PTL

(* While a daemon serves, the client takes its address for the same kind    *)
(* of place, and finds it if both run in one environment (resolveAddr and   *)
(* New, listenAddr and parseListenAddr).                                    *)
THEOREM AddressesAlwaysAgree == Spec => []AddressesAgree
<1>1. PathInv => AddressesAgree
  BY DEF PathInv, AddressesAgree, OneEnvironment, ResolveAddr, ListenAddr,
         DefaultSocketPath, ClientNetwork, Network, ParseListenAddr, Paths,
         Listenable, Daemons
<1> QED
  BY <1>1, PathHolds, PTL
=============================================================================
