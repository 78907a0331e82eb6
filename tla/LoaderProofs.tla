----------------------------- MODULE LoaderProofs -----------------------------
(***************************************************************************)
(* Two properties of Loader, for any pod, any number of containers and      *)
(* waiters and any plans.  Neither is inductive.                            *)
(*                                                                          *)
(* GateKept: that a kernel loaded without its gate is never started depends *)
(* on which restore call may still start one, so GateInv adds where the     *)
(* calls are.                                                               *)
(*                                                                          *)
(* StoppedIsDead: that a container which was removed or is reported as      *)
(* stopped runs nothing depends on what each incarnation may still become,  *)
(* so LifeInv follows the init process and the exec session of all of them  *)
(* from creation to exit.                                                   *)
(***************************************************************************)
EXTENDS Loader, TLAPS

Gates == {"live", "nil", "missing", "recycled"}
Nets ==
  [given : BOOLEAN, gate : Gates, gated : BOOLEAN, cgate : Gates, cgated : BOOLEAN,
   cfd : BOOLEAN, missing : BOOLEAN, ns : {None} \cup Gates]
Places == {"idle", "check", "queue", "load", "start", "fail", "notify"}

(* A network whose enforcement is consistent.                               *)
NetOK(n) ==
  /\ n.cgated = n.gated /\ (n.cfd => n.gated) /\ (n.given => n.gated)
  /\ n.gate = IF n.gated THEN "live" ELSE "nil"
  /\ n.cgate = n.gate /\ ~n.missing /\ n.ns \in {None, n.gate}

Types ==
  /\ plan \in Plans /\ ckpt \in Checkpoints /\ net \in Nets
  /\ rpc \in [Containers -> Places]

(* A restore call that is about to load or start the kernel is the only one *)
(* and the last: all containers are registered and nothing runs yet.        *)
Calls ==
  /\ \A c \in Containers :
       /\ rpc[c] # "idle" => c \in Pod
       /\ rpc[c] \in {"load", "start"} =>
            /\ ~started /\ conts = Pod
            /\ \A d \in Containers : rpc[d] \in {"load", "start"} => d = c
  /\ state = "created" => ~started
  /\ state \in {"created", "started"} =>
       post = "off" /\ \A c \in Containers : rpc[c] = "idle"
  /\ started /\ state # "started" => conts = Pod

(* An inconsistent network belongs to a kernel that will never start.       *)
Dead ==
  /\ ~started /\ state # "created" /\ conts = Pod
  /\ \A c \in Containers : rpc[c] \notin {"load", "start"}

GateInv ==
  /\ Types /\ Calls
  /\ NetOK(net) \/ Dead
  /\ (started /\ state # "started") \/ (\E c \in Containers : rpc[c] = "start") =>
       (ckpt.gated => net.gated)

seen == <<net, ckpt, plan, state, started, rpc, conts, post>>

-----------------------------------------------------------------------------
(* BootNet and a load that is not refused give a consistent network, and    *)
(* the load keeps what the checkpoint asks for (newRootNetworkNamespace,    *)
(* both afterLoads, restore's refusal).                                     *)
LEMMA BootIsOK ==
  ASSUME NEW given \in BOOLEAN
  PROVE  BootNet(given) \in Nets /\ NetOK(BootNet(given))
BY SMTT(20) DEF BootNet, Nets, NetOK, Gates

(* A load that is not refused leaves a network that is consistent.          *)
LEMMA LoadIsOK ==
  ASSUME NEW n \in Nets, NEW s \in Checkpoints
  PROVE  /\ AfterLoad(n, s) \in Nets
         /\ s.gated => AfterLoad(n, s).gated
         /\ ~Refused(AfterLoad(n, s)) => NetOK(AfterLoad(n, s))
BY DEF AfterLoad, Refused, Checkpoints, Nets, NetOK, Gates

(* A consistent network is what GateKept asks for.                          *)
LEMMA ConsistentIsKept ==
  ASSUME NEW n \in Nets, NetOK(n)
  PROVE  /\ n.gated = (n.gate = "live") /\ n.ns \in {None, n.gate}
         /\ n.given => n.gate = "live"
         /\ Saved(n) \in Checkpoints
BY DEF NetOK, Nets, Saved, Checkpoints

(* A new namespace shares the live gate (CreateStack).                      *)
LEMMA StackIsOK ==
  ASSUME GateInv, NEW i, CreateStack(i)
  PROVE  /\ net' \in Nets /\ net'.gated = net.gated
         /\ NetOK(net) => NetOK(net')
BY DEF GateInv, Types, CreateStack, Nets, NetOK, Gates

(* Steps that leave alone what GateInv is about.                            *)
LEMMA Unseen ==
  ASSUME GateInv, UNCHANGED seen
  PROVE  GateInv'
BY DEF GateInv, Types, Calls, Dead, seen, Pod

-----------------------------------------------------------------------------
(* Nothing is loaded at first.                                              *)
LEMMA GateInvInit == Init => GateInv
<1> SUFFICES ASSUME Init PROVE GateInv
  OBVIOUS
<1>1. net \in Nets /\ NetOK(net)
  BY BootIsOK DEF Init
<1>2. Types
  BY <1>1 DEF Init, Types, Places
<1>3. Calls
  BY SMTT(20) DEF Init, Calls
<1> QED
  BY <1>1, <1>2, <1>3 DEF GateInv, Init

(* One lemma for the restore calls, one for what the sandbox does by itself *)
(* and one for its environment.                                             *)
LEMMA CallSteps ==
  ASSUME GateInv, NEW c \in Containers,
         UseRestorer(c) \/ Register(c) \/ RunRestored(c)
           \/ RestoreFailed(c) \/ NotifyFailed(c)
  PROVE  GateInv'
<1> USE DEF GateInv, Types, Calls, Dead, Places, network, rigid, kernel, Pod
<1>1. CASE UseRestorer(c)
  BY <1>1, ZenonT(60) DEF UseRestorer
<1>2. CASE Register(c)
  BY <1>2 DEF Register
<1>3. CASE RunRestored(c)
  BY <1>3 DEF RunRestored
<1>4. CASE RestoreFailed(c)
  BY <1>4 DEF RestoreFailed
<1>5. CASE NotifyFailed(c)
  BY <1>5 DEF NotifyFailed, Broadcast
<1> QED
  BY <1>1, <1>2, <1>3, <1>4, <1>5

(* The load: a refused kernel is dead, because this was the only call that  *)
(* could start it.                                                          *)
LEMMA LoadStep ==
  ASSUME GateInv, NEW c \in Containers, Load(c)
  PROVE  GateInv'
<1> USE DEF GateInv, Types, Calls, Dead, Places, rigid, Pod
<1>1. CASE rpc' = [rpc EXCEPT ![c] = "fail"] /\ net' = net
  BY <1>1, SMTT(20) DEF Load
<1>2. CASE rpc' = [rpc EXCEPT ![c] = "fail"] /\ net' = AfterLoad(net, ckpt)
  BY <1>2, LoadIsOK, SMTT(30) DEF Load
<1>3. CASE /\ rpc' = [rpc EXCEPT ![c] = "start"] /\ net' = AfterLoad(net, ckpt)
           /\ ~Refused(net')
  BY <1>3, LoadIsOK DEF Load
<1> QED
  BY <1>1, <1>2, <1>3 DEF Load

(* Every step preserves the invariant.                                      *)
LEMMA GateInvNext == GateInv /\ [Next]_vars => GateInv'
<1> SUFFICES ASSUME GateInv, [Next]_vars PROVE GateInv'
  OBVIOUS
<1> USE DEF network, rigid, kernel, table, restore
<1>1. CASE UNCHANGED vars
  BY <1>1, Unseen DEF vars, seen
<1>2. CASE Progress
  <2>1. CASE SandboxExit
    BY <2>1, Unseen DEF SandboxExit, seen
  <2>2. CASE PostRestore \/ NotifyPost
    BY <2>2 DEF PostRestore, NotifyPost, Broadcast, GateInv, Types, Calls, Dead, Pod
  <2>3. CASE \E i \in Incs : Signalled(i) \/ Deadline(i) \/ MonitorCheck(i)
    BY <2>3, Unseen DEF Signalled, InitExit, SessionExit, Deadline, MonitorCheck, seen
  <2>4. CASE \E c \in Containers : Destroyed(c)
    BY <2>4, Unseen DEF Destroyed, seen
  <2>5. CASE \E w \in Waiters : LookAgain(w) \/ WaitExited(w)
    BY <2>5, Unseen DEF LookAgain, Look, WaitExited, seen
  <2> QED
    BY <1>2, <2>1, <2>2, <2>3, <2>4, <2>5, CallSteps, LoadStep DEF Progress
<1>3. CASE Environment
  <2>1. CASE StartRoot
    BY <2>1 DEF StartRoot, Started, GateInv, Types, Calls, Dead, Pod
  <2>2. CASE Restore
    BY <2>2 DEF Restore, GateInv, Types, Calls, Dead, Places, Pod, Containers
  <2>3. ASSUME NEW c \in plan.pod, RestoreSub(c)
        PROVE  GateInv'
    <3>1. c \in Containers /\ c \in Pod
      BY PlansAssumption DEF GateInv, Types, Containers, Pod
    <3> QED
      BY <2>3, <3>1 DEF RestoreSub, GateInv, Types, Calls, Dead, Places, Pod
  <2>4. CASE \E c \in plan.pod : CreateSub(c) \/ StartSub(c) \/ Destroy(c)
    BY <2>4, Unseen DEF CreateSub, StartSub, Destroy, seen
  <2>5. CASE \E c \in Pod : Exec(c)
    BY <2>5, Unseen DEF Exec, seen
  <2>6. CASE \E w \in Waiters : Wait(w)
    BY <2>6, Unseen DEF Wait, Look, seen
  <2>7. CASE \E i \in Incs : InitExit(i) \/ SessionExit(i) \/ GoferDies(i)
    BY <2>7, Unseen DEF InitExit, SessionExit, GoferDies, seen
  <2>8. ASSUME NEW i \in Incs, CreateStack(i)
        PROVE  GateInv'
    BY <2>8, StackIsOK DEF CreateStack, GateInv, Types, Calls, Dead, Pod
  <2> QED
    BY <1>3, <2>1, <2>2, <2>3, <2>4, <2>5, <2>6, <2>7, <2>8 DEF Environment
<1> QED
  BY <1>1, <1>2, <1>3 DEF Next

(* GateKept: whatever the pod, the plan and the order of the calls, a       *)
(* kernel that runs is gated by this sandbox's socket in every namespace if *)
(* its checkpoint was gated, and says so in the next one.                   *)
THEOREM EnforcementIsKept == Spec => []GateKept
<1>1. GateInv => GateKept
  <2> SUFFICES ASSUME GateInv, up, started PROVE GateKept
    BY DEF GateKept
  <2>1. net \in Nets /\ NetOK(net)
    BY DEF GateInv, Types, Dead
  <2>2. state # "started" /\ ckpt.gated => net.gate = "live"
    BY <2>1 DEF GateInv, NetOK
  <2> QED
    BY <2>1, <2>2, ConsistentIsKept DEF GateKept
<1> QED
  BY GateInvInit, GateInvNext, <1>1, PTL DEF Spec

-----------------------------------------------------------------------------
(* StoppedIsDead needs which incarnation the processes map names, what a    *)
(* destroy that sleeps has killed, and what the kernel may still start.     *)
Statuses == {"none", "ready", "doomed", "run", "killed", "dying", "exited"}

(* Where the processes are in their lives.                                  *)
LifeTypes ==
  /\ procs \in [Containers -> Int] /\ gen \in [Containers -> Int]
  /\ task \in [Incs -> Statuses] /\ sess \in [Incs -> Statuses \ {"ready"}]

(* What runs is in the map; a session does not outlive its init process;    *)
(* what a sleeping destroy has killed does not start again; and the kernel  *)
(* that a restore call is about to start has only processes of the map.     *)
Life(i) ==
  /\ task[i] \in {"run", "killed"} \/ sess[i] \in {"run", "killed"} => procs[i[1]] = i[2]
  /\ task[i] = "exited" => sess[i] # "run"
  /\ mu = i[1] => task[i] \notin {"ready", "run"} /\ sess[i] # "run"
  /\ task[i] = "ready" /\ (\E c \in Containers : rpc[c] = "start") => procs[i[1]] = i[2]
  /\ state = "created" => task[i] = "none" /\ sess[i] = "none"

LifeInv ==
  /\ LifeTypes
  /\ \A i \in Incs : Life(i)
  /\ state \in {"started", "restoringStarted", "restored"} \/ post # "off" => started

(* The number of starts is bounded by the plans.                            *)
LEMMA StartsAreCounted == MaxGen \in Nat
<1>1. \E n \in {p.starts : p \in Plans} : \A p \in Plans : p.starts <= n
  BY PlansAssumption
<1>2. MaxGen \in {p.starts : p \in Plans}
  BY <1>1 DEF MaxGen
<1> QED
  BY <1>2, PlansAssumption

(* An incarnation is a container and one of its starts.                     *)
LEMMA IncFacts ==
  ASSUME NEW i \in Incs
  PROVE  /\ i = <<i[1], i[2]>> /\ i[1] \in Containers /\ i[1] # None
         /\ i[2] \in 1 .. MaxGen /\ i[2] \in Nat \ {0} /\ i \in Of(i[1])
BY StartsAreCounted, NoneAssumption DEF Incs, Of

(* A SIGKILL makes nothing start and ends nothing by itself.                *)
LEMMA KillFacts ==
  ASSUME NEW T, NEW f \in [Incs -> T], {"doomed", "killed"} \subseteq T, NEW hit
  PROVE  /\ Kill(f, hit) \in [Incs -> T]
         /\ \A i \in Incs : /\ Kill(f, hit)[i] \in {f[i], "doomed", "killed"}
                            /\ Kill(f, hit)[i] = "doomed" => f[i] \in {"ready", "doomed"}
                            /\ Kill(f, hit)[i] = "killed" => f[i] \in {"run", "killed"}
                            /\ i \in hit => Kill(f, hit)[i] \notin {"ready", "run"}
BY DEF Kill

(* Steps that leave the processes alone and start no kernel.                *)
LEMMA LifeUnseen ==
  ASSUME LifeInv, UNCHANGED <<procs, gen, task, sess, mu, started>>,
         state' = "created" => state = "created",
         state' \in {"started", "restoringStarted", "restored"} \/ post' # "off" => started,
         \A c \in Containers : rpc'[c] = "start" => rpc[c] = "start"
  PROVE  LifeInv'
BY DEF LifeInv, LifeTypes, Life

(* Steps that only send SIGKILL (the monitors, k.Kill after a failed        *)
(* restore).                                                                *)
LEMMA LifeSignal ==
  ASSUME LifeInv, NEW hit, SignalAll(hit),
         UNCHANGED <<procs, gen, mu, started, state, rpc>>, post' # "off" => post # "off"
  PROVE  LifeInv'
<1>1. LifeTypes'
  BY KillFacts DEF LifeInv, LifeTypes, SignalAll, Statuses
<1>2. ASSUME NEW i \in Incs PROVE Life(i)'
  <2>1. /\ task'[i] \in {task[i], "doomed", "killed"} /\ sess'[i] \in {sess[i], "doomed", "killed"}
        /\ task'[i] = "killed" => task[i] \in {"run", "killed"}
        /\ task'[i] = "doomed" => task[i] \in {"ready", "doomed"}
        /\ sess'[i] = "doomed" => sess[i] \in {"ready", "doomed"}
        /\ sess'[i] = "killed" => sess[i] \in {"run", "killed"}
    BY KillFacts DEF LifeInv, LifeTypes, SignalAll, Statuses
  <2> QED
    BY <2>1 DEF LifeInv, Life
<1> QED
  BY <1>1, <1>2 DEF LifeInv

(* An exit of the init process kills its sessions.                          *)
LEMMA LifeInitExit ==
  ASSUME LifeInv, NEW j \in Incs, InitExit(j)
  PROVE  LifeInv'
<1> DEFINE hit == IF j[1] = Root THEN Incs ELSE {j}
<1>1. /\ task' = [Kill(task, hit) EXCEPT ![j] = "exited"] /\ sess' = Kill(sess, hit) /\ j \in hit
      /\ UNCHANGED <<procs, gen, mu, started, state, rpc, post>>
  BY DEF InitExit, table, restore
<1> HIDE DEF hit
<1>2. Kill(task, hit) \in [Incs -> Statuses] /\ sess' \in [Incs -> Statuses \ {"ready"}]
  BY <1>1, KillFacts DEF LifeInv, LifeTypes, Statuses
<1>3. LifeTypes'
  BY <1>1, <1>2 DEF LifeInv, LifeTypes, Statuses
<1>4. ASSUME NEW i \in Incs PROVE Life(i)'
  <2>1. /\ i # j => task'[i] = Kill(task, hit)[i]
        /\ i = j => task'[i] = "exited"
    BY <1>1, <1>2
  <2>2. /\ Kill(task, hit)[i] \in {task[i], "doomed", "killed"}
        /\ Kill(task, hit)[i] = "killed" => task[i] \in {"run", "killed"}
        /\ Kill(task, hit)[i] = "doomed" => task[i] \in {"ready", "doomed"}
    BY KillFacts DEF LifeInv, LifeTypes, Statuses
  <2>3. /\ sess'[i] \in {sess[i], "doomed", "killed"}
        /\ sess'[i] = "doomed" => sess[i] \in {"ready", "doomed"}
        /\ sess'[i] = "killed" => sess[i] \in {"run", "killed"}
        /\ i = j => sess'[i] # "run"
    <3>1. sess \in [Incs -> Statuses \ {"ready"}] /\ {"doomed", "killed"} \subseteq Statuses \ {"ready"}
      BY DEF LifeInv, LifeTypes, Statuses
    <3> QED
      BY <1>1, <3>1, KillFacts
  <2>4. task[j] # "none"
    BY DEF InitExit, Goroutine
  <2> QED
    BY <1>1, <2>1, <2>2, <2>3, <2>4 DEF LifeInv, Life
<1> QED
  BY <1>1, <1>3, <1>4 DEF LifeInv

(* An exec session exits.                                                   *)
LEMMA LifeSessionExit ==
  ASSUME LifeInv, NEW j \in Incs, SessionExit(j)
  PROVE  LifeInv'
<1>1. /\ sess' = [sess EXCEPT ![j] = "exited"] /\ sess[j] # "none"
      /\ UNCHANGED <<task, procs, gen, mu, started, state, rpc, post>>
  BY DEF SessionExit, Goroutine, table, restore
<1> QED
  BY <1>1 DEF LifeInv, LifeTypes, Life, Statuses

(* One process changes.                                                     *)
LEMMA PutFacts ==
  ASSUME NEW D, NEW T, NEW f \in [D -> T], NEW k, NEW t \in T
  PROVE  [f EXCEPT ![k] = t] \in [D -> T]
OBVIOUS

(* A container that starts had no running incarnation.                      *)
LEMMA LifeStarted ==
  ASSUME LifeInv, NEW c \in Containers, Started(c), UNCHANGED <<sess, mu, rpc, post>>,
         mu = None, procs[c] = Unstarted \/ state = "created",
         state' # "created", started'
  PROVE  LifeInv'
<1>1. /\ gen' = [gen EXCEPT ![c] = @ + 1] /\ procs' = [procs EXCEPT ![c] = gen[c] + 1]
      /\ task' = [task EXCEPT ![<<c, gen[c] + 1>>] = "run"]
  BY DEF Started
<1>2. LifeTypes'
  <2>1. procs' \in [Containers -> Int] /\ gen' \in [Containers -> Int]
    BY <1>1 DEF LifeInv, LifeTypes
  <2>2. task' \in [Incs -> Statuses]
    BY <1>1, PutFacts DEF LifeInv, LifeTypes, Statuses
  <2> QED
    BY <2>1, <2>2 DEF LifeInv, LifeTypes
<1>3. ASSUME NEW i \in Incs PROVE Life(i)'
  <2>1. /\ i[1] \in Containers /\ i[1] # None /\ i[2] \in Nat \ {0} /\ i = <<i[1], i[2]>>
        /\ Life(i) /\ procs \in [Containers -> Int] /\ task \in [Incs -> Statuses]
    BY IncFacts DEF LifeInv, LifeTypes
  <2>2. CASE i[1] # c
    <3>1. task'[i] = task[i] /\ procs'[i[1]] = procs[i[1]]
      BY <1>1, <2>1, <2>2
    <3> QED
      BY <3>1, <2>1 DEF Life
  <2>3. CASE i[1] = c
    <3>1. task[i] \notin {"run", "killed"} /\ sess[i] \notin {"run", "killed"}
      BY <2>1, <2>3 DEF Life, Unstarted
    <3>2. CASE i[2] = gen[c] + 1
      <4>1. task'[i] = "run" /\ procs'[i[1]] = i[2]
        BY <1>1, <2>1, <2>3, <3>2
      <4> QED
        BY <4>1, <3>1, <2>1 DEF Life
    <3>3. CASE i[2] # gen[c] + 1
      <4>1. task'[i] = task[i]
        BY <1>1, <2>1, <3>3
      <4>2. ~(task[i] = "ready" /\ \E d \in Containers : rpc[d] = "start")
        BY <2>1, <2>3 DEF Life, Unstarted
      <4> QED
        BY <4>1, <4>2, <3>1, <2>1 DEF Life
    <3> QED
      BY <3>2, <3>3
  <2> QED
    BY <2>2, <2>3
<1> QED
  BY <1>2, <1>3 DEF LifeInv

(* A start that failed may leave a task, which nothing will start.          *)
LEMMA LifeStartSub ==
  ASSUME GateInv, LifeInv, NEW c \in Containers, StartSub(c)
  PROVE  LifeInv'
<1>1. /\ mu = None /\ started /\ procs[c] = Unstarted /\ state # "created"
      /\ UNCHANGED <<state, mu, started, sess, rpc, post>>
  BY DEF StartSub, CanLock, LifeInv, restore
<1>2. \A d \in Containers : rpc[d] # "start"
  BY <1>1 DEF GateInv, Calls
<1>3. CASE Started(c)
  BY <1>1, <1>3, LifeStarted
<1>4. CASE UNCHANGED <<procs, gen, task>>
  BY <1>1, <1>4, LifeUnseen DEF LifeInv
<1>5. CASE /\ procs' = procs /\ gen' = [gen EXCEPT ![c] = @ + 1]
           /\ \E t \in {"none", "ready"} : task' = [task EXCEPT ![<<c, gen[c] + 1>>] = t]
  <2>1. LifeTypes'
    <3>1. procs' \in [Containers -> Int] /\ gen' \in [Containers -> Int]
      BY <1>5 DEF LifeInv, LifeTypes
    <3>2. task' \in [Incs -> Statuses]
      BY <1>5, PutFacts DEF LifeInv, LifeTypes, Statuses
    <3> QED
      BY <1>1, <3>1, <3>2 DEF LifeInv, LifeTypes
  <2>2. ASSUME NEW i \in Incs PROVE Life(i)'
    <3>1. task'[i] \in {task[i], "none", "ready"} /\ Life(i) /\ i[1] # None
      BY <1>5, IncFacts DEF LifeInv, LifeTypes
    <3> QED
      BY <1>1, <1>2, <1>5, <3>1 DEF Life
  <2> QED
    BY <1>1, <2>1, <2>2 DEF LifeInv
<1> QED
  BY <1>3, <1>4, <1>5 DEF StartSub

(* executeAsync starts a session in a container that runs.                  *)
LEMMA LifeExec ==
  ASSUME LifeInv, NEW c \in Containers, Exec(c)
  PROVE  LifeInv'
<1>1. /\ mu = None /\ task[<<c, procs[c]>>] # "exited"
      /\ sess' = [sess EXCEPT ![<<c, procs[c]>>] = "run"]
      /\ UNCHANGED <<procs, gen, task, state, mu, started, rpc, post>>
  BY DEF Exec, CanLock, table, restore
<1>2. state # "created"
  <2>1. PICK g \in 1 .. MaxGen : task[<<Root, g>>] \notin {"none", "exited"}
    BY DEF Exec, RootAlive
  <2>2. <<Root, g>> \in Incs
    BY DEF Incs, Containers
  <2> QED
    BY <2>1, <2>2 DEF LifeInv, Life
<1>3. LifeTypes'
  BY <1>1 DEF LifeInv, LifeTypes, Statuses
<1>4. ASSUME NEW i \in Incs PROVE Life(i)'
  <2>1. Life(i) /\ i[1] # None /\ i = <<i[1], i[2]>> /\ sess \in [Incs -> Statuses \ {"ready"}]
    BY IncFacts DEF LifeInv, LifeTypes
  <2>2. CASE i = <<c, procs[c]>>
    <3>1. i[1] = c /\ i[2] = procs[c] /\ sess'[i] = "run" /\ task[i] # "exited"
      BY <1>1, <2>1, <2>2
    <3> QED
      BY <1>1, <1>2, <2>1, <3>1 DEF Life
  <2>3. CASE i # <<c, procs[c]>>
    <3>1. sess'[i] = sess[i]
      BY <1>1, <2>1, <2>3
    <3> QED
      BY <1>1, <1>2, <2>1, <3>1 DEF Life
  <2> QED
    BY <2>2, <2>3
<1> QED
  BY <1>1, <1>3, <1>4 DEF LifeInv

(* The destroy of a container: what it kills cannot start while it sleeps,  *)
(* and it takes the container out of the map when nothing runs.             *)
LEMMA LifeDestroy ==
  ASSUME LifeInv, NEW c \in Containers, Destroy(c)
  PROVE  LifeInv'
<1>1. /\ mu = None /\ UNCHANGED <<gen, state, started, rpc, post>>
  BY DEF Destroy, CanLock, restore
<1>2. CASE /\ procs[c] = Unstarted /\ procs' = [procs EXCEPT ![c] = Absent]
           /\ UNCHANGED <<mu, task, sess>>
  <2>1. LifeTypes'
    BY <1>1, <1>2 DEF LifeInv, LifeTypes, Absent
  <2>2. ASSUME NEW i \in Incs PROVE Life(i)'
    <3>1. Life(i) /\ i[2] \in Nat \ {0} /\ (i[1] # c => procs'[i[1]] = procs[i[1]])
      BY <1>2, IncFacts DEF LifeInv, LifeTypes
    <3> QED
      BY <1>1, <1>2, <3>1 DEF Life, Unstarted
  <2> QED
    BY <1>1, <2>1, <2>2 DEF LifeInv
<1>3. CASE mu' = c /\ SignalAll(Of(c)) /\ UNCHANGED procs
  <2>1. LifeTypes'
    BY <1>1, <1>3, KillFacts DEF LifeInv, LifeTypes, SignalAll, Statuses
  <2>2. ASSUME NEW i \in Incs PROVE Life(i)'
    <3>1. /\ task'[i] \in {task[i], "doomed", "killed"} /\ sess'[i] \in {sess[i], "doomed", "killed"}
          /\ task'[i] = "killed" => task[i] \in {"run", "killed"}
          /\ task'[i] = "doomed" => task[i] \in {"ready", "doomed"}
          /\ sess'[i] = "doomed" => sess[i] \in {"ready", "doomed"}
          /\ sess'[i] = "killed" => sess[i] \in {"run", "killed"}
          /\ i \in Of(c) => task'[i] \notin {"ready", "run"} /\ sess'[i] # "run"
      BY <1>3, KillFacts DEF LifeInv, LifeTypes, SignalAll, Statuses
    <3>2. Life(i) /\ i \in Of(i[1])
      BY IncFacts DEF LifeInv
    <3> QED
      BY <1>1, <1>3, <3>1, <3>2 DEF Life
  <2> QED
    BY <1>1, <2>1, <2>2 DEF LifeInv
<1> QED
  BY <1>2, <1>3, SMTT(20) DEF Destroy

(* destroySubcontainer returns when every process has exited, and the       *)
(* container is removed.                                                    *)
LEMMA LifeDestroyed ==
  ASSUME LifeInv, NEW c \in Containers, Destroyed(c)
  PROVE  LifeInv'
<1>1. /\ mu = c /\ mu' = None /\ procs' = [procs EXCEPT ![c] = Absent]
      /\ UNCHANGED <<gen, task, sess, state, started, rpc, post>>
      /\ \A i \in Of(c) : task[i] \notin Goroutine /\ sess[i] \notin Goroutine
  BY DEF Destroyed, Gone, HasExited, kernel, restore
<1>2. LifeTypes'
  BY <1>1 DEF LifeInv, LifeTypes, Absent
<1>3. ASSUME NEW i \in Incs PROVE Life(i)'
  <2>1. /\ Life(i) /\ i[1] # None /\ i \in Of(i[1]) /\ (i[1] # c => procs'[i[1]] = procs[i[1]])
    BY <1>1, IncFacts DEF LifeInv, LifeTypes
  <2> QED
    BY <1>1, <2>1 DEF Life, Goroutine
<1> QED
  BY <1>1, <1>2, <1>3 DEF LifeInv

(* createSubcontainer makes an entry without a process.                     *)
LEMMA LifeCreateSub ==
  ASSUME LifeInv, NEW c \in Containers, CreateSub(c)
  PROVE  LifeInv'
<1>1. /\ procs[c] = Absent /\ procs' = [procs EXCEPT ![c] = Unstarted]
      /\ UNCHANGED <<gen, task, sess, mu, state, started, rpc, post>>
  BY DEF CreateSub, kernel, restore
<1>2. LifeTypes'
  BY <1>1, SMTT(20) DEF LifeInv, LifeTypes, Unstarted
<1>3. ASSUME NEW i \in Incs PROVE Life(i)'
  <2>1. Life(i) /\ i[2] \in Nat \ {0} /\ (i[1] # c => procs'[i[1]] = procs[i[1]])
    BY <1>1, IncFacts, SMTT(20) DEF LifeInv, LifeTypes
  <2> QED
    BY <1>1, <2>1 DEF Life, Absent
<1> QED
  BY <1>1, <1>2, <1>3 DEF LifeInv

(* A load makes processes that do not run; when the kernel is to be started *)
(* the map has all of them.                                                 *)
LEMMA LifeLoad ==
  ASSUME GateInv, LifeInv, NEW c \in Containers, Load(c)
  PROVE  LifeInv'
<1>1. /\ mu = None /\ rpc[c] = "load" /\ state # "created"
      /\ UNCHANGED <<mu, state, started, post>>
      /\ \A d \in Containers : rpc[d] # "start"
  BY DEF Load, CanLock, GateInv, Calls
<1>2. CASE rpc' = [rpc EXCEPT ![c] = "fail"] /\ UNCHANGED <<procs, gen, task, sess>>
  BY <1>1, <1>2, LifeUnseen DEF LifeInv, GateInv, Types
<1>3. ASSUME NEW found, NEW sessions, Rebuilt(found, sessions),
             \/ rpc' = [rpc EXCEPT ![c] = "fail"]
             \/ rpc' = [rpc EXCEPT ![c] = "start"] /\ found = Pod
      PROVE  LifeInv'
  <2>1. LifeTypes'
    BY <1>3 DEF Rebuilt, LifeInv, LifeTypes, Statuses
  <2>2. ASSUME NEW i \in Incs PROVE Life(i)'
    <3>1. /\ i[1] \in Containers /\ i[1] # None
          /\ task'[i] \in {"none", "ready"} /\ sess'[i] \in {"none", "doomed"}
          /\ task'[i] = "ready" => i[1] \in Pod /\ i[2] = 1
          /\ i[1] \in found => procs'[i[1]] = 1
      BY <1>3, IncFacts DEF Rebuilt
    <3>2. (\E d \in Containers : rpc'[d] = "start") => found = Pod
      BY <1>1, <1>3 DEF GateInv, Types
    <3> QED
      BY <1>1, <3>1, <3>2 DEF Life
  <2> QED
    BY <1>1, <2>1, <2>2 DEF LifeInv
<1> QED
  BY <1>2, <1>3 DEF Load

(* run starts the kernel, and with it every task that is ready.             *)
LEMMA LifeRun ==
  ASSUME LifeInv, NEW c \in Containers, RunRestored(c)
  PROVE  LifeInv'
<1>1. rpc[c] = "start" /\ mu = None /\ UNCHANGED <<procs, gen, mu>>
  BY DEF RunRestored, CanLock, table
<1>2. CASE UNCHANGED <<state, started, post, task, sess, rpc>>
  BY <1>1, <1>2, LifeUnseen DEF LifeInv
<1>3. CASE /\ state' = "restoringStarted" /\ started'
           /\ task' = [i \in Incs |-> Start(task[i])]
           /\ sess' = [i \in Incs |-> Start(sess[i])]
  <2>1. LifeTypes'
    BY <1>1, <1>3 DEF LifeInv, LifeTypes, Start, Statuses
  <2>2. ASSUME NEW i \in Incs PROVE Life(i)'
    <3>1. /\ Life(i) /\ i[1] # None /\ sess[i] # "ready"
          /\ task'[i] = IF task[i] = "ready" THEN "run"
                        ELSE IF task[i] = "doomed" THEN "dying" ELSE task[i]
          /\ sess'[i] = IF sess[i] = "doomed" THEN "dying" ELSE sess[i]
      BY <1>3, IncFacts DEF LifeInv, LifeTypes, Start, Statuses
    <3> QED
      BY <1>1, <1>3, <3>1 DEF Life
  <2> QED
    BY <1>1, <1>3, <2>1, <2>2 DEF LifeInv
<1> QED
  BY <1>2, <1>3 DEF RunRestored

(* There are no processes at first.                                         *)
LEMMA LifeInit == Init => LifeInv
BY DEF Init, LifeInv, LifeTypes, Life, Statuses, Unstarted, Absent

(* Every step preserves the invariant.                                      *)
LEMMA LifeNext == GateInv /\ LifeInv /\ [Next]_vars => LifeInv'
<1> SUFFICES ASSUME GateInv, LifeInv, [Next]_vars PROVE LifeInv'
  OBVIOUS
<1> USE DEF network, rigid, kernel, table, restore
<1>1. CASE UNCHANGED vars
  BY <1>1, LifeUnseen DEF vars, LifeInv
<1>2. CASE Progress
  <2>1. CASE SandboxExit
    BY <2>1, LifeUnseen DEF SandboxExit, LifeInv
  <2>2. CASE PostRestore
    BY <2>2, LifeUnseen DEF PostRestore, LifeInv
  <2>3. CASE NotifyPost
    <3>1. CASE SignalAll(Incs)
      BY <2>3, <3>1, LifeSignal DEF NotifyPost, Broadcast
    <3>2. CASE UNCHANGED <<task, sess>>
      BY <2>3, <3>2, LifeUnseen DEF NotifyPost, Broadcast, LifeInv
    <3> QED
      BY <2>3, <3>1, <3>2 DEF NotifyPost
  <2>4. ASSUME NEW i \in Incs, Signalled(i)
        PROVE  LifeInv'
    BY <2>4, LifeInitExit, LifeSessionExit DEF Signalled
  <2>5. CASE \E i \in Incs : Deadline(i)
    BY <2>5, LifeUnseen DEF Deadline, LifeInv
  <2>6. ASSUME NEW i \in Incs, MonitorCheck(i)
        PROVE  LifeInv'
    <3>1. CASE SignalAll(Of(i[1]))
      BY <2>6, <3>1, LifeSignal DEF MonitorCheck
    <3>2. CASE UNCHANGED <<task, sess>>
      BY <2>6, <3>2, LifeUnseen DEF MonitorCheck, LifeInv
    <3> QED
      BY <2>6, <3>1, <3>2 DEF MonitorCheck
  <2>7. ASSUME NEW c \in Containers,
               UseRestorer(c) \/ Register(c) \/ RestoreFailed(c) \/ NotifyFailed(c)
        PROVE  LifeInv'
    <3>1. /\ UNCHANGED <<procs, gen, task, sess, mu, started, post>>
          /\ state' \in {state, "restoreFailed"}
          /\ \E pc \in {"fail", "queue", "load", "idle", "notify"} :
               rpc' = rpc \/ rpc' = [rpc EXCEPT ![c] = pc]
      BY <2>7 DEF UseRestorer, Register, RestoreFailed, NotifyFailed, Broadcast
    <3>2. \A d \in Containers : rpc'[d] = "start" => rpc[d] = "start"
      BY <3>1 DEF GateInv, Types
    <3> QED
      BY <3>1, <3>2, LifeUnseen DEF LifeInv
  <2>8. CASE \E w \in Waiters : LookAgain(w) \/ WaitExited(w)
    BY <2>8, LifeUnseen DEF LookAgain, Look, WaitExited, LifeInv
  <2> QED
    BY <1>2, <2>1, <2>2, <2>3, <2>4, <2>5, <2>6, <2>7, <2>8,
       LifeDestroyed, LifeLoad, LifeRun DEF Progress
<1>3. CASE Environment
  <2>1. plan.pod \subseteq Containers /\ Pod \subseteq Containers /\ Root \in Containers
    BY PlansAssumption DEF GateInv, Types, Containers, Pod
  <2>2. CASE StartRoot
    <3>1. CASE Started(Root) /\ state' = "started" /\ started' = TRUE
               /\ UNCHANGED <<mu, sess, rpc, post>>
      BY <2>1, <2>2, <3>1, LifeStarted DEF StartRoot, CanLock
    <3>2. CASE UNCHANGED <<state, mu, procs, started, gen, task, sess, rpc, post>>
      BY <3>2, LifeUnseen DEF LifeInv
    <3> QED
      BY <2>2, <3>1, <3>2 DEF StartRoot
  <2>3. CASE Restore
    <3>1. /\ UNCHANGED <<procs, gen, task, sess, mu, started, post>>
          /\ state' \in {state, "restoringUnstarted"}
          /\ rpc' = rpc \/ rpc' = [rpc EXCEPT ![Root] = "check"]
      BY <2>3 DEF Restore
    <3>2. \A d \in Containers : rpc'[d] = "start" => rpc[d] = "start"
      BY <3>1 DEF GateInv, Types
    <3> QED
      BY <3>1, <3>2, LifeUnseen DEF LifeInv
  <2>4. ASSUME NEW c \in plan.pod, RestoreSub(c)
        PROVE  LifeInv'
    <3>1. \A d \in Containers : rpc'[d] = "start" => rpc[d] = "start"
      BY <2>4, SMTT(20) DEF RestoreSub, GateInv, Types
    <3> QED
      BY <2>4, <3>1, LifeUnseen DEF RestoreSub, LifeInv
  <2>5. CASE \E w \in Waiters : Wait(w)
    BY <2>5, LifeUnseen DEF Wait, Look, LifeInv
  <2>6. CASE \E i \in Incs : CreateStack(i) \/ GoferDies(i)
    BY <2>6, LifeUnseen DEF CreateStack, GoferDies, LifeInv
  <2> QED
    BY <1>3, <2>1, <2>2, <2>3, <2>4, <2>5, <2>6, LifeCreateSub, LifeStartSub, LifeDestroy,
       LifeExec, LifeInitExit, LifeSessionExit DEF Environment
<1> QED
  BY <1>1, <1>2, <1>3 DEF Next

(* StoppedIsDead: whatever the pod and the order of starts, execs, destroys,*)
(* gofer deaths and restore calls, no process outlives its container.       *)
THEOREM NothingOutlives == Spec => []StoppedIsDead
<1>1. LifeInv => StoppedIsDead
  <2> SUFFICES ASSUME LifeInv, NEW c \in Containers, NEW g \in 1 .. MaxGen
               PROVE  LET now == {task[<<c, g>>], sess[<<c, g>>]}
                      IN  /\ procs[c] = Absent => now \cap {"run", "killed"} = {}
                          /\ RuntimeState(c) = "stopped" => "run" \notin now
    BY DEF StoppedIsDead
  <2> DEFINE i == <<c, g>>
  <2>1. i \in Incs /\ i[1] = c /\ i[2] = g /\ g \in Nat \ {0}
    BY StartsAreCounted, SMTT(20) DEF Incs
  <2>2. /\ task[i] \in {"run", "killed"} \/ sess[i] \in {"run", "killed"} => procs[c] = g
        /\ task[i] = "exited" => sess[i] # "run"
    BY <2>1 DEF LifeInv, Life
  <2>3. procs[c] = Absent => {task[i], sess[i]} \cap {"run", "killed"} = {}
    BY <2>1, <2>2 DEF Absent
  <2>4. ASSUME RuntimeState(c) = "stopped" PROVE "run" \notin {task[i], sess[i]}
    <3>1. CASE procs[c] = g
      <4>1. task[i] = "exited"
        BY <2>1, <2>4, <3>1 DEF RuntimeState, Absent, Unstarted
      <4> QED
        BY <4>1, <2>2
    <3>2. CASE procs[c] # g
      BY <3>2, <2>2
    <3> QED
      BY <3>1, <3>2
  <2> QED
    BY <2>3, <2>4
<1> QED
  BY GateInvInit, GateInvNext, LifeInit, LifeNext, <1>1, PTL DEF Spec
=============================================================================
