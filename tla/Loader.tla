-------------------------------- MODULE Loader --------------------------------
(***************************************************************************)
(* The containers of one sandbox as the boot process keeps them: the state  *)
(* machine of the Loader, its processes map, start, exec, destroy and wait, *)
(* the gofer monitors, and the restore of a pod, which is spread over one   *)
(* control call per container, the main goroutine and a background one.     *)
(*                                                                          *)
(* An incarnation <<c, g>> is the g-th start of container c; it has an init *)
(* process, at most one exec session and a gofer monitor.  A critical       *)
(* section of l.mu is one step; only destroySubcontainer sleeps in one, and *)
(* mu then names the container.  create, start, restore and destroy of one  *)
(* container exclude each other (runsc holds the container's file lock);    *)
(* exec and wait do not take it.  Every container has a PID namespace of    *)
(* its own, and the checkpoint holds the containers of the pod.             *)
(***************************************************************************)
EXTENDS Integers, FiniteSets

CONSTANTS
  Root,               \* the root container
  Subs,               \* the other containers of the pod
  Waiters,            \* Wait and WaitRestore calls, one each
  Plans,              \* bounds: what the environment may do, one plan a behaviour
  None

Containers == {Root} \cup Subs

(* A plan: the containers of the pod, starts of one container, where exec   *)
(* sessions are opened, whose gofers may die, whether a gate may be donated *)
(* or be in the checkpoint, and whether the pod is started or restored.     *)
ASSUME PlansAssumption ==
  /\ \A p \in Plans : p.pod \subseteq Subs /\ p.starts \in Nat
  /\ \E p \in Plans : \A q \in Plans : q.starts <= p.starts
ASSUME NoneAssumption == None \notin Containers

MaxGen == CHOOSE n \in {p.starts : p \in Plans} : \A p \in Plans : p.starts <= n
Incs == Containers \X (1 .. MaxGen)
Of(c) == {c} \X (1 .. MaxGen)

Absent == -1          \* no entry in processes
Unstarted == 0        \* an entry whose tg is nil

VARIABLES
  up,                 \* the sandbox process lives
  state,              \* l.state
  mu,                 \* the container whose destroy sleeps with l.mu, or None
  procs,              \* processes: Absent, Unstarted or the incarnation
  failed,             \* failedToStart
  started,            \* k.started
  gen,                \* starts so far
  task, sess,         \* the init process and the exec session of an incarnation
  twice,              \* sessions whose task was started again while it ran
  mon,                \* the gofer monitor of an incarnation
  restorer,           \* cm.restorer is not nil
  conts,              \* r.containers
  rpc,                \* where the Restore or RestoreSubcontainer call of c is
  post,               \* postRestore
  net, ckpt,          \* the gate in this kernel, and in the state file
  wait,               \* the waiters
  plan                \* the plan, which never changes

kernel  == <<started, gen, task, sess, twice>>
table   == <<procs, failed>>
restore == <<restorer, conts, rpc, post>>
rigid   == <<ckpt, plan>>
network == <<net, rigid>>
vars == <<up, state, mu, table, kernel, mon, restore, network, wait>>

Pod == plan.pod \cup {Root}

CanLock == up /\ mu = None

-----------------------------------------------------------------------------
(* Tasks.  "ready" was created and not started, "doomed" is ready with a    *)
(* pending SIGKILL, "dying" was doomed when the kernel started, "killed"    *)
(* runs with a pending SIGKILL.  WaitExited waits for task goroutines only. *)
Goroutine == {"run", "killed", "dying"}
HasExited(s) == s \notin Goroutine

Kill(f, hit) ==
  [i \in Incs |-> IF i \notin hit THEN f[i]
                  ELSE CASE f[i] = "ready" -> "doomed"
                         [] f[i] = "run"   -> "killed"
                         [] OTHER          -> f[i]]

SignalAll(hit) == task' = Kill(task, hit) /\ sess' = Kill(sess, hit)

(* The init process exits, by itself or killed, and takes its PID namespace *)
(* along; the root's holds every process of the sandbox.                    *)
InitExit(i) ==
  LET hit == IF i[1] = Root THEN Incs ELSE {i}
  IN  /\ up /\ task[i] \in Goroutine
      /\ task' = [Kill(task, hit) EXCEPT ![i] = "exited"]
      /\ sess' = Kill(sess, hit)
      /\ UNCHANGED <<up, state, mu, table, started, gen, twice, mon, restore,
                     network, wait>>

SessionExit(i) ==
  /\ up /\ sess[i] \in Goroutine /\ sess' = [sess EXCEPT ![i] = "exited"]
  /\ UNCHANGED <<up, state, mu, table, started, gen, task, twice, mon, restore,
                 network, wait>>

(* WaitExit in the main goroutine, after which the process ends.            *)
SandboxExit ==
  /\ up /\ started
  /\ \A i \in Incs : {task[i], sess[i]} \subseteq {"none", "exited"}
  /\ up' = FALSE
  /\ UNCHANGED <<state, mu, table, kernel, mon, restore, network, wait>>

RootAlive == \E g \in 1 .. MaxGen : task[<<Root, g>>] \notin {"none", "exited"}

-----------------------------------------------------------------------------
(* The egress gate of the root namespace's stack (gate, gated), of the      *)
(* network stack creator (cgate, cgated, cfd, missing) and of a namespace   *)
(* the application made later (ns).                                         *)
Saved(n) == [gated |-> n.gated, cgated |-> n.cgated, cfd |-> n.cfd]
Checkpoints ==
  {s \in [gated : BOOLEAN, cgated : BOOLEAN, cfd : BOOLEAN] :
     s.gated = s.cgated /\ (s.cfd => s.cgated)}

(* newRootNetworkNamespace; given: an egress socket was donated.            *)
BootNet(given) ==
  LET g == IF given THEN "live" ELSE "nil"
  IN  [given |-> given, gate |-> g, gated |-> given, cgate |-> g,
       cgated |-> given, cfd |-> given, missing |-> FALSE, ns |-> None]

(* afterLoad of the stack and of the creator, with the donated gate, if     *)
(* any, in the context.                                                     *)
AfterLoad(n, s) ==
  LET enforced == s.cgated \/ s.cfd
  IN  [given |-> n.given,
       gate  |-> IF n.given THEN "live" ELSE IF s.gated THEN "missing" ELSE "nil",
       gated |-> s.gated \/ n.given,
       cgate |-> IF n.given THEN "live" ELSE "nil",
       cgated |-> enforced \/ n.given,
       cfd   |-> s.cfd,
       missing |-> enforced /\ ~n.given,
       ns    |-> None]

Refused_Never(n) == FALSE                                          \* mutant
Refused(n) == ~n.given /\ n.gated

(* CreateStack for a network namespace the application unshares.            *)
CreateStack(i) ==
  /\ up /\ plan.gates /\ task[i] = "run" /\ net.ns = None /\ ~net.missing
  /\ net' = IF net.cgate = "nil" /\ net.cfd
            THEN [net EXCEPT !.ns = "recycled", !.cgate = "recycled"]
            ELSE [net EXCEPT !.ns = net.cgate]
  /\ UNCHANGED <<up, state, mu, table, kernel, mon, restore, rigid, wait>>

-----------------------------------------------------------------------------
Init ==
  /\ plan \in Plans
  /\ up = TRUE /\ state = "created" /\ mu = None
  /\ procs = [c \in Containers |-> IF c = Root THEN Unstarted ELSE Absent]
  /\ failed = {} /\ started = FALSE /\ gen = [c \in Containers |-> 0]
  /\ task = [i \in Incs |-> "none"] /\ sess = [i \in Incs |-> "none"]
  /\ twice = {} /\ mon = [i \in Incs |-> "off"]
  /\ restorer = FALSE /\ conts = {} /\ rpc = [c \in Containers |-> "idle"]
  /\ post = "off"
  /\ \E given \in BOOLEAN : net = BootNet(given)
  /\ ckpt \in Checkpoints
  /\ plan.gates \/ ~(net.given \/ ckpt.gated)
  /\ wait = [w \in Waiters |-> [pc |-> "idle", on |-> None, gen |-> 0]]

(* createContainerProcess succeeded for c: a monitored init process.        *)
Started(c) ==
  LET i == <<c, gen[c] + 1>>
  IN  /\ gen' = [gen EXCEPT ![c] = @ + 1]
      /\ procs' = [procs EXCEPT ![c] = gen[c] + 1]
      /\ task' = [task EXCEPT ![i] = "run"]
      /\ mon' = [mon EXCEPT ![i] = "poll"]

(* StartRoot and Loader.run in the main goroutine.                          *)
StartRoot ==
  /\ CanLock /\ plan.way = "start" /\ state = "created"
  /\ \/ /\ Started(Root) /\ state' = "started" /\ started' = TRUE
        /\ UNCHANGED <<up, mu, failed, sess, twice, restore, network, wait>>
     \/ /\ up' = FALSE
        /\ UNCHANGED <<state, mu, table, kernel, mon, restore, network, wait>>

CreateSub(c) ==
  /\ CanLock /\ procs[c] = Absent /\ rpc[c] = "idle"
  /\ procs' = [procs EXCEPT ![c] = Unstarted]
  /\ UNCHANGED <<up, state, mu, failed, kernel, mon, restore, network, wait>>

(* StartSubcontainer.  It may fail before the monitor is started, after     *)
(* that, or after CreateProcess, which leaves a task that never starts.     *)
StartSub(c) ==
  /\ CanLock /\ state \in {"started", "restored"}
  /\ procs[c] = Unstarted /\ rpc[c] = "idle" /\ gen[c] < plan.starts
  /\ \/ RootAlive /\ Started(c) /\ UNCHANGED failed
     \/ /\ failed' = failed \cup {c}
        /\ \/ UNCHANGED <<gen, task, mon>>
           \/ \E t \in {"none"} \cup (IF RootAlive THEN {"ready"} ELSE {}) :
                /\ gen' = [gen EXCEPT ![c] = @ + 1]
                /\ task' = [task EXCEPT ![<<c, gen[c] + 1>>] = t]
                /\ mon' = [mon EXCEPT ![<<c, gen[c] + 1>>] = "poll"]
        /\ UNCHANGED procs
  /\ UNCHANGED <<up, state, mu, started, sess, twice, restore, network, wait>>

(* executeAsync: the new task is started at once.                           *)
Exec(c) ==
  LET i == <<c, procs[c]>>
  IN  /\ CanLock /\ c \in plan.execs /\ procs[c] > 0
      /\ task[i] # "exited" /\ RootAlive /\ sess[i] = "none"
      /\ sess' = [sess EXCEPT ![i] = "run"]
      /\ UNCHANGED <<up, state, mu, table, started, gen, task, twice, mon,
                     restore, network, wait>>

(* destroySubcontainer: kill, then sleep with l.mu until all have exited.   *)
Destroy(c) ==
  /\ CanLock /\ rpc[c] = "idle" /\ procs[c] # Absent
  /\ IF procs[c] = Unstarted
     THEN procs' = [procs EXCEPT ![c] = Absent] /\ UNCHANGED <<mu, task, sess>>
     ELSE mu' = c /\ SignalAll(Of(c)) /\ UNCHANGED procs
  /\ UNCHANGED <<up, state, failed, started, gen, twice, mon, restore, network,
                 wait>>

Gone_Init(i) == HasExited(task[i])                                 \* mutant
Gone(i) == HasExited(task[i]) /\ HasExited(sess[i])

Destroyed(c) ==
  /\ up /\ mu = c /\ \A i \in Of(c) : Gone(i)
  /\ mu' = None /\ procs' = [procs EXCEPT ![c] = Absent]
  /\ UNCHANGED <<up, state, failed, kernel, mon, restore, network, wait>>

-----------------------------------------------------------------------------
(* startGoferMonitor: "poll" in ppoll, "grace" in the loop before the       *)
(* deadline, "late" after it.                                               *)
GoferDies(i) ==
  /\ up /\ i[1] \in plan.frail /\ mon[i] = "poll" /\ mon' = [mon EXCEPT ![i] = "grace"]
  /\ UNCHANGED <<up, state, mu, table, kernel, restore, network, wait>>

Deadline(i) ==
  /\ up /\ mon[i] = "grace" /\ mon' = [mon EXCEPT ![i] = "late"]
  /\ UNCHANGED <<up, state, mu, table, kernel, restore, network, wait>>

GivesUp_Late(i) == mon[i] = "late"                                 \* mutant
GivesUp(i) == mon[i] \in {"grace", "late"} /\ procs[i[1]] <= 0

MonitorCheck(i) ==
  /\ CanLock
  /\ \/ GivesUp(i) /\ UNCHANGED <<task, sess>>
     \/ ~GivesUp(i) /\ mon[i] = "late" /\ SignalAll(Of(i[1]))
  /\ mon' = [mon EXCEPT ![i] = "done"]
  /\ UNCHANGED <<up, state, mu, table, started, gen, twice, restore, network,
                 wait>>

-----------------------------------------------------------------------------
(* Restore: an error before restoreDone exists dereferences it, which ends  *)
(* the process.                                                             *)
Restore ==
  /\ CanLock /\ plan.way = "restore" /\ state = "created"
  /\ \/ /\ state' = "restoringUnstarted" /\ restorer' = TRUE
        /\ rpc' = [rpc EXCEPT ![Root] = "check"] /\ UNCHANGED up
     \/ up' = FALSE /\ UNCHANGED <<state, restorer, rpc>>
  /\ UNCHANGED <<mu, table, kernel, mon, conts, post, network, wait>>

(* RestoreSubcontainer, also what StartSubcontainer becomes.                *)
RestoreSub(c) ==
  /\ CanLock /\ state = "restoringUnstarted"
  /\ procs[c] = Unstarted /\ rpc[c] = "idle"
  /\ rpc' = [rpc EXCEPT ![c] = "check"]
  /\ UNCHANGED <<up, state, mu, table, kernel, mon, restorer, conts, post,
                 network, wait>>

(* The arguments are checked, then cm.restorer is read, without a lock.     *)
UseRestorer(c) ==
  /\ up /\ rpc[c] = "check"
  /\ \/ rpc' = [rpc EXCEPT ![c] = "fail"] /\ UNCHANGED up
     \/ restorer /\ rpc' = [rpc EXCEPT ![c] = "queue"] /\ UNCHANGED up
     \/ ~restorer /\ up' = FALSE /\ UNCHANGED rpc
  /\ UNCHANGED <<state, mu, table, kernel, mon, restorer, conts, post, network,
                 wait>>

(* restoreContainerInfo, under r.mu; the last container triggers restore(). *)
Register(c) ==
  /\ up /\ rpc[c] = "queue"
  /\ \A d \in Containers : rpc[d] \notin {"load", "start"}
  /\ conts' = conts \cup {c}
  /\ rpc' = [rpc EXCEPT ![c] = IF c \in conts THEN "fail"
                               ELSE IF conts' = Pod THEN "load" ELSE "idle"]
  /\ UNCHANGED <<up, state, mu, table, kernel, mon, restorer, post, network, wait>>

(* The rebuild of processes from the loaded kernel reaches the containers   *)
(* of found; it stops at one that was deleted meanwhile.                    *)
Rebuilt(found, sessions) ==
  /\ gen' = [c \in Containers |-> IF c \in Pod THEN 1 ELSE 0]
  /\ procs' = [c \in Containers |-> IF c \in found THEN 1 ELSE procs[c]]
  /\ task' = [i \in Incs |-> IF i[1] \in Pod /\ i[2] = 1 THEN "ready" ELSE "none"]
  /\ sess' = [i \in Incs |-> IF i[2] = 1 /\ i[1] \in sessions
                             THEN "doomed" ELSE "none"]

(* restorer.restore up to the unlock: the gate is put into the context, the *)
(* kernel is loaded, a gated checkpoint is refused without a gate; other    *)
(* steps may fail before and after the load.                                *)
Load(c) ==
  LET present == {d \in Pod : procs[d] # Absent}
      Next_(pc) == rpc' = [rpc EXCEPT ![c] = pc]
  IN  /\ CanLock /\ rpc[c] = "load"
      /\ \/ Next_("fail") /\ UNCHANGED <<net, procs, gen, task, sess>>
         \/ /\ net' = AfterLoad(net, ckpt)
            /\ \/ /\ Next_("fail")
                  /\ \E found \in SUBSET (IF Refused(net') \/ present = Pod
                                         THEN {} ELSE present) : Rebuilt(found, {})
               \/ /\ ~Refused(net') /\ present = Pod /\ Next_("start")
                  /\ \E s \in SUBSET plan.execs : Rebuilt(Pod, s)
      /\ UNCHANGED <<up, state, mu, failed, started, twice, mon, restorer, conts,
                     post, rigid, wait>>

(* onStart and Loader.run: every task of the kernel is started.             *)
Start(s) ==
  CASE s = "ready" -> "run" [] s = "doomed" -> "dying" [] OTHER -> s

RunRestored(c) ==
  /\ CanLock /\ rpc[c] = "start"
  /\ IF state = "restoringUnstarted"
     THEN /\ state' = "restoringStarted" /\ started' = TRUE /\ post' = "run"
          /\ task' = [i \in Incs |-> Start(task[i])]
          /\ sess' = [i \in Incs |-> Start(sess[i])]
          /\ twice' = {i \in Incs : sess[i] \in Goroutine}
          /\ rpc' = [rpc EXCEPT ![c] = "idle"] /\ UNCHANGED up
     ELSE /\ up' = FALSE
          /\ UNCHANGED <<state, started, post, task, sess, twice, rpc>>
  /\ UNCHANGED <<mu, table, gen, mon, restorer, conts, network, wait>>

-----------------------------------------------------------------------------
(* restoreDone.Broadcast: waitContainer looks again, waitRestore returns.   *)
Woken_None(w) == wait[w]                                           \* mutant
Woken(w) ==
  IF wait[w].pc # "cond" THEN wait[w]
  ELSE [wait[w] EXCEPT !.pc = IF wait[w].on = None THEN "back" ELSE "look"]

Broadcast == wait' = [w \in Waiters |-> Woken(w)] /\ restorer' = FALSE

(* onRestoreFailed of a call: the state under l.mu, then the rest.          *)
RestoreFailed(c) ==
  /\ CanLock /\ rpc[c] = "fail" /\ state' = "restoreFailed"
  /\ rpc' = [rpc EXCEPT ![c] = "notify"]
  /\ UNCHANGED <<up, mu, table, kernel, mon, restorer, conts, post, network, wait>>

NotifyFailed(c) ==
  /\ up /\ rpc[c] = "notify" /\ Broadcast
  /\ rpc' = [rpc EXCEPT ![c] = "idle"]
  /\ UNCHANGED <<up, state, mu, table, kernel, mon, conts, post, network>>

(* postRestore: onRestoreDone, or onRestoreFailed and k.Kill.               *)
PostRestore ==
  /\ CanLock /\ post = "run"
  /\ \/ state' = "restored" /\ post' = "done"
     \/ state' = "restoreFailed" /\ post' = "kill"
  /\ UNCHANGED <<up, mu, table, kernel, mon, restorer, conts, rpc, network, wait>>

NotifyPost ==
  /\ up /\ post \in {"done", "kill"} /\ Broadcast /\ post' = "over"
  /\ IF post = "kill" THEN SignalAll(Incs) ELSE UNCHANGED <<task, sess>>
  /\ UNCHANGED <<up, state, mu, table, started, gen, twice, mon, conts, rpc,
                 network>>

-----------------------------------------------------------------------------
(* waitContainer(c), and waitRestore for c = None.                          *)
Look(w, c) ==
  LET Go(pc, g) == wait' = [wait EXCEPT ![w] = [pc |-> pc, on |-> c, gen |-> g]]
  IN  /\ CanLock
      /\ IF c = None
         THEN Go(IF state \in {"restoringUnstarted", "restoringStarted"}
                 THEN "cond" ELSE "back", 0)
         ELSE IF state = "restoringUnstarted" THEN Go("cond", 0)
         ELSE IF procs[c] > 0 THEN Go("exit", procs[c])
         ELSE Go("back", 0)
      /\ UNCHANGED <<up, state, mu, table, kernel, mon, restore, network>>

Wait(w) == wait[w].pc = "idle" /\ \E c \in Pod \cup {None} : Look(w, c)
LookAgain(w) == wait[w].pc = "look" /\ Look(w, wait[w].on)

WaitExited(w) ==
  /\ up /\ wait[w].pc = "exit" /\ HasExited(task[<<wait[w].on, wait[w].gen>>])
  /\ wait' = [wait EXCEPT ![w].pc = "back"]
  /\ UNCHANGED <<up, state, mu, table, kernel, mon, restore, network>>

-----------------------------------------------------------------------------
Signalled(i) ==
  \/ task[i] \in {"killed", "dying"} /\ InitExit(i)
  \/ sess[i] \in {"killed", "dying"} /\ SessionExit(i)

(* The sandbox's own goroutines.                                            *)
Progress ==
  \/ SandboxExit \/ PostRestore \/ NotifyPost
  \/ \E i \in Incs : Signalled(i) \/ Deadline(i) \/ MonitorCheck(i)
  \/ \E c \in Containers :
       \/ Destroyed(c) \/ UseRestorer(c) \/ Register(c) \/ Load(c)
       \/ RunRestored(c) \/ RestoreFailed(c) \/ NotifyFailed(c)
  \/ \E w \in Waiters : LookAgain(w) \/ WaitExited(w)

(* The control calls, the applications and the gofers.                      *)
Environment ==
  \/ StartRoot \/ Restore
  \/ \E c \in plan.pod : CreateSub(c) \/ StartSub(c) \/ Destroy(c) \/ RestoreSub(c)
  \/ \E c \in Pod : Exec(c)
  \/ \E w \in Waiters : Wait(w)
  \/ \E i \in Incs : \/ InitExit(i) \/ SessionExit(i)
                     \/ CreateStack(i) \/ GoferDies(i)

Next == Progress \/ Environment
Spec == Init /\ [][Next]_vars /\ WF_vars(Progress)

-----------------------------------------------------------------------------
(* containerRuntimeState.                                                   *)
RuntimeState(c) ==
  CASE procs[c] = Absent -> "stopped"
    [] procs[c] = Unstarted ->
         IF state = "restoreFailed" \/ c \in failed THEN "stopped" ELSE "creating"
    [] OTHER -> IF task[<<c, procs[c]>>] = "exited" THEN "stopped" ELSE "running"

(* No process outlives its container: nothing of a destroyed container has  *)
(* a goroutine, except what was killed before the kernel started, and a     *)
(* container reported as stopped runs nothing (destroySubcontainer against  *)
(* exec, start, restore and the monitors).                                  *)
StoppedIsDead ==
  up => \A c \in Containers, g \in 1 .. MaxGen :
    LET now == {task[<<c, g>>], sess[<<c, g>>]}
    IN  /\ procs[c] = Absent => now \cap {"run", "killed"} = {}
        /\ RuntimeState(c) = "stopped" => "run" \notin now

(* Enforcement is never lost: once a kernel runs, a gated checkpoint is     *)
(* gated by the socket of this sandbox, in every namespace, and the next    *)
(* checkpoint says so (restore's refusal, both afterLoads, CreateStack).    *)
GateKept ==
  up /\ started =>
    /\ state # "started" /\ ckpt.gated => net.gate = "live"
    /\ net.gated = (net.gate = "live") /\ net.ns \in {None, net.gate}
    /\ net.given => net.gate = "live"
    /\ Saved(net) \in Checkpoints

(* A container whose gofer is gone does not run for ever: the monitor gives *)
(* up only on a container that is not running, and its SIGKILL reaches the  *)
(* exec sessions too.                                                       *)
DeadGoferKills ==
  <>[](up => \A i \in Incs : mon[i] \in {"grace", "late", "done"} =>
                               "run" \notin {task[i], sess[i]})

(* Nobody is left hanging: l.mu is released, no waiter sleeps on            *)
(* restoreDone once the restore is over, and none on a process that is      *)
(* gone.                                                                    *)
NothingHangs ==
  <>[](up => /\ mu = None
             /\ \A w \in Waiters :
                  /\ wait[w].pc = "cond" =>
                       state \in {"restoringUnstarted", "restoringStarted"}
                  /\ wait[w].pc = "exit" =>
                       task[<<wait[w].on, wait[w].gen>>] = "run")

(* Task.Start is called once for a task (a comment of the kernel).          *)
StartedOnce == twice = {}
=============================================================================
