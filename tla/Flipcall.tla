------------------------------- MODULE Flipcall -------------------------------
(***************************************************************************)
(* pkg/flipcall: two Endpoints, in two processes, hand one packet window    *)
(* back and forth.  Each has one user thread, which makes the calls Connect *)
(* or RecvFirst, SendRecv and SendLast as their preconditions allow, and    *)
(* threads that call Shutdown at any time.  One action is one atomic        *)
(* operation on shared memory or one futex call.  The peer is not hostile:  *)
(* both sides run this code.                                                *)
(***************************************************************************)
EXTENDS Integers, FiniteSets

CONSTANTS
  MaxMsgs,            \* bound: datagrams one side sends
  ClientClosers,      \* threads that call Shutdown on the client
  ServerClosers       \* and on the server

ASSUME MaxMsgsAssumption == MaxMsgs \in Nat

Sides    == {"client", "server"}
Peer(s)  == IF s = "client" THEN "server" ELSE "client"
Closers(s) == IF s = "client" THEN ClientClosers ELSE ServerClosers
AllClosers == ClientClosers \cup ServerClosers
Shutdown == "shutdown"                      \* csShutdown

VARIABLES
  conn,               \* connState: the side that is active, or Shutdown
  pkt,                \* the datagram in the window: whose, and its number
  pc, call,           \* where the user thread stands, in which call
  out,                \* the result the call is about to return
  life,               \* "new", "up", or "over" after an error or SendLast
  eps,                \* ctrl.state: epsBlocked = 1, epsShutdown = 2
  down,               \* ep.shutdown
  cl,                 \* cl[s][k]: where the call of Shutdown stands
  sent, got,          \* number of the last datagram sent and received
  late, res           \* ghosts: sides shut down when the call began; its result

user == <<pc, call, out, life>>
data == <<pkt, sent, got>>
past == <<late, res>>
vars == <<conn, data, user, eps, down, cl, past>>

Init ==
  /\ conn = "client" /\ pkt = [from |-> "server", n |-> 0]
  /\ pc = [s \in Sides |-> "idle"] /\ call = [s \in Sides |-> "none"]
  /\ out = [s \in Sides |-> "ok"] /\ life = [s \in Sides |-> "new"]
  /\ eps = [s \in Sides |-> 0] /\ down = [s \in Sides |-> FALSE]
  /\ cl = [s \in Sides |-> [k \in AllClosers |-> "idle"]]
  /\ sent = [s \in Sides |-> 0] /\ got = [s \in Sides |-> 0]
  /\ late = [s \in Sides |-> {}] /\ res = [s \in Sides |-> "none"]

Goto(s, l) == pc' = [pc EXCEPT ![s] = l]

(* Shutdown was called and returned, and so has the call it interrupted.    *)
ShutDown(s) ==
  /\ down[s] /\ pc[s] = "idle"
  /\ \A k \in Closers(s) : cl[s][k] \in {"idle", "done"}

-----------------------------------------------------------------------------
(* FUTEX_WAKE of at most n threads: the sleepers W go back to the loop.     *)
Asleep == {s \in Sides : pc[s] = "asleep"}
Wakes(n, W) ==
  /\ W \subseteq Asleep
  /\ Cardinality(W) = IF Cardinality(Asleep) < n THEN Cardinality(Asleep) ELSE n
Woken_NoRecheck(W, p) ==
  [t \in Sides |-> IF t \in W THEN "exit" ELSE p[t]]               \* mutant
Woken(W, p) == [t \in Sides |-> IF t \in W THEN "load" ELSE p[t]]

(* shutdownConn: the swap, and whether the peer must be woken.              *)
PeerWaits(s) == conn = s

-----------------------------------------------------------------------------
(* The user thread.                                                         *)
MayCall(s, c) ==
  \/ c = "Connect" /\ s = "client" /\ life[s] = "new"
  \/ c = "RecvFirst" /\ s = "server" /\ life[s] = "new"
  \/ c \in {"SendRecv", "SendLast"} /\ life[s] = "up" /\ sent[s] < MaxMsgs

Call(s, c) ==
  /\ pc[s] = "idle" /\ MayCall(s, c)
  /\ call' = [call EXCEPT ![s] = c]
  /\ Goto(s, IF c \in {"Connect", "RecvFirst"} THEN "enter" ELSE "store")
  /\ late' = [late EXCEPT ![s] = {t \in Sides : ShutDown(t)}]
  /\ res' = [res EXCEPT ![s] = "none"]
  /\ UNCHANGED <<conn, data, out, life, eps, down, cl>>

(* The datagram, or the connection request or response, numbered 0.         *)
Handshake(s) == call[s] \in {"Connect", "RecvFirst"}

Store(s) ==
  /\ pc[s] = "store"
  /\ LET n == IF Handshake(s) THEN 0 ELSE sent[s] + 1
     IN  /\ pkt' = [from |-> s, n |-> n]
         /\ sent' = [sent EXCEPT ![s] = n]
  /\ Goto(s, IF call[s] = "SendRecv" THEN "enter" ELSE "set")
  /\ UNCHANGED <<conn, got, call, out, life, eps, down, cl, past>>

(* enterFutexWait; a shut down endpoint takes its bit back and gives up.    *)
Enter(s) ==
  /\ pc[s] = "enter"
  /\ eps' = [eps EXCEPT ![s] = @ + 1]
  /\ \/ eps[s] = 0 /\ UNCHANGED out
        /\ Goto(s, CASE call[s] = "Connect"   -> "store"
                     [] call[s] = "RecvFirst" -> "load"
                     [] call[s] = "SendRecv"  -> "set")
     \/ eps[s] = 2 /\ out' = [out EXCEPT ![s] = "shutdown"] /\ Goto(s, "leave")
     \/ eps[s] \notin {0, 2} /\ out' = [out EXCEPT ![s] = "panic"]
        /\ Goto(s, "return")
  /\ UNCHANGED <<conn, data, call, life, down, cl, past>>

Leave(s) ==
  /\ pc[s] = "leave"
  /\ eps' = [eps EXCEPT ![s] = @ - 1]
  /\ Goto(s, "return")
  /\ UNCHANGED <<conn, data, call, out, life, down, cl, past>>

(* futexSetPeerActive: compare-and-swap.                                    *)
Swaps_Always(s) == TRUE                                            \* mutant
Swaps(s) == conn = s

SetPeerActive(s) ==
  /\ pc[s] = "set"
  /\ \/ /\ Swaps(s)
        /\ conn' = Peer(s) /\ Goto(s, "wake") /\ UNCHANGED out
     \/ /\ ~Swaps(s)
        /\ out' = [out EXCEPT ![s] = IF conn = Shutdown THEN "shutdown" ELSE "bad"]
        /\ Goto(s, IF call[s] = "SendLast" THEN "return" ELSE "exit")
        /\ UNCHANGED conn
  /\ UNCHANGED <<data, call, life, eps, down, cl, past>>

(* futexWakePeer.                                                           *)
WakePeer(s) ==
  /\ pc[s] = "wake"
  /\ \E W \in SUBSET Sides :
       /\ Wakes(1, W)
       /\ pc' = Woken(W, [pc EXCEPT ![s] =
                            IF call[s] = "SendLast" THEN "return" ELSE "load"])
  /\ UNCHANGED <<conn, data, call, out, life, eps, down, cl, past>>

(* futexWaitUntilActive: the load, the look at ep.shutdown, FUTEX_WAIT.  A  *)
(* server in RecvFirst that has not answered the request does so.           *)
Answers_Never(s) == FALSE                                          \* mutant
Answers(s) == call[s] = "RecvFirst" /\ pkt = [from |-> "client", n |-> 0]

Load(s) ==
  /\ pc[s] = "load"
  /\ out' = [out EXCEPT ![s] = IF conn = Shutdown THEN "shutdown" ELSE @]
  /\ Goto(s, CASE conn = s -> IF Answers(s) THEN "store" ELSE "exit"
               [] conn = Peer(s) -> "local"
               [] conn = Shutdown -> "exit")
  /\ UNCHANGED <<conn, data, call, life, eps, down, cl, past>>

Local(s) == down[s]

CheckLocal(s) ==
  /\ pc[s] = "local"
  /\ \/ Local(s) /\ out' = [out EXCEPT ![s] = "shutdown"] /\ Goto(s, "exit")
     \/ ~Local(s) /\ UNCHANGED out /\ Goto(s, "futex")
  /\ UNCHANGED <<conn, data, call, life, eps, down, cl, past>>

Sleeps_Stale(s) == TRUE                                            \* mutant
Sleeps(s) == conn = Peer(s)

FutexWait(s) ==
  /\ pc[s] = "futex"
  /\ Goto(s, IF Sleeps(s) THEN "asleep" ELSE "load")
  /\ UNCHANGED <<conn, data, call, out, life, eps, down, cl, past>>

(* EINTR.                                                                   *)
Interrupted(s) ==
  /\ pc[s] = "asleep" /\ Goto(s, "load")
  /\ UNCHANGED <<conn, data, call, out, life, eps, down, cl, past>>

(* exitFutexWait; if Shutdown came meanwhile, shutdownConn is ours to run.  *)
Exit(s) ==
  /\ pc[s] = "exit"
  /\ eps' = [eps EXCEPT ![s] = @ - 1]
  /\ \/ eps[s] = 1 /\ UNCHANGED out /\ Goto(s, "return")
     \/ eps[s] = 3 /\ UNCHANGED out /\ Goto(s, "swap")
     \/ eps[s] \notin {1, 3} /\ out' = [out EXCEPT ![s] = "panic"]
        /\ Goto(s, "return")
  /\ UNCHANGED <<conn, data, call, life, down, cl, past>>

ExitSwap(s) ==
  /\ pc[s] = "swap"
  /\ conn' = Shutdown
  /\ Goto(s, IF PeerWaits(s) THEN "swapwake" ELSE "return")
  /\ UNCHANGED <<data, call, out, life, eps, down, cl, past>>

ExitWake(s) ==
  /\ pc[s] = "swapwake"
  /\ \E W \in SUBSET Sides :
       Wakes(1, W) /\ pc' = Woken(W, [pc EXCEPT ![s] = "return"])
  /\ UNCHANGED <<conn, data, call, out, life, eps, down, cl, past>>

(* The call returns; RecvFirst and SendRecv read the datagram first.        *)
Receives(s) == out[s] = "ok" /\ call[s] \in {"RecvFirst", "SendRecv"}

Return(s) ==
  /\ pc[s] = "return"
  /\ got' = IF Receives(s) THEN [got EXCEPT ![s] = pkt.n] ELSE got
  /\ life' = [life EXCEPT ![s] =
                IF out[s] # "ok" \/ call[s] = "SendLast" THEN "over" ELSE "up"]
  /\ res' = [res EXCEPT ![s] = out[s]]
  /\ Goto(s, "idle")
  /\ call' = [call EXCEPT ![s] = "none"] /\ out' = [out EXCEPT ![s] = "ok"]
  /\ UNCHANGED <<conn, pkt, sent, eps, down, cl, late>>

User(s) ==
  \/ Store(s) \/ Enter(s) \/ Leave(s) \/ SetPeerActive(s) \/ WakePeer(s)
  \/ Load(s) \/ CheckLocal(s) \/ FutexWait(s) \/ Exit(s) \/ ExitSwap(s)
  \/ ExitWake(s) \/ Return(s)

-----------------------------------------------------------------------------
(* Shutdown: only the first caller goes on to ctrlShutdown.                 *)
CloserTo(s, k, l) == cl' = [cl EXCEPT ![s][k] = l]

First_Any(s) == TRUE                                               \* mutant
First(s) == ~down[s]

CallShutdown(s, k) ==
  /\ cl[s][k] = "idle"
  /\ down' = [down EXCEPT ![s] = TRUE]
  /\ CloserTo(s, k, IF First(s) THEN "add" ELSE "done")
  /\ UNCHANGED <<conn, data, user, eps, past>>

(* ctrlShutdown.                                                            *)
AddShutdown(s, k) ==
  /\ cl[s][k] = "add"
  /\ eps' = [eps EXCEPT ![s] = @ + 2]
  /\ CloserTo(s, k, IF eps[s] % 2 = 1 THEN "wakeall" ELSE "swap")
  /\ UNCHANGED <<conn, data, user, down, past>>

WakeAll(s, k) ==
  /\ cl[s][k] = "wakeall"
  /\ pc' = Woken(Asleep, pc) /\ CloserTo(s, k, "look")
  /\ UNCHANGED <<conn, data, call, out, life, eps, down, past>>

(* The loop is needed: the thread may not have been asleep yet.             *)
WakeAgain_Once(s) == FALSE                                         \* mutant
WakeAgain(s) == eps[s] % 2 = 1

LookBlocked(s, k) ==
  /\ cl[s][k] = "look"
  /\ CloserTo(s, k, IF WakeAgain(s) THEN "wakeall" ELSE "done")
  /\ UNCHANGED <<conn, data, user, eps, down, past>>

SwapConn(s, k) ==
  /\ cl[s][k] = "swap"
  /\ conn' = Shutdown
  /\ CloserTo(s, k, IF PeerWaits(s) THEN "swapwake" ELSE "done")
  /\ UNCHANGED <<data, user, eps, down, past>>

SwapWake(s, k) ==
  /\ cl[s][k] = "swapwake"
  /\ \E W \in SUBSET Sides : Wakes(1, W) /\ pc' = Woken(W, pc)
  /\ CloserTo(s, k, "done")
  /\ UNCHANGED <<conn, data, call, out, life, eps, down, past>>

Closer(s, k) ==
  \/ AddShutdown(s, k) \/ WakeAll(s, k) \/ LookBlocked(s, k)
  \/ SwapConn(s, k) \/ SwapWake(s, k)

-----------------------------------------------------------------------------
Next ==
  \E s \in Sides :
    \/ \E c \in {"Connect", "RecvFirst", "SendRecv", "SendLast"} : Call(s, c)
    \/ User(s) \/ Interrupted(s)
    \/ \E k \in Closers(s) : CallShutdown(s, k) \/ Closer(s, k)

(* Threads run.  No one need call anything, and no signal need arrive.      *)
Fairness ==
  \A s \in Sides : WF_vars(User(s)) /\ \A k \in Closers(s) : WF_vars(Closer(s, k))

Safety == Init /\ [][Next]_vars
Spec   == Safety /\ Fairness

-----------------------------------------------------------------------------
Labels == {"idle", "store", "enter", "leave", "set", "wake", "load", "local",
           "futex", "asleep", "exit", "swap", "swapwake", "return"}

CloserLabels == {"idle", "add", "wakeall", "look", "swap", "swapwake", "done"}

(* Types; two threads in Shutdown never make more of ctrl.state than two    *)
(* bits.                                                                    *)
TypeOK ==
  /\ conn \in Sides \cup {Shutdown}
  /\ pkt \in [from : Sides, n : Nat]
  /\ pc \in [Sides -> Labels]
  /\ call \in [Sides -> {"none", "Connect", "RecvFirst", "SendRecv", "SendLast"}]
  /\ out \in [Sides -> {"ok", "shutdown", "bad", "panic"}]
  /\ life \in [Sides -> {"new", "up", "over"}]
  /\ eps \in [Sides -> 0 .. 3] /\ down \in [Sides -> BOOLEAN]
  /\ cl \in [Sides -> [AllClosers -> CloserLabels]]
  /\ sent \in [Sides -> Nat] /\ got \in [Sides -> Nat]
  /\ late \in [Sides -> SUBSET Sides]
  /\ res \in [Sides -> {"none", "ok", "shutdown", "bad", "panic"}]

(* "At any given time one Endpoint has control": the two sides never touch  *)
(* the window at once, the user between two calls included.                 *)
Touches(s) ==
  \/ pc[s] = "store" \/ (pc[s] = "return" /\ Receives(s))
  \/ pc[s] = "idle" /\ life[s] = "up"
OneInControl == ~(Touches("client") /\ Touches("server"))

(* A call that receives gets the peer's newest datagram, and every datagram *)
(* the peer sent before it was received: none is lost, repeated or passed.  *)
DatagramIsNext ==
  \A s \in Sides : pc[s] = "return" /\ Receives(s) =>
    /\ pkt = [from |-> Peer(s), n |-> sent[Peer(s)]]
    /\ got[s] = sent[Peer(s)] - 1

(* The only error the calls return is ShutdownError, and only after some    *)
(* Shutdown: no race of Shutdown with the calls is taken for a broken peer  *)
(* ("unexpected connection state") or a second user thread (a panic).       *)
OnlyShutdownErrors ==
  \A s \in Sides : /\ res[s] \notin {"bad", "panic"}
                   /\ res[s] = "shutdown" => \E t \in Sides : down[t]

(* "Future calls return ShutdownErrors", here and in the peer: none that    *)
(* began after a side's Shutdown, and the call it interrupted, had returned *)
(* succeeds.  That call must have returned too: it may be the one to swap   *)
(* the connection state, and Shutdown does not wait for it.                 *)
LateCallsFail == \A s \in Sides : late[s] # {} => res[s] # "ok"

(* No wake-up is lost: a side that is given control notices.                *)
ControlArrives ==
  \A s \in Sides :
    (conn = s /\ pc[s] \in {"load", "local", "futex", "asleep"})
      ~> (pc[s] \in {"store", "exit"})

(* Shutdown unblocks every concurrent and future call of both sides, and    *)
(* returns itself, though nobody else helps.  (The calls of a behaviour are *)
(* finitely many, so all of them have returned from some point on.)         *)
ShutdownUnblocks ==
  <>[]\A s \in Sides :
        /\ (\E t \in Sides : down[t]) => pc[s] = "idle"
        /\ \A k \in Closers(s) : cl[s][k] \in {"idle", "done"}
=============================================================================
