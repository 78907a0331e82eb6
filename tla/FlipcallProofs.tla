---------------------------- MODULE FlipcallProofs ----------------------------
(***************************************************************************)
(* Proofs about Flipcall, for any number of datagrams and any sets of       *)
(* threads that call Shutdown.  Three invariants carry them.  Control: a    *)
(* side that may touch the window finds itself, or csShutdown, in the       *)
(* connection state, and the other side is not such a side.  Bits:          *)
(* ctrl.state is the sum of the user thread's bit and of the one closer's.  *)
(* Window: what it holds follows from whose turn it is (below).             *)
(***************************************************************************)
EXTENDS Flipcall, TLAPS

(* Leaves are for Zenon, except where they name another prover.             *)
USE Zenon

(* The side has control, or had it when the connection was shut down.       *)
Ctl(s) ==
  \/ pc[s] \in {"store", "set"}
  \/ pc[s] = "enter" /\ call[s] # "RecvFirst"
  \/ pc[s] = "idle" /\ (life[s] = "up" \/ (life[s] = "new" /\ s = "client"))
  \/ /\ pc[s] \in {"exit", "swap", "swapwake", "return"}
     /\ out[s] = "ok" /\ call[s] # "SendLast"

ControlInv ==
  /\ \A s \in Sides : Ctl(s) => conn \in {s, Shutdown}
  /\ ~(Ctl("client") /\ Ctl("server"))

(* The user thread has set epsBlocked.                                      *)
Blocked(s) ==
  \/ pc[s] \in {"leave", "load", "local", "futex", "asleep", "exit"}
  \/ pc[s] \in {"store", "wake", "set"} /\ call[s] \in {"Connect", "RecvFirst"}
  \/ pc[s] \in {"wake", "set"} /\ call[s] = "SendRecv"

BitsInv ==
  \A s \in Sides :
    /\ eps[s] \in IF Blocked(s) THEN {1, 3} ELSE {0, 2}
    /\ pc[s] = "leave" => eps[s] = 3
    /\ ~down[s] => eps[s] \in {0, 1}
    /\ \A k \in Closers(s) :
         /\ cl[s][k] # "idle" => down[s]
         /\ cl[s][k] = "add" =>
              /\ eps[s] \in {0, 1}
              /\ \A j \in Closers(s) : cl[s][j] = "add" => j = k

(* Where a ShutdownError can come from.                                     *)
SomeDown == \E t \in Sides : down[t]
ErrorInv ==
  /\ conn = Shutdown => SomeDown
  /\ \A s \in Sides :
       /\ out[s] \notin {"bad", "panic"} /\ res[s] \notin {"bad", "panic"}
       /\ out[s] = "shutdown" => SomeDown
       /\ res[s] = "shutdown" => SomeDown
       /\ pc[s] = "leave" => out[s] = "shutdown"
       /\ pc[s] = "swap" => down[s]
       /\ pc[s] \in {"load", "local", "futex", "asleep"} => call[s] # "SendLast"
       /\ pc[s] = "enter" => call[s] \in {"Connect", "RecvFirst", "SendRecv"}
       /\ pc[s] \notin {"idle"} => call[s] # "none"

(* Once the closer has set epsShutdown, the connection is shut down or      *)
(* somebody, the closer or the thread it interrupted, still has to do it.   *)
SwapInv ==
  \A s \in Sides :
    /\ down[s] => eps[s] \in {2, 3} \/ \E k \in Closers(s) : cl[s][k] = "add"
    /\ eps[s] \in {2, 3} =>
         \/ conn = Shutdown \/ pc[s] = "swap" \/ (Blocked(s) /\ pc[s] # "leave")
         \/ \E k \in Closers(s) : cl[s][k] = "swap"

(* A call that began too late meets csShutdown at each of its steps.        *)
LateInv ==
  \A s \in Sides : late[s] # {} =>
    /\ conn = Shutdown /\ res[s] # "ok"
    /\ pc[s] \notin {"wake", "local", "futex", "asleep"}
    /\ pc[s] \in {"exit", "swap", "swapwake", "return"} => out[s] # "ok"

Inv == TypeOK /\ ControlInv /\ BitsInv /\ ErrorInv /\ SwapInv /\ LateInv

(* The initial states satisfy the invariant.                                *)
LEMMA InitInv == Init => Inv
  BY SMT DEF Init, Inv, TypeOK, ControlInv, BitsInv, ErrorInv, SwapInv, LateInv,
     Ctl, Blocked, SomeDown, Sides, Peer, Shutdown, Closers, AllClosers,
     CloserLabels, Labels

(* Whether a side has set epsBlocked depends on its own thread only.        *)
LEMMA BlockedKept ==
  ASSUME UNCHANGED <<pc, call>>
  PROVE  \A t \in Sides : Blocked(t)' <=> Blocked(t)
  BY DEF Blocked

(* A thread that Shutdown wakes goes back to the head of its loop; the      *)
(* closer moves on.                                                         *)
LEMMA WokenInv ==
  ASSUME Inv, NEW s \in Sides, NEW k \in Closers(s), NEW l \in {"look", "done"},
         cl[s][k] \in {"wakeall", "swapwake"}, CloserTo(s, k, l),
         pc' \in [Sides -> Labels],
         \A t \in Sides : pc'[t] = pc[t] \/ (pc[t] = "asleep" /\ pc'[t] = "load"),
         UNCHANGED <<conn, data, call, out, life, eps, down, past>>
  PROVE  Inv'
<1>1. TypeOK'
  BY DEF Inv, TypeOK, CloserTo, CloserLabels, data, past
<1>2. /\ conn' = conn /\ call' = call /\ out' = out /\ eps' = eps /\ down' = down
      /\ late' = late /\ res' = res
  BY DEF past
<1>3. ASSUME NEW t \in Sides PROVE Blocked(t)' <=> Blocked(t)
  BY <1>2 DEF Blocked
<1>4. ASSUME NEW t \in Sides, NEW j \in Closers(t)
      PROVE  cl'[t][j] = cl[t][j] \/ (t = s /\ j = k /\ cl'[t][j] = l)
  BY SMT DEF Inv, TypeOK, CloserTo, Closers, AllClosers
<1>5. ControlInv'
  BY <1>2, SMT DEF Inv, ControlInv, Ctl, Sides
<1>6. BitsInv'
  BY <1>2, <1>3, <1>4, SMT DEF Inv, BitsInv
<1>7. ErrorInv'
  BY <1>2, SMT DEF Inv, ErrorInv, SomeDown
<1>8. SwapInv'
  <2> SUFFICES ASSUME NEW t \in Sides
               PROVE  /\ down[t] => eps[t] \in {2, 3} \/ \E j \in Closers(t) : cl'[t][j] = "add"
                      /\ eps[t] \in {2, 3} =>
                           \/ conn = Shutdown \/ pc'[t] = "swap"
                           \/ (Blocked(t) /\ pc'[t] # "leave")
                           \/ \E j \in Closers(t) : cl'[t][j] = "swap"
    BY <1>2, <1>3, SMT DEF SwapInv
  <2>1. ASSUME NEW j \in Closers(t), cl[t][j] \in {"add", "swap"}
        PROVE  cl'[t][j] = cl[t][j]
    BY <2>1, <1>4
  <2> QED
    BY <2>1, SMT DEF Inv, SwapInv
<1>9. LateInv'
  BY <1>2 DEF Inv, LateInv
<1> QED
  BY <1>1, <1>5, <1>6, <1>7, <1>8, <1>9 DEF Inv

(* Every step preserves the invariant, one case per action.                 *)
LEMMA StepInv == Inv /\ [Next]_vars => Inv'
<1> SUFFICES ASSUME Inv, [Next]_vars PROVE Inv'
    OBVIOUS
<1> USE DEF Inv, Sides, Peer, Shutdown, Goto
<1>1. ASSUME NEW s \in Sides, NEW c \in {"Connect", "RecvFirst", "SendRecv", "SendLast"},
            Call(s, c)
     PROVE  Inv'
  <2>1. TypeOK'
    BY <1>1 DEF data, user, past, Call, MayCall, ShutDown, data, TypeOK,
       Labels, CloserLabels
  <2>2. ControlInv'
    BY <1>1, SMT DEF data, user, past, Call, MayCall, ShutDown, data, TypeOK,
       ControlInv, ErrorInv, Ctl
  <2>3. BitsInv'
    BY <1>1, SMT DEF data, user, past, Call, MayCall, ShutDown, data, TypeOK,
       BitsInv, ErrorInv, Blocked, Closers, AllClosers
  <2>4. ErrorInv'
    BY <1>1, SMT DEF data, user, past, Call, MayCall, ShutDown, data, TypeOK,
       ErrorInv, BitsInv, ControlInv, Ctl, Blocked, SomeDown, Closers,
       AllClosers
  <2>5. SwapInv'
    BY <1>1, SMT DEF data, user, past, Call, MayCall, ShutDown, data, TypeOK,
       SwapInv, BitsInv, ErrorInv, Blocked, Closers, AllClosers
  <2>6. LateInv'
    BY <1>1, SMT DEF data, user, past, Call, MayCall, ShutDown, data, TypeOK,
       LateInv, SwapInv, BitsInv, ControlInv, ErrorInv, Ctl, Blocked, Closers,
       AllClosers
  <2> QED BY <2>1, <2>2, <2>3, <2>4, <2>5, <2>6
<1>2. ASSUME NEW s \in Sides, Store(s) PROVE Inv'
  <2>1. TypeOK'
    BY <1>2, SMT DEF data, user, past, Store, Handshake, TypeOK, Labels,
       CloserLabels
  <2>2. ControlInv'
    BY <1>2, SMT DEF data, user, past, Store, Handshake, TypeOK, ControlInv,
       ErrorInv, Ctl
  <2>3. BitsInv'
    BY <1>2, SMT DEF data, user, past, Store, Handshake, TypeOK, BitsInv, ErrorInv,
       Blocked, Closers, AllClosers
  <2>4. ErrorInv'
    BY <1>2, SMT DEF data, user, past, Store, Handshake, TypeOK, ErrorInv, BitsInv,
       ControlInv, Ctl, Blocked, SomeDown, Closers, AllClosers
  <2>5. SwapInv'
    BY <1>2, SMT DEF data, user, past, Store, Handshake, TypeOK, SwapInv, BitsInv,
       ErrorInv, Blocked, Closers, AllClosers
  <2>6. LateInv'
    BY <1>2, SMT DEF data, user, past, Store, Handshake, TypeOK, LateInv, SwapInv,
       BitsInv, ControlInv, ErrorInv, Ctl, Blocked, Closers, AllClosers
  <2> QED BY <2>1, <2>2, <2>3, <2>4, <2>5, <2>6
<1>3. ASSUME NEW s \in Sides, Enter(s) PROVE Inv'
  <2>1. TypeOK'
    <3>1. eps' \in [Sides -> 0 .. 3]
      BY <1>3, SMT DEF Enter, TypeOK, BitsInv, Blocked
    <3> QED
      BY <1>3, <3>1, SMT DEF data, user, past, Enter, TypeOK, ErrorInv, Labels,
         CloserLabels
  <2>2. ControlInv'
    BY <1>3, SMT DEF data, user, past, Enter, TypeOK, ControlInv, ErrorInv, Ctl
  <2>3. BitsInv'
    BY <1>3, SMT DEF data, user, past, Enter, TypeOK, BitsInv, ErrorInv, Blocked,
       Closers, AllClosers
  <2>4. ErrorInv'
    BY <1>3, SMT DEF data, user, past, Enter, TypeOK, ErrorInv, BitsInv, ControlInv,
       Ctl, Blocked, SomeDown, Closers, AllClosers
  <2>5. SwapInv'
    BY <1>3, SMT DEF data, user, past, Enter, TypeOK, SwapInv, BitsInv, ErrorInv,
       Blocked, Closers, AllClosers
  <2>6. LateInv'
    BY <1>3, SMT DEF data, user, past, Enter, TypeOK, LateInv, SwapInv, BitsInv,
       ControlInv, ErrorInv, Ctl, Blocked, Closers, AllClosers
  <2> QED BY <2>1, <2>2, <2>3, <2>4, <2>5, <2>6
<1>4. ASSUME NEW s \in Sides, Leave(s) PROVE Inv'
  <2>1. TypeOK'
    <3>1. eps' \in [Sides -> 0 .. 3]
      BY <1>4, SMT DEF Leave, TypeOK, BitsInv, Blocked
    <3> QED
      BY <1>4, <3>1 DEF data, user, past, Leave, TypeOK, Labels, CloserLabels
  <2>2. ControlInv'
    BY <1>4, SMT DEF data, user, past, Leave, TypeOK, ControlInv, ErrorInv, Ctl
  <2>3. BitsInv'
    BY <1>4, SMT DEF data, user, past, Leave, TypeOK, BitsInv, ErrorInv, Blocked,
       Closers, AllClosers
  <2>4. ErrorInv'
    BY <1>4, SMT DEF data, user, past, Leave, TypeOK, ErrorInv, BitsInv, ControlInv,
       Ctl, Blocked, SomeDown, Closers, AllClosers
  <2>5. SwapInv'
    BY <1>4, SMT DEF data, user, past, Leave, TypeOK, SwapInv, BitsInv, ErrorInv,
       Blocked, Closers, AllClosers
  <2>6. LateInv'
    BY <1>4, SMT DEF data, user, past, Leave, TypeOK, LateInv, SwapInv, BitsInv,
       ControlInv, ErrorInv, Ctl, Blocked, Closers, AllClosers
  <2> QED BY <2>1, <2>2, <2>3, <2>4, <2>5, <2>6
<1>5. ASSUME NEW s \in Sides, SetPeerActive(s) PROVE Inv'
  <2>1. TypeOK'
    BY <1>5, SMT DEF data, user, past, SetPeerActive, Swaps, TypeOK, Labels,
       CloserLabels
  <2>2. ControlInv'
    BY <1>5, SMT DEF data, user, past, SetPeerActive, Swaps, TypeOK, ControlInv,
       ErrorInv, Ctl
  <2>3. BitsInv'
    BY <1>5, SMT DEF data, user, past, SetPeerActive, Swaps, TypeOK, BitsInv,
       ErrorInv, Blocked, Closers, AllClosers
  <2>4. ErrorInv'
    BY <1>5, SMT DEF data, user, past, SetPeerActive, Swaps, TypeOK, ErrorInv,
       BitsInv, ControlInv, Ctl, Blocked, SomeDown, Closers, AllClosers
  <2>5. SwapInv'
    BY <1>5, SMT DEF data, user, past, SetPeerActive, Swaps, TypeOK, SwapInv,
       BitsInv, ErrorInv, Blocked, Closers, AllClosers
  <2>6. LateInv'
    BY <1>5, SMT DEF data, user, past, SetPeerActive, Swaps, TypeOK, LateInv,
       SwapInv, BitsInv, ControlInv, ErrorInv, Ctl, Blocked, Closers,
       AllClosers
  <2> QED BY <2>1, <2>2, <2>3, <2>4, <2>5, <2>6
<1>6. ASSUME NEW s \in Sides, WakePeer(s) PROVE Inv'
  <2>1. TypeOK'
    BY <1>6, SMT DEF data, user, past, WakePeer, Woken, Wakes, Asleep, TypeOK,
       Labels, CloserLabels
  <2>2. ControlInv'
    BY <1>6, SMT DEF data, user, past, WakePeer, Woken, Wakes, Asleep, TypeOK,
       ControlInv, ErrorInv, Ctl
  <2>3. BitsInv'
    BY <1>6, SMT DEF data, user, past, WakePeer, Woken, Wakes, Asleep, TypeOK,
       BitsInv, ErrorInv, Blocked, Closers, AllClosers
  <2>4. ErrorInv'
    BY <1>6, SMT DEF data, user, past, WakePeer, Woken, Wakes, Asleep, TypeOK,
       ErrorInv, BitsInv, ControlInv, Ctl, Blocked, SomeDown, Closers,
       AllClosers
  <2>5. SwapInv'
    BY <1>6, SMT DEF data, user, past, WakePeer, Woken, Wakes, Asleep, TypeOK,
       SwapInv, BitsInv, ErrorInv, Blocked, Closers, AllClosers
  <2>6. LateInv'
    BY <1>6, SMT DEF data, user, past, WakePeer, Woken, Wakes, Asleep, TypeOK,
       LateInv, SwapInv, BitsInv, ControlInv, ErrorInv, Ctl, Blocked, Closers,
       AllClosers
  <2> QED BY <2>1, <2>2, <2>3, <2>4, <2>5, <2>6
<1>7. ASSUME NEW s \in Sides, Load(s) PROVE Inv'
  <2>1. TypeOK'
    BY <1>7 DEF data, user, past, Load, Answers, TypeOK, Labels, CloserLabels
  <2>2. ControlInv'
    BY <1>7, SMT DEF data, user, past, Load, Answers, TypeOK, ControlInv, ErrorInv,
       Ctl
  <2>3. BitsInv'
    BY <1>7, SMT DEF data, user, past, Load, Answers, TypeOK, BitsInv, ErrorInv,
       Blocked, Closers, AllClosers
  <2>4. ErrorInv'
    BY <1>7, SMT DEF data, user, past, Load, Answers, TypeOK, ErrorInv, BitsInv,
       ControlInv, Ctl, Blocked, SomeDown, Closers, AllClosers
  <2>5. SwapInv'
    BY <1>7, SMT DEF data, user, past, Load, Answers, TypeOK, SwapInv, BitsInv,
       ErrorInv, Blocked, Closers, AllClosers
  <2>6. LateInv'
    BY <1>7, SMT DEF data, user, past, Load, Answers, TypeOK, LateInv, SwapInv,
       BitsInv, ControlInv, ErrorInv, Ctl, Blocked, Closers, AllClosers
  <2> QED BY <2>1, <2>2, <2>3, <2>4, <2>5, <2>6
<1>8. ASSUME NEW s \in Sides, CheckLocal(s) PROVE Inv'
  <2>1. TypeOK'
    BY <1>8, SMT DEF data, user, past, CheckLocal, Local, TypeOK, Labels,
       CloserLabels
  <2>2. ControlInv'
    BY <1>8, SMT DEF data, user, past, CheckLocal, Local, TypeOK, ControlInv,
       ErrorInv, Ctl
  <2>3. BitsInv'
    BY <1>8, SMT DEF data, user, past, CheckLocal, Local, TypeOK, BitsInv, ErrorInv,
       Blocked, Closers, AllClosers
  <2>4. ErrorInv'
    BY <1>8, SMT DEF data, user, past, CheckLocal, Local, TypeOK, ErrorInv, BitsInv,
       ControlInv, Ctl, Blocked, SomeDown, Closers, AllClosers
  <2>5. SwapInv'
    BY <1>8, SMT DEF data, user, past, CheckLocal, Local, TypeOK, SwapInv, BitsInv,
       ErrorInv, Blocked, Closers, AllClosers
  <2>6. LateInv'
    BY <1>8, SMT DEF data, user, past, CheckLocal, Local, TypeOK, LateInv, SwapInv,
       BitsInv, ControlInv, ErrorInv, Ctl, Blocked, Closers, AllClosers
  <2> QED BY <2>1, <2>2, <2>3, <2>4, <2>5, <2>6
<1>9. ASSUME NEW s \in Sides, FutexWait(s) PROVE Inv'
  <2>1. TypeOK'
    BY <1>9 DEF data, user, past, FutexWait, Sleeps, TypeOK, Labels,
       CloserLabels
  <2>2. ControlInv'
    BY <1>9, SMT DEF data, user, past, FutexWait, Sleeps, TypeOK, ControlInv,
       ErrorInv, Ctl
  <2>3. BitsInv'
    BY <1>9, SMT DEF data, user, past, FutexWait, Sleeps, TypeOK, BitsInv, ErrorInv,
       Blocked, Closers, AllClosers
  <2>4. ErrorInv'
    BY <1>9, SMT DEF data, user, past, FutexWait, Sleeps, TypeOK, ErrorInv, BitsInv,
       ControlInv, Ctl, Blocked, SomeDown, Closers, AllClosers
  <2>5. SwapInv'
    BY <1>9, SMT DEF data, user, past, FutexWait, Sleeps, TypeOK, SwapInv, BitsInv,
       ErrorInv, Blocked, Closers, AllClosers
  <2>6. LateInv'
    BY <1>9, SMT DEF data, user, past, FutexWait, Sleeps, TypeOK, LateInv, SwapInv,
       BitsInv, ControlInv, ErrorInv, Ctl, Blocked, Closers, AllClosers
  <2> QED BY <2>1, <2>2, <2>3, <2>4, <2>5, <2>6
<1>10. ASSUME NEW s \in Sides, Interrupted(s) PROVE Inv'
  <2>1. TypeOK'
    BY <1>10 DEF data, user, past, Interrupted, TypeOK, Labels, CloserLabels
  <2>2. ControlInv'
    BY <1>10, SMT DEF data, user, past, Interrupted, TypeOK, ControlInv, ErrorInv,
       Ctl
  <2>3. BitsInv'
    BY <1>10, SMT DEF data, user, past, Interrupted, TypeOK, BitsInv, ErrorInv,
       Blocked, Closers, AllClosers
  <2>4. ErrorInv'
    BY <1>10, SMT DEF data, user, past, Interrupted, TypeOK, ErrorInv, BitsInv,
       ControlInv, Ctl, Blocked, SomeDown, Closers, AllClosers
  <2>5. SwapInv'
    BY <1>10, SMT DEF data, user, past, Interrupted, TypeOK, SwapInv, BitsInv,
       ErrorInv, Blocked, Closers, AllClosers
  <2>6. LateInv'
    BY <1>10, SMT DEF data, user, past, Interrupted, TypeOK, LateInv, SwapInv,
       BitsInv, ControlInv, ErrorInv, Ctl, Blocked, Closers, AllClosers
  <2> QED BY <2>1, <2>2, <2>3, <2>4, <2>5, <2>6
<1>11. ASSUME NEW s \in Sides, Exit(s) PROVE Inv'
  <2>1. TypeOK'
    <3>1. eps' \in [Sides -> 0 .. 3]
      BY <1>11, SMT DEF Exit, TypeOK, BitsInv, Blocked
    <3> QED
      BY <1>11, <3>1, SMT DEF data, user, past, Exit, TypeOK, Labels, CloserLabels
  <2>2. ControlInv'
    BY <1>11, SMT DEF data, user, past, Exit, TypeOK, ControlInv, ErrorInv, Ctl
  <2>3. BitsInv'
    BY <1>11, SMT DEF data, user, past, Exit, TypeOK, BitsInv, ErrorInv, Blocked,
       Closers, AllClosers
  <2>4. ErrorInv'
    BY <1>11, SMT DEF data, user, past, Exit, TypeOK, ErrorInv, BitsInv, ControlInv,
       Ctl, Blocked, SomeDown, Closers, AllClosers
  <2>5. SwapInv'
    BY <1>11, SMT DEF data, user, past, Exit, TypeOK, SwapInv, BitsInv, ErrorInv,
       Blocked, Closers, AllClosers
  <2>6. LateInv'
    BY <1>11, SMT DEF data, user, past, Exit, TypeOK, LateInv, SwapInv, BitsInv,
       ControlInv, ErrorInv, Ctl, Blocked, Closers, AllClosers
  <2> QED BY <2>1, <2>2, <2>3, <2>4, <2>5, <2>6
<1>12. ASSUME NEW s \in Sides, ExitSwap(s) PROVE Inv'
  <2>1. TypeOK'
    BY <1>12 DEF data, user, past, ExitSwap, PeerWaits, TypeOK, Labels,
       CloserLabels
  <2>2. ControlInv'
    BY <1>12, SMT DEF data, user, past, ExitSwap, PeerWaits, TypeOK, ControlInv,
       ErrorInv, Ctl
  <2>3. BitsInv'
    BY <1>12, SMT DEF data, user, past, ExitSwap, PeerWaits, TypeOK, BitsInv,
       ErrorInv, Blocked, Closers, AllClosers
  <2>4. ErrorInv'
    BY <1>12, SMT DEF data, user, past, ExitSwap, PeerWaits, TypeOK, ErrorInv,
       BitsInv, ControlInv, Ctl, Blocked, SomeDown, Closers, AllClosers
  <2>5. SwapInv'
    BY <1>12, SMT DEF data, user, past, ExitSwap, PeerWaits, TypeOK, SwapInv,
       BitsInv, ErrorInv, Blocked, Closers, AllClosers
  <2>6. LateInv'
    BY <1>12, SMTT(30) DEF data, user, past, ExitSwap, PeerWaits, TypeOK, LateInv,
       SwapInv, BitsInv, ControlInv, ErrorInv, Ctl, Blocked, Closers,
       AllClosers
  <2> QED BY <2>1, <2>2, <2>3, <2>4, <2>5, <2>6
<1>13. ASSUME NEW s \in Sides, ExitWake(s) PROVE Inv'
  <2>1. TypeOK'
    BY <1>13, SMT DEF data, user, past, ExitWake, Woken, Wakes, Asleep, TypeOK,
       Labels, CloserLabels
  <2>2. ControlInv'
    BY <1>13, SMT DEF data, user, past, ExitWake, Woken, Wakes, Asleep, TypeOK,
       ControlInv, ErrorInv, Ctl
  <2>3. BitsInv'
    BY <1>13, SMT DEF data, user, past, ExitWake, Woken, Wakes, Asleep, TypeOK,
       BitsInv, ErrorInv, Blocked, Closers, AllClosers
  <2>4. ErrorInv'
    BY <1>13, SMTT(30) DEF data, user, past, ExitWake, Woken, Wakes, Asleep, TypeOK,
       ErrorInv, BitsInv, ControlInv, Ctl, Blocked, SomeDown, Closers,
       AllClosers
  <2>5. SwapInv'
    BY <1>13, SMTT(30) DEF data, user, past, ExitWake, Woken, Wakes, Asleep, TypeOK,
       SwapInv, BitsInv, ErrorInv, Blocked, Closers, AllClosers
  <2>6. LateInv'
    BY <1>13, SMTT(30) DEF data, user, past, ExitWake, Woken, Wakes, Asleep, TypeOK,
       LateInv, SwapInv, BitsInv, ControlInv, ErrorInv, Ctl, Blocked, Closers,
       AllClosers
  <2> QED BY <2>1, <2>2, <2>3, <2>4, <2>5, <2>6
<1>14. ASSUME NEW s \in Sides, Return(s) PROVE Inv'
  <2>1. TypeOK'
    BY <1>14, SMT DEF data, user, past, Return, Receives, TypeOK, Labels,
       CloserLabels
  <2>2. ControlInv'
    BY <1>14, SMTT(30) DEF data, user, past, Return, Receives, TypeOK, ControlInv,
       ErrorInv, Ctl
  <2>3. BitsInv'
    BY <1>14, SMTT(30) DEF data, user, past, Return, Receives, TypeOK, BitsInv, ErrorInv,
       Blocked, Closers, AllClosers
  <2>4. ErrorInv'
    BY <1>14, SMT DEF user, past, Return, TypeOK, ErrorInv, SomeDown
  <2>5. SwapInv'
    BY <1>14, SMTT(30) DEF data, user, past, Return, Receives, TypeOK, SwapInv, BitsInv,
       ErrorInv, Blocked, Closers, AllClosers
  <2>6. LateInv'
    BY <1>14 DEF user, past, Return, TypeOK, ErrorInv, LateInv
  <2> QED BY <2>1, <2>2, <2>3, <2>4, <2>5, <2>6
<1>15. ASSUME NEW s \in Sides, NEW k \in Closers(s), CallShutdown(s, k) PROVE Inv'
  <2>1. TypeOK'
    BY <1>15 DEF data, user, past, CallShutdown, First, CloserTo, TypeOK,
       Labels, CloserLabels
  <2>2. ControlInv'
    BY <1>15, SMT DEF data, user, past, CallShutdown, First, CloserTo, TypeOK,
       ControlInv, ErrorInv, Ctl
  <2>3. BitsInv'
    BY <1>15, BlockedKept, SMTT(30) DEF user, CallShutdown, First, CloserTo, TypeOK,
       BitsInv, Closers, AllClosers
  <2>4. ErrorInv'
    BY <1>15, SMT DEF user, past, CallShutdown, TypeOK, ErrorInv, SomeDown
  <2>5. SwapInv'
    BY <1>15, BlockedKept, SMTT(30) DEF user, CallShutdown, First, CloserTo, TypeOK,
       SwapInv, BitsInv, Closers, AllClosers
  <2>6. LateInv'
    BY <1>15 DEF user, past, CallShutdown, TypeOK, ErrorInv, LateInv
  <2> QED BY <2>1, <2>2, <2>3, <2>4, <2>5, <2>6
<1>16. ASSUME NEW s \in Sides, NEW k \in Closers(s), AddShutdown(s, k) PROVE Inv'
  <2>1. TypeOK'
    <3>1. eps' \in [Sides -> 0 .. 3]
      BY <1>16, SMT DEF AddShutdown, TypeOK, BitsInv, Blocked
    <3> QED
      BY <1>16, <3>1 DEF data, user, past, AddShutdown, CloserTo, TypeOK,
         Labels, CloserLabels
  <2>2. ControlInv'
    BY <1>16, SMTT(20) DEF data, user, past, AddShutdown, CloserTo, TypeOK, ControlInv,
       ErrorInv, Ctl
  <2>3. BitsInv'
    <3>1. k \in AllClosers
      BY DEF Closers, AllClosers
    <3>2. /\ eps'[s] = eps[s] + 2 /\ eps[s] \in {0, 1} /\ down[s]
          /\ \A t \in Sides \ {s} : eps'[t] = eps[t] /\ cl'[t] = cl[t]
      BY <1>16, <3>1 DEF AddShutdown, CloserTo, TypeOK, BitsInv
    <3>3. \A j \in Closers(s) : cl'[s][j] # "add"
      BY <1>16, <3>1, SMT DEF AddShutdown, CloserTo, TypeOK, BitsInv, Closers, AllClosers
    <3>4. UNCHANGED <<pc, call, down>>
      BY <1>16 DEF AddShutdown, user
    <3>5. \A t \in Sides : Blocked(t)' <=> Blocked(t)
      BY <3>4, BlockedKept
    <3>6. /\ Blocked(s) => eps'[s] = 3
          /\ ~Blocked(s) => eps'[s] = 2
          /\ pc[s] # "leave"
      <4>1. eps[s] \in IF Blocked(s) THEN {1, 3} ELSE {0, 2}
        BY DEF BitsInv
      <4>2. pc[s] # "leave"
        BY <3>2, SMT DEF BitsInv
      <4>3. CASE eps[s] = 0
        BY <4>1, <4>2, <4>3, <3>2, SMT
      <4>4. CASE eps[s] = 1
        BY <4>1, <4>2, <4>4, <3>2, SMT
      <4> QED
        BY <4>3, <4>4, <3>2
    <3>7. ASSUME NEW t \in Sides
          PROVE  /\ eps'[t] \in IF Blocked(t) THEN {1, 3} ELSE {0, 2}
                 /\ pc[t] = "leave" => eps'[t] = 3
                 /\ ~down[t] => eps'[t] \in {0, 1}
                 /\ \A j \in Closers(t) :
                      /\ cl'[t][j] # "idle" => down[t]
                      /\ cl'[t][j] = "add" =>
                           /\ eps'[t] \in {0, 1}
                           /\ \A i \in Closers(t) : cl'[t][i] = "add" => i = j
      <4>1. CASE t = s
        BY <4>1, <3>2, <3>3, <3>6
      <4>2. CASE t # s
        BY <4>2, <3>2, SMT DEF BitsInv
      <4> QED
        BY <4>1, <4>2
    <3> QED
      BY <3>4, <3>5, <3>7, SMT DEF BitsInv
  <2>4. ErrorInv'
    BY <1>16, SMT DEF user, past, AddShutdown, TypeOK, ErrorInv, SomeDown
  <2>5. SwapInv'
    <3>1. k \in AllClosers
      BY DEF Closers, AllClosers
    <3>2. /\ eps'[s] = eps[s] + 2 /\ eps[s] \in {0, 1}
          /\ eps[s] = 1 <=> Blocked(s)
          /\ \A t \in Sides \ {s} : eps'[t] = eps[t] /\ cl'[t] = cl[t]
      BY <1>16, <3>1, SMT DEF AddShutdown, CloserTo, TypeOK, BitsInv
    <3>3. eps[s] = 0 => cl'[s][k] = "swap"
      BY <1>16, <3>1, SMT DEF AddShutdown, CloserTo, TypeOK
    <3>4. UNCHANGED <<conn, pc, call, down>>
      BY <1>16 DEF AddShutdown, user
    <3>5. eps[s] = 1 => pc[s] # "leave"
      BY SMT DEF BitsInv
    <3>6. \A t \in Sides : Blocked(t)' <=> Blocked(t)
      BY <3>4, BlockedKept
    <3>7. ASSUME NEW t \in Sides
          PROVE  /\ down[t] => eps'[t] \in {2, 3} \/ \E j \in Closers(t) : cl'[t][j] = "add"
                 /\ eps'[t] \in {2, 3} =>
                      \/ conn = Shutdown \/ pc[t] = "swap"
                      \/ (Blocked(t) /\ pc[t] # "leave")
                      \/ \E j \in Closers(t) : cl'[t][j] = "swap"
      <4>1. CASE t = s
        BY <4>1, <3>2, <3>3, <3>5, SMT
      <4>2. CASE t # s
        BY <4>2, <3>2, SMT DEF SwapInv
      <4> QED
        BY <4>1, <4>2
    <3> QED
      BY <3>4, <3>6, <3>7 DEF SwapInv
  <2>6. LateInv'
    BY <1>16 DEF user, past, AddShutdown, TypeOK, ErrorInv, LateInv
  <2> QED BY <2>1, <2>2, <2>3, <2>4, <2>5, <2>6
<1>17. ASSUME NEW s \in Sides, NEW k \in Closers(s), WakeAll(s, k) PROVE Inv'
  <2>1. pc' \in [Sides -> Labels]
    BY <1>17 DEF WakeAll, Woken, TypeOK, Labels
  <2>2. \A t \in Sides : pc'[t] = pc[t] \/ (pc[t] = "asleep" /\ pc'[t] = "load")
    BY <1>17 DEF WakeAll, Woken, Asleep
  <2> QED
    BY <1>17, <2>1, <2>2, WokenInv DEF WakeAll
<1>18. ASSUME NEW s \in Sides, NEW k \in Closers(s), LookBlocked(s, k) PROVE Inv'
  <2>1. TypeOK'
    BY <1>18 DEF data, user, past, LookBlocked, WakeAgain, CloserTo, TypeOK,
       Labels, CloserLabels
  <2>2. ControlInv'
    BY <1>18, SMT DEF data, user, past, LookBlocked, WakeAgain, CloserTo, TypeOK,
       ControlInv, ErrorInv, Ctl
  <2>3. BitsInv'
    BY <1>18, BlockedKept, SMTT(30) DEF user, LookBlocked, CloserTo, TypeOK,
       BitsInv, Closers, AllClosers
  <2>4. ErrorInv'
    BY <1>18, SMT DEF user, past, LookBlocked, TypeOK, ErrorInv, SomeDown
  <2>5. SwapInv'
    BY <1>18, BlockedKept, SMTT(30) DEF user, LookBlocked, CloserTo, TypeOK,
       SwapInv, BitsInv, Closers, AllClosers
  <2>6. LateInv'
    BY <1>18 DEF user, past, LookBlocked, TypeOK, ErrorInv, LateInv
  <2> QED BY <2>1, <2>2, <2>3, <2>4, <2>5, <2>6
<1>19. ASSUME NEW s \in Sides, NEW k \in Closers(s), SwapConn(s, k) PROVE Inv'
  <2>1. TypeOK'
    BY <1>19 DEF data, user, past, SwapConn, PeerWaits, CloserTo, TypeOK,
       Labels, CloserLabels
  <2>2. ControlInv'
    BY <1>19 DEF data, user, past, SwapConn, PeerWaits, CloserTo, TypeOK,
       ControlInv, ErrorInv, Ctl
  <2>3. BitsInv'
    BY <1>19, BlockedKept, SMTT(30) DEF user, SwapConn, CloserTo, TypeOK,
       BitsInv, Closers, AllClosers
  <2>4. ErrorInv'
    <3>1. down[s]
      BY <1>19 DEF SwapConn, BitsInv
    <3> QED
      BY <1>19, <3>1, SMT DEF user, past, SwapConn, TypeOK, ErrorInv, SomeDown
  <2>5. SwapInv'
    <3>1. ASSUME NEW t \in Sides, NEW j \in Closers(t), cl[t][j] = "add"
          PROVE  cl'[t][j] = "add"
      BY <1>19, <3>1, SMT DEF SwapConn, CloserTo, TypeOK, Closers, AllClosers
    <3> QED
      BY <1>19, <3>1, SMT DEF SwapConn, SwapInv
  <2>6. LateInv'
    BY <1>19 DEF user, past, SwapConn, TypeOK, ErrorInv, LateInv
  <2> QED BY <2>1, <2>2, <2>3, <2>4, <2>5, <2>6
<1>20. ASSUME NEW s \in Sides, NEW k \in Closers(s), SwapWake(s, k) PROVE Inv'
  <2>1. pc' \in [Sides -> Labels]
    BY <1>20, SMT DEF SwapWake, Woken, TypeOK, Labels
  <2>2. \A t \in Sides : pc'[t] = pc[t] \/ (pc[t] = "asleep" /\ pc'[t] = "load")
    BY <1>20 DEF SwapWake, Woken, Wakes, Asleep
  <2> QED
    BY <1>20, <2>1, <2>2, WokenInv DEF SwapWake
<1>21. CASE UNCHANGED vars
  <2>1. TypeOK' /\ ControlInv'
    BY <1>21, SMT DEF vars, data, user, past, TypeOK, ControlInv, Ctl
  <2>2. BitsInv'
    BY <1>21, BlockedKept, SMT DEF vars, user, BitsInv, Closers
  <2>3. ErrorInv'
    BY <1>21 DEF vars, user, past, ErrorInv, SomeDown
  <2>4. SwapInv' /\ LateInv'
    BY <1>21, BlockedKept, SMT DEF vars, user, past, SwapInv, LateInv, Closers
  <2> QED
    BY <2>1, <2>2, <2>3, <2>4
<1> QED
  BY <1>1, <1>2, <1>3, <1>4, <1>5, <1>6, <1>7, <1>8, <1>9, <1>10, <1>11, <1>12,
     <1>13, <1>14, <1>15, <1>16, <1>17, <1>18, <1>19, <1>20, <1>21 DEF Next,
     User, Closer

(* Flipcall's invariant holds in every reachable state.                     *)
THEOREM Invariance == Safety => []Inv
  BY InitInv, StepInv, PTL DEF Safety

(* The type invariant, for any number of datagrams and of threads that call *)
(* Shutdown: ctrl.state keeps to its two bits.                              *)
THEOREM TypeCorrect == Safety => []TypeOK
  BY Invariance, PTL DEF Inv

(* The two endpoints never touch the packet window at once, whatever        *)
(* Shutdown does meanwhile.                                                 *)
THEOREM ControlIsExclusive == Safety => []OneInControl
<1>1. Inv => OneInControl
  BY DEF Inv, ControlInv, Ctl, OneInControl, Touches, Receives
<1> QED
  BY <1>1, Invariance, PTL

(* enterFutexWait, exitFutexWait and futexSetPeerActive never meet a state  *)
(* they do not know, and a ShutdownError means that Shutdown was called.    *)
THEOREM ErrorsAreShutdowns == Safety => []OnlyShutdownErrors
<1>1. Inv => OnlyShutdownErrors
  BY DEF Inv, ErrorInv, SomeDown, OnlyShutdownErrors
<1> QED
  BY <1>1, Invariance, PTL

(* A call that begins after a side's Shutdown and the call it interrupted   *)
(* have returned does not succeed, on either side.                          *)
THEOREM LateCallsAreRefused == Safety => []LateCallsFail
<1>1. Inv => LateCallsFail
  BY DEF Inv, LateInv, LateCallsFail
<1> QED
  BY <1>1, Invariance, PTL

-----------------------------------------------------------------------------
(* The contents of the window.  What a side has sent and received says how  *)
(* far its call is (CountInv); the side whose turn it is and that has not   *)
(* stored yet finds the peer's last datagram in the window, and the two     *)
(* counts of datagrams sent are equal or the client is one ahead (TurnInv). *)
(* A datagram that is about to be received stays (ReceiptInv), also when    *)
(* Shutdown has overwritten the connection state meanwhile.                 *)

(* The side will never give the window to its peer again.                   *)
Finished(s) ==
  \/ life[s] = "over" \/ (pc[s] # "idle" /\ out[s] # "ok")
  \/ call[s] = "SendLast" /\ pc[s] \in {"wake", "return"}

Stored(s) == pc[s] = "set" \/ (pc[s] = "enter" /\ call[s] = "SendRecv")

(* The server receives a datagram before it sends its first one.            *)
Ahead(s) == IF s = "server" THEN 1 ELSE 0

CountInv ==
  \A s \in Sides :
    /\ pc[s] # "idle" => life[s] = IF Handshake(s) THEN "new" ELSE "up"
    /\ call[s] = "Connect" => s = "client"
    /\ call[s] = "RecvFirst" => s = "server"
    /\ pc[s] \notin {"leave", "exit", "swap", "swapwake", "return"} => out[s] = "ok"
    /\ life[s] = "new" => got[s] = 0 /\ sent[s] = 0
    /\ life[s] = "up" /\ pc[s] \in {"idle", "store"} => got[s] = sent[s] + Ahead(s)
    /\ life[s] = "up" /\ pc[s] \notin {"idle", "store"} =>
         sent[s] > 0 /\ got[s] + 1 = sent[s] + Ahead(s)

TurnInv ==
  \A s \in Sides : conn = s /\ ~Finished(s) =>
    /\ pkt = IF Stored(s) THEN [from |-> s, n |-> sent[s]]
                          ELSE [from |-> Peer(s), n |-> sent[Peer(s)]]
    /\ pc[s] = "store" /\ call[s] = "RecvFirst" => sent[Peer(s)] = 0
    /\ IF (s = "client") <=> Stored(s)
       THEN \/ sent["client"] = sent["server"] + 1
            \/ life[s] = "new" /\ sent["client"] = 0 /\ sent["server"] = 0
       ELSE sent["client"] = sent["server"]

ReceiptInv ==
  \A s \in Sides :
    pc[s] \in {"exit", "swap", "swapwake", "return"} /\ Receives(s) =>
      /\ pkt = [from |-> Peer(s), n |-> sent[Peer(s)]]
      /\ got[s] + 1 = sent[Peer(s)]

WindowInv == CountInv /\ TurnInv /\ ReceiptInv

(* At the start nothing was sent, and the client's turn has come.           *)
LEMMA WindowInit == Init => WindowInv
  BY SMT DEF Init, WindowInv, CountInv, TurnInv, ReceiptInv, Finished, Stored, Ahead,
     Handshake, Receives, Sides, Peer

(* A thread stays before or behind its store, and a call that has failed or *)
(* given the window away for good stays such a call.                        *)
Stays(t) ==
  /\ (pc'[t] = "idle") = (pc[t] = "idle")
  /\ (pc'[t] = "store") = (pc[t] = "store")
  /\ out[t] # "ok" => out'[t] # "ok"
  /\ pc'[t] \notin {"leave", "exit", "swap", "swapwake", "return"} => out'[t] = "ok"
  /\ call[t] = "SendLast" /\ pc[t] \in {"wake", "return"} =>
       pc'[t] \in {"wake", "return"}
  /\ out'[t] = "ok" => Stored(t)' = Stored(t)
  /\ pc'[t] \in {"exit", "swap", "swapwake", "return"} /\ Receives(t)' =>
       pc[t] \in {"exit", "swap", "swapwake", "return"}

(* The step changes neither the data nor which calls are made.              *)
Calm ==
  /\ UNCHANGED <<data, call, life>>
  /\ out' \in [Sides -> {"ok", "shutdown", "bad", "panic"}]
  /\ conn' \in {conn, Shutdown}

(* Steps that touch neither window nor turn preserve what is said of them.  *)
LEMMA WindowKept ==
  ASSUME Inv, WindowInv, Calm, \A t \in Sides : Stays(t)
  PROVE  WindowInv'
<1>1. /\ pkt' = pkt /\ sent' = sent /\ got' = got /\ call' = call /\ life' = life
  BY DEF data, Calm
<1>2. CountInv'
  BY <1>1 DEF WindowInv, CountInv, Handshake, Ahead, Stays
<1>3. ASSUME NEW t \in Sides, ~Finished(t)'
      PROVE  ~Finished(t) /\ (pc[t] # "idle" => out'[t] = "ok")
  BY <1>1, <1>3 DEF Finished, Stays
<1>4. ASSUME NEW t \in Sides, pc'[t] = "idle", pc[t] = "idle"
      PROVE  Stored(t)' = Stored(t)
  BY <1>4 DEF Stored
<1>5. TurnInv'
  <2> SUFFICES ASSUME NEW s \in Sides, conn' = s, ~Finished(s)'
               PROVE  /\ pkt = IF Stored(s)' THEN [from |-> s, n |-> sent[s]]
                                             ELSE [from |-> Peer(s), n |-> sent[Peer(s)]]
                      /\ pc'[s] = "store" /\ call[s] = "RecvFirst" => sent[Peer(s)] = 0
                      /\ IF (s = "client") <=> Stored(s)'
                         THEN \/ sent["client"] = sent["server"] + 1
                              \/ life[s] = "new" /\ sent["client"] = 0 /\ sent["server"] = 0
                         ELSE sent["client"] = sent["server"]
    BY <1>1 DEF TurnInv
  <2>1. conn = s
    BY DEF Sides, Shutdown, Calm
  <2>2. Stored(s)' = Stored(s)
    BY <1>3, <1>4 DEF Stored, Stays
  <2> QED
    BY <1>3, <2>1, <2>2, SMT DEF WindowInv, TurnInv, Stays
<1>6. ReceiptInv'
  BY <1>1 DEF WindowInv, ReceiptInv, Receives, Stays, Calm
<1> QED
  BY <1>2, <1>5, <1>6 DEF WindowInv

(* Every step preserves it; Store, futexSetPeerActive, the load that finds   *)
(* the side active, and Return are the ones that matter.                    *)
LEMMA WindowNext == Inv /\ WindowInv /\ [Next]_vars => WindowInv'
<1> SUFFICES ASSUME Inv, WindowInv, [Next]_vars PROVE WindowInv'
  OBVIOUS
<1> USE DEF Sides, Peer, Shutdown, Goto, data, past, user
<1>1. ASSUME NEW s \in Sides, NEW c \in {"Connect", "RecvFirst", "SendRecv", "SendLast"},
             Call(s, c)
      PROVE  WindowInv'
  <2>1. CountInv'
    BY <1>1, SMTT(20) DEF Inv, WindowInv, TypeOK, Call, MayCall, CountInv, ErrorInv,
       Handshake, Ahead
  <2>2. TurnInv'
    BY <1>1, SMT DEF Inv, WindowInv, TypeOK, Call, MayCall, ErrorInv, ControlInv,
       Ctl, CountInv, TurnInv, Finished, Stored, Handshake
  <2>3. ReceiptInv'
    BY <1>1, SMT DEF Inv, WindowInv, TypeOK, Call, MayCall, ReceiptInv, Receives
  <2> QED
    BY <2>1, <2>2, <2>3 DEF WindowInv
<1>2. ASSUME NEW s \in Sides, Store(s) PROVE WindowInv'
  <2>1. CountInv'
    BY <1>2, SMTT(20) DEF Inv, WindowInv, TypeOK, Store, CountInv, ErrorInv, Handshake,
       Ahead
  <2>2. TurnInv'
    BY <1>2, SMT DEF Inv, WindowInv, TypeOK, Store, ErrorInv, ControlInv, Ctl,
       CountInv, TurnInv, Finished, Stored, Handshake
  <2>3. ReceiptInv'
    BY <1>2, SMT DEF Inv, WindowInv, TypeOK, Store, ControlInv, Ctl, ReceiptInv,
       Receives
  <2> QED
    BY <2>1, <2>2, <2>3 DEF WindowInv
<1>3. ASSUME NEW s \in Sides, Enter(s) PROVE WindowInv'
  <2>1. CountInv'
    BY <1>3, SMT DEF Inv, WindowInv, TypeOK, Enter, CountInv, ErrorInv, Handshake,
       Ahead
  <2>2. TurnInv'
    BY <1>3, SMT DEF Inv, WindowInv, TypeOK, Enter, ErrorInv, ControlInv, Ctl,
       CountInv, TurnInv, Finished, Stored, Handshake
  <2>3. ReceiptInv'
    BY <1>3, SMT DEF Inv, WindowInv, TypeOK, Enter, ReceiptInv, Receives
  <2> QED
    BY <2>1, <2>2, <2>3 DEF WindowInv
<1>4. ASSUME NEW s \in Sides, SetPeerActive(s) PROVE WindowInv'
  <2>1. CountInv'
    BY <1>4, SMTT(20) DEF Inv, WindowInv, TypeOK, SetPeerActive, Swaps, CountInv,
       ErrorInv, Handshake, Ahead
  <2>2. TurnInv'
    <3>1. CASE conn' = conn
      BY <1>4, <3>1, SMT DEF Inv, WindowInv, TypeOK, ErrorInv, SetPeerActive, Swaps,
         TurnInv, Finished, Stored
    <3>2. CASE conn' # conn
      <4>1. /\ conn = s /\ conn' = Peer(s) /\ pc[s] = "set" /\ pc'[Peer(s)] = pc[Peer(s)]
            /\ UNCHANGED <<pkt, sent, got, call, out, life>>
        BY <1>4, <3>2 DEF Inv, TypeOK, SetPeerActive, Swaps
      <4>2. ~Ctl(Peer(s)) /\ Ctl(s) /\ Stored(s)
        BY <4>1 DEF Inv, ControlInv, Ctl, Stored
      <4>3. ~Stored(Peer(s)) /\ pc[Peer(s)] # "store"
        BY <4>2 DEF Ctl, Stored
      <4>4. ~Finished(s)
        BY <4>1, <1>4 DEF Finished, Inv, ErrorInv, CountInv, WindowInv
      <4>5. /\ pkt = [from |-> s, n |-> sent[s]]
            /\ IF s = "client"
               THEN \/ sent["client"] = sent["server"] + 1
                    \/ life[s] = "new" /\ sent["client"] = 0 /\ sent["server"] = 0
               ELSE sent["client"] = sent["server"]
        BY <4>1, <4>2, <4>4 DEF WindowInv, TurnInv
      <4>6. ASSUME s = "client", sent["server"] = 0, ~Finished("server")
            PROVE  life["server"] = "new"
        BY <4>2, <4>6, SMT DEF Inv, TypeOK, Ctl, WindowInv, CountInv, Finished
      <4> QED
        BY <4>1, <4>3, <4>5, <4>6, SMT DEF TurnInv, Stored, Finished
    <3> QED
      BY <3>1, <3>2
  <2>3. ReceiptInv'
    BY <1>4, SMT DEF Inv, WindowInv, TypeOK, SetPeerActive, Swaps, ReceiptInv,
       Receives
  <2> QED
    BY <2>1, <2>2, <2>3 DEF WindowInv
<1>5. ASSUME NEW s \in Sides, Load(s) PROVE WindowInv'
  <2>1. CountInv'
    BY <1>5, SMT DEF Inv, WindowInv, TypeOK, Load, Answers, CountInv, ErrorInv,
       Handshake, Ahead
  <2>2. TurnInv'
    BY <1>5, SMT DEF Inv, WindowInv, TypeOK, Load, Answers, ErrorInv, ControlInv,
       Ctl, CountInv, TurnInv, Finished, Stored, Handshake
  <2>3. ReceiptInv'
    BY <1>5, SMT DEF Inv, WindowInv, TypeOK, Load, Answers, CountInv, TurnInv,
       ReceiptInv, Receives, Finished, Stored, Ahead, Handshake
  <2> QED
    BY <2>1, <2>2, <2>3 DEF WindowInv
<1>6. ASSUME NEW s \in Sides, Return(s) PROVE WindowInv'
  <2>1. CountInv'
    BY <1>6, SMTT(20) DEF Inv, WindowInv, TypeOK, Return, ErrorInv, CountInv,
       ReceiptInv, Receives, Handshake, Ahead
  <2>2. TurnInv'
    BY <1>6, SMT DEF Inv, WindowInv, TypeOK, Return, ErrorInv, ReceiptInv,
       Receives, TurnInv, CountInv, Finished, Stored, Handshake
  <2>3. ReceiptInv'
    BY <1>6, SMT DEF Inv, WindowInv, TypeOK, Return, ReceiptInv, Receives
  <2> QED
    BY <2>1, <2>2, <2>3 DEF WindowInv
<1>7. ASSUME NEW s \in Sides, Leave(s) PROVE WindowInv'
  <2>1. Calm
    BY <1>7 DEF Inv, TypeOK, Calm, Leave
  <2>2. Stays(s)
    BY <1>7 DEF Inv, WindowInv, CountInv, TypeOK, ErrorInv, Stays, Stored,
       Receives, Leave
  <2>3. Stays(Peer(s))
    BY <1>7 DEF Inv, WindowInv, CountInv, TypeOK, Stays, Stored, Receives, Leave
  <2> QED
    BY <2>1, <2>2, <2>3, WindowKept
<1>8. ASSUME NEW s \in Sides, WakePeer(s) PROVE WindowInv'
  <2>1. Calm
    BY <1>8 DEF Inv, TypeOK, Calm, WakePeer
  <2>2. /\ pc[s] = "wake" /\ pc'[s] = IF call[s] = "SendLast" THEN "return" ELSE "load"
        /\ \/ pc'[Peer(s)] = pc[Peer(s)]
           \/ pc[Peer(s)] = "asleep" /\ pc'[Peer(s)] = "load"
        /\ out' = out /\ call' = call
    <3>1. PICK W \in SUBSET Sides :
            W \subseteq Asleep /\ pc' = Woken(W, [pc EXCEPT ![s] =
                                   IF call[s] = "SendLast" THEN "return" ELSE "load"])
      BY <1>8 DEF WakePeer, Wakes
    <3>2. \A t \in W : t \in Sides /\ pc[t] = "asleep"
      BY <3>1 DEF Asleep
    <3>3. pc[s] = "wake" /\ s \notin W /\ pc \in [Sides -> Labels]
      BY <1>8, <3>2 DEF WakePeer, Inv, TypeOK
    <3>4. /\ pc'[s] = IF call[s] = "SendLast" THEN "return" ELSE "load"
          /\ pc'[Peer(s)] = IF Peer(s) \in W THEN "load" ELSE pc[Peer(s)]
      BY <3>1, <3>3 DEF Woken
    <3> QED
      BY <1>8, <3>2, <3>3, <3>4 DEF WakePeer
  <2>3. \A t \in Sides : Stays(t)
    BY <2>2, SMT DEF Inv, TypeOK, WindowInv, CountInv, Stays, Stored, Receives
  <2> QED
    BY <2>1, <2>2, <2>3, WindowKept
<1>9. ASSUME NEW s \in Sides, CheckLocal(s) PROVE WindowInv'
  <2>1. Calm
    BY <1>9, SMT DEF Inv, TypeOK, Calm, CheckLocal
  <2>2. Stays(s)
    BY <1>9, SMT DEF Inv, WindowInv, CountInv, TypeOK, ErrorInv, Stays, Stored,
       Receives, CheckLocal
  <2>3. Stays(Peer(s))
    BY <1>9, SMT DEF Inv, WindowInv, CountInv, TypeOK, Stays, Stored, Receives, CheckLocal
  <2> QED
    BY <2>1, <2>2, <2>3, WindowKept
<1>10. ASSUME NEW s \in Sides, FutexWait(s) PROVE WindowInv'
  <2>1. Calm
    BY <1>10 DEF Inv, TypeOK, Calm, FutexWait
  <2>2. Stays(s)
    BY <1>10 DEF Inv, WindowInv, CountInv, TypeOK, ErrorInv, Stays, Stored,
       Receives, FutexWait
  <2>3. Stays(Peer(s))
    BY <1>10 DEF Inv, WindowInv, CountInv, TypeOK, Stays, Stored, Receives, FutexWait
  <2> QED
    BY <2>1, <2>2, <2>3, WindowKept
<1>11. ASSUME NEW s \in Sides, Interrupted(s) PROVE WindowInv'
  <2>1. Calm
    BY <1>11 DEF Inv, TypeOK, Calm, Interrupted
  <2>2. Stays(s)
    BY <1>11 DEF Inv, WindowInv, CountInv, TypeOK, Stays, Stored, Receives, Interrupted
  <2>3. Stays(Peer(s))
    BY <1>11 DEF Inv, WindowInv, CountInv, TypeOK, Stays, Stored, Receives, Interrupted
  <2> QED
    BY <2>1, <2>2, <2>3, WindowKept
<1>12. ASSUME NEW s \in Sides, Exit(s) PROVE WindowInv'
  <2>1. Calm
    BY <1>12, SMTT(20) DEF Inv, TypeOK, Calm, Exit
  <2>2. Stays(s)
    BY <1>12, SMT DEF Inv, WindowInv, CountInv, TypeOK, ErrorInv, Stays, Stored,
       Receives, Exit, BitsInv, Blocked
  <2>3. Stays(Peer(s))
    BY <1>12, SMT DEF Inv, WindowInv, CountInv, TypeOK, Stays, Stored, Receives, Exit
  <2> QED
    BY <2>1, <2>2, <2>3, WindowKept
<1>13. ASSUME NEW s \in Sides, ExitSwap(s) PROVE WindowInv'
  <2>1. Calm
    BY <1>13 DEF Inv, TypeOK, Calm, ExitSwap
  <2>2. Stays(s)
    BY <1>13 DEF Inv, WindowInv, CountInv, TypeOK, ErrorInv, Stays, Stored,
       Receives, ExitSwap
  <2>3. Stays(Peer(s))
    BY <1>13 DEF Inv, WindowInv, CountInv, TypeOK, Stays, Stored, Receives, ExitSwap
  <2> QED
    BY <2>1, <2>2, <2>3, WindowKept
<1>14. ASSUME NEW s \in Sides, ExitWake(s) PROVE WindowInv'
  <2>1. Calm
    BY <1>14 DEF Inv, TypeOK, Calm, ExitWake
  <2>2. /\ pc[s] = "swapwake" /\ pc'[s] = "return"
        /\ \/ pc'[Peer(s)] = pc[Peer(s)]
           \/ pc[Peer(s)] = "asleep" /\ pc'[Peer(s)] = "load"
        /\ out' = out /\ call' = call
    <3>1. PICK W \in SUBSET Sides :
            W \subseteq Asleep /\ pc' = Woken(W, [pc EXCEPT ![s] = "return"])
      BY <1>14 DEF ExitWake, Wakes
    <3>2. \A t \in W : t \in Sides /\ pc[t] = "asleep"
      BY <3>1 DEF Asleep
    <3>3. pc[s] = "swapwake" /\ s \notin W /\ pc \in [Sides -> Labels]
      BY <1>14, <3>2 DEF ExitWake, Inv, TypeOK
    <3>4. /\ pc'[s] = "return"
          /\ pc'[Peer(s)] = IF Peer(s) \in W THEN "load" ELSE pc[Peer(s)]
      BY <3>1, <3>3 DEF Woken
    <3> QED
      BY <1>14, <3>2, <3>3, <3>4 DEF ExitWake
  <2>3. \A t \in Sides : Stays(t)
    BY <2>2, SMT DEF Inv, TypeOK, WindowInv, CountInv, Stays, Stored, Receives
  <2> QED
    BY <2>1, <2>2, <2>3, WindowKept
<1>15. ASSUME NEW s \in Sides, NEW k \in Closers(s), CallShutdown(s, k)
       PROVE  WindowInv'
  <2>1. Calm
    BY <1>15 DEF Inv, TypeOK, Calm, CallShutdown
  <2>2. pc' = pc /\ out' = out /\ call' = call
    BY <1>15 DEF CallShutdown
  <2>3. \A t \in Sides : Stays(t)
    BY <2>2 DEF Inv, TypeOK, WindowInv, CountInv, Stays, Stored, Receives
  <2> QED
    BY <2>1, <2>3, WindowKept
<1>16. ASSUME NEW s \in Sides, NEW k \in Closers(s), AddShutdown(s, k)
       PROVE  WindowInv'
  <2>1. Calm
    BY <1>16 DEF Inv, TypeOK, Calm, AddShutdown
  <2>2. pc' = pc /\ out' = out /\ call' = call
    BY <1>16 DEF AddShutdown
  <2>3. \A t \in Sides : Stays(t)
    BY <2>2 DEF Inv, TypeOK, WindowInv, CountInv, Stays, Stored, Receives
  <2> QED
    BY <2>1, <2>3, WindowKept
<1>17. ASSUME NEW s \in Sides, NEW k \in Closers(s), LookBlocked(s, k)
       PROVE  WindowInv'
  <2>1. Calm
    BY <1>17 DEF Inv, TypeOK, Calm, LookBlocked
  <2>2. pc' = pc /\ out' = out /\ call' = call
    BY <1>17 DEF LookBlocked
  <2>3. \A t \in Sides : Stays(t)
    BY <2>2 DEF Inv, TypeOK, WindowInv, CountInv, Stays, Stored, Receives
  <2> QED
    BY <2>1, <2>3, WindowKept
<1>18. ASSUME NEW s \in Sides, NEW k \in Closers(s), SwapConn(s, k)
       PROVE  WindowInv'
  <2>1. Calm
    BY <1>18 DEF Inv, TypeOK, Calm, SwapConn
  <2>2. pc' = pc /\ out' = out /\ call' = call
    BY <1>18 DEF SwapConn
  <2>3. \A t \in Sides : Stays(t)
    BY <2>2 DEF Inv, TypeOK, WindowInv, CountInv, Stays, Stored, Receives
  <2> QED
    BY <2>1, <2>3, WindowKept
<1>19. ASSUME NEW s \in Sides, NEW k \in Closers(s), WakeAll(s, k)
       PROVE  WindowInv'
  <2>1. Calm
    BY <1>19 DEF Inv, TypeOK, Calm, WakeAll
  <2>2. /\ \A t \in Sides : pc'[t] = pc[t] \/ (pc[t] = "asleep" /\ pc'[t] = "load")
        /\ out' = out /\ call' = call
    BY <1>19 DEF Inv, TypeOK, WakeAll, Wakes, Asleep, Woken
  <2>3. \A t \in Sides : Stays(t)
    BY <2>2, SMT DEF Inv, TypeOK, WindowInv, CountInv, Stays, Stored, Receives
  <2> QED
    BY <2>1, <2>3, WindowKept
<1>20. ASSUME NEW s \in Sides, NEW k \in Closers(s), SwapWake(s, k)
       PROVE  WindowInv'
  <2>1. Calm
    BY <1>20 DEF Inv, TypeOK, Calm, SwapWake
  <2>2. /\ \A t \in Sides : pc'[t] = pc[t] \/ (pc[t] = "asleep" /\ pc'[t] = "load")
        /\ out' = out /\ call' = call
    BY <1>20, SMT DEF Inv, TypeOK, SwapWake, Wakes, Asleep, Woken
  <2>3. \A t \in Sides : Stays(t)
    BY <2>2, SMT DEF Inv, TypeOK, WindowInv, CountInv, Stays, Stored, Receives
  <2> QED
    BY <2>1, <2>3, WindowKept
<1>21. CASE UNCHANGED vars
  <2>1. Calm /\ pc' = pc /\ out' = out /\ call' = call
    BY <1>21 DEF Inv, TypeOK, Calm, vars
  <2>2. \A t \in Sides : Stays(t)
    BY <2>1 DEF Inv, TypeOK, WindowInv, CountInv, Stays, Stored, Receives
  <2> QED
    BY <2>1, <2>2, WindowKept
<1> QED
  BY <1>1, <1>2, <1>3, <1>4, <1>5, <1>6, <1>7, <1>8, <1>9, <1>10, <1>11, <1>12,
     <1>13, <1>14, <1>15, <1>16, <1>17, <1>18, <1>19, <1>20, <1>21 DEF Next,
     User, Closer

(* What RecvFirst and SendRecv return is the peer's newest datagram and the *)
(* one after the last received, for any number of datagrams and whatever    *)
(* Shutdown does meanwhile: the window is not written between the peer's    *)
(* futexSetPeerActive and the return of the receiving call.                 *)
THEOREM DatagramsInOrder == Safety => []DatagramIsNext
<1>1. Init => Inv /\ WindowInv
  BY InitInv, WindowInit
<1>2. Inv /\ WindowInv /\ [Next]_vars => (Inv /\ WindowInv)'
  BY StepInv, WindowNext
<1>3. Inv /\ WindowInv => DatagramIsNext
  BY SMT DEF Inv, TypeOK, WindowInv, ReceiptInv, DatagramIsNext, Sides, Peer
<1> QED
  BY <1>1, <1>2, <1>3, PTL DEF Safety
=============================================================================
