-------------------------------- MODULE Sleep --------------------------------
(***************************************************************************)
(* pkg/sleep: a goroutine sleeps on a Sleeper until one of the Wakers added *)
(* to it is asserted.  The lists are lock-free and threaded through the     *)
(* wakers, so one action is one atomic operation, or one iteration over     *)
(* memory that no other goroutine touches.  A load that only saves a later  *)
(* compare-and-swap or swap is part of it.  The goroutine uses one Sleeper  *)
(* after the other, with the same wakers.                                   *)
(***************************************************************************)
EXTENDS Integers, Sequences, Functions

CONSTANTS
  Wakers,             \* the wakers
  Threads,            \* goroutines that call Assert
  Sleepers,           \* bound: 1 .. the number of sleepers used in turn
  Nil,                \* the nil pointer
  Asserted            \* &assertedSleeper

Self == "self"        \* the sleeping goroutine, which also asserts wakers

ASSUME SleepAssumption ==
  /\ Nil \notin Wakers \cup Sleepers /\ Asserted \notin Sleepers
  /\ Self \notin Threads /\ 1 \in Sleepers

VARIABLES
  ws,                 \* Waker.s: Nil, Asserted or a sleeper
  next,               \* Waker.next
  shared, waiting,    \* of each sleeper: sharedList, and waitingG
  local, all,         \* of the sleeper in use: localList, allWakers
  push,               \* the enqueueAssertedWaker each goroutine is in
  cur,                \* the sleeper in use
  pc, op,             \* where the sleeping goroutine stands, in which call
  hand                \* the rest of the list it is reversing

lists == <<next, shared, local, all>>
vars  == <<ws, lists, waiting, push, cur, pc, op, hand>>

NoPush == [at |-> "idle", w |-> Nil, s |-> Nil, v |-> Nil]

Init ==
  /\ ws = [w \in Wakers |-> Nil] /\ next = [w \in Wakers |-> Nil]
  /\ shared = [s \in Sleepers |-> Nil] /\ waiting = [s \in Sleepers |-> "0"]
  /\ local = Nil /\ all = <<>>
  /\ push = [t \in Threads \cup {Self} |-> NoPush]
  /\ cur = 1 /\ pc = "ready" /\ op = "none" /\ hand = Nil

-----------------------------------------------------------------------------
(* Assert, Clear.  A waker that is cleared keeps its place in the list, so  *)
(* it must not go back to the sleeper's pointer: Assert would queue it twice.*)
Cleared_Sleeper(w) == IF w \in Range(all) THEN cur ELSE Nil        \* mutant
Cleared(w) == Nil

Start(t, w, s) ==
  push' = [push EXCEPT ![t] = [at |-> "load", w |-> w, s |-> s, v |-> Nil]]

(* The swap of Assert; the waker's sleeper, if it has one, is to be told.   *)
Assert(t, w) ==
  /\ ws' = [ws EXCEPT ![w] = Asserted]
  /\ IF ws[w] \in Sleepers THEN Start(t, w, ws[w]) ELSE UNCHANGED push

AssertBy(t, w) ==
  /\ push[t].at = "idle" /\ Assert(t, w)
  /\ UNCHANGED <<lists, waiting, cur, pc, op, hand>>

Clear(w) ==
  /\ ws[w] = Asserted
  /\ ws' = [ws EXCEPT ![w] = Cleared(w)]
  /\ UNCHANGED <<lists, waiting, push, cur, pc, op, hand>>

-----------------------------------------------------------------------------
(* enqueueAssertedWaker, in any goroutine.  A local that is not read again  *)
(* is forgotten.                                                            *)
At(t, l) == push' = [push EXCEPT ![t].at = l]

PushLoad(t) ==
  /\ push[t].at = "load"
  /\ LET v == shared[push[t].s]
     IN  /\ next' = [next EXCEPT ![push[t].w] = v]
         /\ push' = [push EXCEPT ![t].at = "cas", ![t].v = v]
  /\ UNCHANGED <<ws, shared, local, all, waiting, cur, pc, op, hand>>

Pushes_Blind(t) == TRUE                                            \* mutant
Pushes(t) == shared[push[t].s] = push[t].v

PushSwap(t) ==
  /\ push[t].at = "cas"
  /\ \/ /\ Pushes(t)
        /\ shared' = [shared EXCEPT ![push[t].s] = push[t].w]
        /\ push' = [push EXCEPT ![t] =
                      [at |-> "look", w |-> Nil, s |-> push[t].s, v |-> Nil]]
     \/ /\ ~Pushes(t) /\ UNCHANGED shared
        /\ push' = [push EXCEPT ![t].at = "load", ![t].v = Nil]
  /\ UNCHANGED <<ws, next, local, all, waiting, cur, pc, op, hand>>

Ends(t) == push' = [push EXCEPT ![t] = NoPush]

LookWaiting(t) ==
  /\ push[t].at = "look"
  /\ IF waiting[push[t].s] = "0" THEN Ends(t) ELSE At(t, "signal")
  /\ UNCHANGED <<ws, lists, waiting, cur, pc, op, hand>>

(* Goready wakes the goroutine that committed to sleep.                     *)
NotWaiting_Load(s) == waiting                                      \* mutant
NotWaiting(s) == [waiting EXCEPT ![s] = "0"]

Signal(t) ==
  /\ push[t].at = "signal"
  /\ waiting' = NotWaiting(push[t].s)
  /\ pc' = IF waiting[push[t].s] = "G" THEN "shared" ELSE pc
  /\ Ends(t)
  /\ UNCHANGED <<ws, lists, cur, op, hand>>

Push(t) == PushLoad(t) \/ PushSwap(t) \/ LookWaiting(t) \/ Signal(t)

-----------------------------------------------------------------------------
(* The sleeping goroutine.                                                  *)
Quiet == push[Self].at = "idle"
Step(a, b) == pc = a /\ pc' = b /\ Quiet

AddWaker(w) ==
  /\ Step("ready", "ready")
  /\ w \notin Range(all)
  /\ all' = <<w>> \o all
  /\ IF ws[w] = Asserted
     THEN Start(Self, w, cur) /\ UNCHANGED ws
     ELSE ws' = [ws EXCEPT ![w] = cur] /\ UNCHANGED push
  /\ UNCHANGED <<next, shared, local, waiting, cur, op, hand>>

(* nextWaker begins with the local list.                                    *)
NextWaker == IF local = Nil THEN "shared" ELSE "pop"

(* Fetch(false), Fetch(true); a sleeper without wakers would sleep for good.*)
Fetch(o) ==
  /\ Step("ready", NextWaker) /\ op' = o /\ all # <<>>
  /\ UNCHANGED <<ws, lists, waiting, push, cur, hand>>

AssertAndFetch(w) ==
  /\ Step("ready", NextWaker) /\ op' = "block" /\ w \in Range(all)
  /\ Assert(Self, w)
  /\ UNCHANGED <<lists, waiting, cur, hand>>

(* The rest of nextWaker.                                                   *)
SharedList ==
  /\ pc = "shared" /\ Quiet
  /\ IF shared[cur] # Nil THEN pc' = "take" /\ UNCHANGED op
     ELSE IF op = "nonblock" THEN pc' = "ready" /\ op' = "none"
     ELSE pc' = "prepare" /\ UNCHANGED op
  /\ UNCHANGED <<ws, lists, waiting, push, cur, hand>>

Prepare ==
  /\ Step("prepare", "again")
  /\ waiting' = [waiting EXCEPT ![cur] = "preparing"]
  /\ UNCHANGED <<ws, lists, push, cur, op, hand>>

LookAgain_Skip == "park"                                           \* mutant
LookAgain == IF shared[cur] # Nil THEN "abort" ELSE "park"

CheckAgain ==
  /\ Step("again", LookAgain)
  /\ UNCHANGED <<ws, lists, waiting, push, cur, op, hand>>

AbortSleep ==
  /\ Step("abort", "take")
  /\ waiting' = [waiting EXCEPT ![cur] = "0"]
  /\ UNCHANGED <<ws, lists, push, cur, op, hand>>

(* Gopark: commitSleep decides whether the goroutine stays asleep.          *)
Commits == waiting[cur] = "preparing"

CommitSleep ==
  /\ Step("park", IF Commits THEN "asleep" ELSE "shared")
  /\ waiting' = IF Commits THEN [waiting EXCEPT ![cur] = "G"] ELSE waiting
  /\ UNCHANGED <<ws, lists, push, cur, op, hand>>

Take ==
  /\ Step("take", "reverse")
  /\ hand' = shared[cur] /\ shared' = [shared EXCEPT ![cur] = Nil]
  /\ UNCHANGED <<ws, next, local, all, waiting, push, cur, op>>

Reverse1 ==
  /\ Step("reverse", IF next[hand] = Nil THEN "pop" ELSE "reverse")
  /\ hand' = next[hand] /\ local' = hand
  /\ next' = [next EXCEPT ![hand] = local]
  /\ UNCHANGED <<ws, shared, all, waiting, push, cur, op>>

(* The rest of fetch: the first waker is the sleeper's again.               *)
Rejoin ==
  /\ pc = "pop" /\ op # "done" /\ Quiet
  /\ local' = next[local] /\ ws' = [ws EXCEPT ![local] = cur]
  /\ IF ws[local] = Asserted
     THEN pc' = "ready" /\ op' = "none"
     ELSE pc' = NextWaker' /\ UNCHANGED op
  /\ UNCHANGED <<next, shared, all, waiting, push, cur, hand>>

-----------------------------------------------------------------------------
(* Done: wakers that point to the sleeper are let go, and for each other    *)
(* one a waker is taken from the list, where it is or is about to be.       *)
Done ==
  /\ Step("ready", "done") /\ op' = "done"
  /\ UNCHANGED <<ws, lists, waiting, push, cur, hand>>

Without(s, w) ==
  LET i == CHOOSE i \in DOMAIN s : s[i] = w
  IN  [k \in 1 .. Len(s) - 1 |-> s[IF k < i THEN k ELSE k + 1]]

LetGo(w) == next' = [next EXCEPT ![w] = Nil] /\ all' = Without(all, w)

Release ==
  /\ pc = "done" /\ all # <<>>
  /\ LET w == Head(all)
     IN  \/ /\ ws[w] = cur
            /\ ws' = [ws EXCEPT ![w] = Nil]
            /\ LetGo(w) /\ UNCHANGED pc
         \/ ws[w] # cur /\ pc' = NextWaker /\ UNCHANGED <<ws, next, all>>
  /\ UNCHANGED <<shared, local, waiting, push, cur, op, hand>>

Drop ==
  /\ pc = "pop" /\ op = "done" /\ pc' = "done"
  /\ local' = next[local] /\ LetGo(local)
  /\ UNCHANGED <<ws, shared, waiting, push, cur, op, hand>>

(* The next sleeper is a new one.                                           *)
Finished ==
  /\ pc = "done" /\ all = <<>>
  /\ op' = "none"
  /\ IF cur + 1 \in Sleepers THEN cur' = cur + 1 /\ pc' = "ready"
                             ELSE pc' = "over" /\ UNCHANGED cur
  /\ UNCHANGED <<ws, lists, waiting, push, hand>>

Working ==
  \/ Push(Self) \/ SharedList \/ Prepare \/ CheckAgain
  \/ AbortSleep \/ CommitSleep \/ Take \/ Reverse1 \/ Rejoin
  \/ Release \/ Drop \/ Finished

Next ==
  \/ \E t \in Threads : Push(t) \/ \E w \in Wakers : AssertBy(t, w)
  \/ \E w \in Wakers : Clear(w) \/ AddWaker(w) \/ AssertAndFetch(w)
  \/ Fetch("block") \/ Fetch("nonblock") \/ Done
  \/ Working

(* Goroutines run; nobody need assert a waker, and a compare-and-swap may   *)
(* fail again and again.                                                    *)
Fairness == WF_vars(Working) /\ \A t \in Threads : WF_vars(Push(t))

Safety == Init /\ [][Next]_vars
Spec   == Safety /\ Fairness

-----------------------------------------------------------------------------
(* The wakers of the list that begins at h, with nx as Waker.next: the      *)
(* least set that has h and, with a waker, the one it points to.            *)
ListOf(nx, h) ==
  {w \in Wakers :
     \A S \in SUBSET Wakers :
       h \in S \cup {Nil} /\ (\A x \in S : nx[x] \in S \cup {Nil}) => w \in S}
List(h) == ListOf(next, h)

(* Where the waker is queued, or on its way to a queue.                     *)
Places(w) ==
       {<<"shared", s>> : s \in {r \in Sleepers : w \in List(shared[r])}}
  \cup {<<"local", Nil>> : x \in {w} \cap List(local)}
  \cup {<<"reverse", Nil>> : x \in {y \in {w} : pc = "reverse" /\ y \in List(hand)}}
  \cup {<<"push", t>> : t \in {u \in DOMAIN push :
                               push[u].w = w /\ push[u].at \in {"load", "cas"}}}

(* A waker of the sleeper is queued exactly when it no longer points to the *)
(* sleeper, and then in one place only: whatever asserts and clears run, it *)
(* is never queued twice and never forgotten.  The lists have no cycles,    *)
(* and nextWaker follows no nil pointer.  After Done the wakers can be      *)
(* added to another sleeper, though calls of Assert that woke the first may *)
(* still run: no pointer is left, so AddWaker does not panic.               *)
QueuedOnce ==
  /\ \A w \in Wakers :
       Places(w) # {} <=> w \in Range(all) /\ ws[w] \notin Sleepers
  /\ \A w \in Wakers : \A p, q \in Places(w) : p = q
  /\ \A w \in Wakers : w \notin List(next[w])
  /\ pc = "reverse" => hand # Nil
  /\ pc = "pop" => local # Nil
  /\ \A w \in Wakers \ Range(all) : next[w] = Nil /\ ws[w] \in {Nil, Asserted}

(* Goready is only called on a goroutine that has parked, and on no one who *)
(* went on to another sleeper.                                              *)
ReadiesParked ==
  \A s \in Sleepers : waiting[s] = "G" <=> pc = "asleep" /\ cur = s

(* No wake-up is lost: a blocking Fetch returns if a waker of the sleeper   *)
(* has been asserted and queued and nobody clears it, however the others    *)
(* are asserted and cleared meanwhile.                                      *)
Listed(w) == \E p \in Places(w) : p[1] # "push"
FetchReturns ==
  \A w \in Wakers :
    (op = "block" /\ ws[w] = Asserted /\ Listed(w))
      ~> (op # "block" \/ ws[w] # Asserted)

(* Done waits for the calls of Assert that are about to queue a waker, and  *)
(* for nothing else: it returns.                                            *)
DoneReturns == op = "done" ~> op # "done"
=============================================================================
