------------------------ MODULE EgressGateClientProofs ------------------------
(***************************************************************************)
(* Proofs about EgressGateClient, for any set of concurrent checks.  The    *)
(* invariant that carries them is about the stream: until it is closed, a   *)
(* request or a reply in it belongs to the check that has the turn, which   *)
(* is reading or has failed.                                                *)
(***************************************************************************)
EXTENDS EgressGateClient, TLAPS

HasTurn == {"turn", "write", "read", "fail"}

(* The turn's holder is the one check that is past the selects.             *)
TurnInv == \A c \in Checks : pc[c] \in HasTurn <=> turn = c

(* What is in a stream that is not closed.                                  *)
StreamInv ==
  stream # "closed" =>
    \/ requests = <<>> /\ replies = <<>>
    \/ /\ turn \in Checks /\ pc[turn] \in {"read", "fail"}
       /\ \/ requests = <<turn>> /\ replies = <<>>
          \/ requests = <<>> /\ replies = <<[c |-> turn, v |-> said[turn]]>>

(* A check with a request in the stream has returned nothing but a refusal. *)
ResultInv ==
  /\ \A c \in Checks : pc[c] # "done" => result[c] = "none"
  /\ \A i \in 1..Len(requests) :
       /\ pc[requests[i]] # "idle" /\ result[requests[i]] \in {"none", "deny"}

(* A check called after Close never gets to the stream.                     *)
LateInv ==
  \A c \in Checks : late[c] =>
    /\ stream # "open"
    /\ pc[c] \in {"enter", "queued", "turn", "done"}

Inv == /\ TypeOK /\ TurnInv /\ StreamInv /\ ResultInv /\ LateInv
       /\ NoStaleVerdict /\ ClosedDenies

(* What the queue operations do to the one-element queues of StreamInv.     *)
LEMMA QueueFacts ==
  ASSUME NEW S, NEW x \in S
  PROVE  /\ Append(<<>>, x) = <<x>> /\ Head(<<x>>) = x /\ Tail(<<x>>) = <<>>
         /\ <<x>> # <<>> /\ <<x>> \in Seq(S) /\ Len(<<x>>) = 1 /\ <<x>>[1] = x
  OBVIOUS

(* Removing the first element leaves elements that were there.              *)
LEMMA TailFacts ==
  ASSUME NEW S, NEW q \in Seq(S), q # <<>>
  PROVE  /\ Tail(q) \in Seq(S) /\ Head(q) \in S /\ Head(q) = q[1] /\ 1 \in 1..Len(q)
         /\ \A i \in 1..Len(Tail(q)) : i + 1 \in 1..Len(q) /\ Tail(q)[i] = q[i + 1]
  OBVIOUS

(* The initial states satisfy the invariant.                                *)
LEMMA InitInv == Init => Inv
  BY NoCheckAssumption DEF Init, Inv, TypeOK, TurnInv, StreamInv, ResultInv,
     LateInv, NoStaleVerdict, ClosedDenies, HasTurn, Kinds,
     Targets, Verdicts, Replies

(* Every step preserves the invariant, one case per action.                 *)
LEMMA StepInv == Inv /\ [Next]_vars => Inv'
<1> SUFFICES ASSUME Inv, [Next]_vars PROVE Inv'
  OBVIOUS
<1> USE NoCheckAssumption DEF Inv, TypeOK, TurnInv, StreamInv, ResultInv,
      LateInv, NoStaleVerdict, ClosedDenies, HasTurn, Kinds,
      Targets, Verdicts, Replies, hostVars, callVars
<1>1. ASSUME NEW c \in Checks, NEW k \in Kinds, NEW t \in Targets, Call(c, k, t)
      PROVE  Inv'
  <2>1. TypeOK' /\ TurnInv' /\ StreamInv'
    BY <1>1 DEF Call, Refused, Return, Goto
  <2>2. ResultInv'
    BY <1>1 DEF Call, Refused, Return, Goto
  <2>3. LateInv'
    BY <1>1 DEF Call, Refused, Return, Goto
  <2>4. NoStaleVerdict' /\ ClosedDenies'
    BY <1>1 DEF Call, Refused, Return, Goto
  <2> QED BY <2>1, <2>2, <2>3, <2>4
<1>2. ASSUME NEW c \in Checks, Expire(c) PROVE Inv'
  BY <1>2 DEF Expire
<1>3. ASSUME NEW c \in Checks, Enter(c) PROVE Inv'
  BY <1>3 DEF Enter, Goto, Rest
<1>4. ASSUME NEW c \in Checks, Queue(c) PROVE Inv'
  BY <1>4 DEF Queue, Goto, Rest
<1>5. ASSUME NEW c \in Checks, GiveUp(c) PROVE Inv'
  BY <1>5 DEF GiveUp, Return, Rest
<1>6. ASSUME NEW c \in Checks, Begin(c) PROVE Inv'
  <2>1. TypeOK' /\ TurnInv' /\ StreamInv'
    BY <1>6 DEF Begin, MustStop, Return, Goto, Rest
  <2>2. ResultInv'
    BY <1>6 DEF Begin, Return, Goto, Rest
  <2>3. LateInv'
    BY <1>6 DEF Begin, MustStop, Return, Goto, Rest
  <2>4. UNCHANGED <<late, target, said>>
        /\ \A d \in Checks : result'[d] = result[d] \/ result'[d] = "deny"
    BY <1>6 DEF Begin, Return, Goto, Rest
  <2>5. NoStaleVerdict' /\ ClosedDenies'
    BY <2>4
  <2> QED BY <2>1, <2>2, <2>3, <2>5
<1>7. ASSUME NEW c \in Checks, Write(c) PROVE Inv'
  <2>1. turn = c /\ requests = <<>> /\ replies = <<>> /\ result[c] = "none"
    BY <1>7 DEF Write
  <2>2. requests' = <<c>>
    BY <1>7, <2>1, QueueFacts DEF Write
  <2>3. TypeOK' /\ TurnInv' /\ LateInv'
    BY <1>7, <2>1, <2>2, QueueFacts DEF Write, Goto
  <2>4. StreamInv' /\ ResultInv'
    BY <1>7, <2>1, <2>2, QueueFacts DEF Write, Goto
  <2>5. NoStaleVerdict' /\ ClosedDenies'
    BY <1>7 DEF Write, Goto
  <2> QED BY <2>3, <2>4, <2>5
<1>8. ASSUME NEW c \in Checks, IOError(c) PROVE Inv'
  BY <1>8 DEF IOError, Goto, Rest
<1>9. ASSUME NEW c \in Checks, Read(c) PROVE Inv'
  <2> DEFINE v == Head(replies).v
  <2>1. /\ turn = c /\ requests = <<>> /\ replies = <<[c |-> c, v |-> said[c]]>>
        /\ result[c] = "none" /\ ~late[c]
    BY <1>9 DEF Read
  <2>2. v = said[c] /\ v \in Verdicts /\ replies' = <<>>
    BY <1>9, <2>1, QueueFacts DEF Read
  <2>3. TypeOK'
    BY <1>9, <2>2 DEF Read, Accepts, Return, Goto
  <2>4. TurnInv' /\ LateInv'
    BY <1>9, <2>1 DEF Read, Return, Goto
  <2>5. StreamInv'
    BY <1>9, <2>1, <2>2 DEF Read, Return, Goto
  <2>6. ResultInv'
    BY <1>9, <2>1 DEF Read, Return, Goto
  <2>7. NoStaleVerdict' /\ ClosedDenies'
    BY <1>9, <2>1, <2>2 DEF Read, Accepts, Return, Goto
  <2> QED BY <2>3, <2>4, <2>5, <2>6, <2>7
<1>10. ASSUME NEW c \in Checks, FailReturn(c) PROVE Inv'
  BY <1>10 DEF FailReturn, FailReady, Return, Rest
<1>11. ASSUME CloseStream \/ CloseConn PROVE Inv'
  BY <1>11 DEF CloseStream, CloseConn
<1>12. ASSUME NEW v \in Verdicts, HostAnswer(v) PROVE Inv'
  <2> DEFINE x == Head(requests)
  <2>1. requests \in Seq(Checks) /\ requests # <<>> /\ x \in Checks
    BY <1>12, TailFacts DEF HostAnswer
  <2>2. result[x] \in {"none", "deny"}
    BY <1>12, <2>1, TailFacts DEF HostAnswer
  <2>3. [c |-> x, v |-> v] \in Replies
    BY <2>1
  <2>4. TypeOK' /\ TurnInv' /\ LateInv'
    BY <1>12, <2>1, <2>3, TailFacts DEF HostAnswer
  <2>5. StreamInv'
    <3> SUFFICES ASSUME stream # "closed" PROVE StreamInv'
      BY <1>12 DEF HostAnswer
    <3>1. /\ turn \in Checks /\ pc[turn] \in {"read", "fail"}
          /\ requests = <<turn>> /\ replies = <<>>
      BY <2>1
    <3>2. x = turn /\ requests' = <<>>
      BY <1>12, <3>1, QueueFacts DEF HostAnswer
    <3>3. replies' = <<[c |-> turn, v |-> v]>> /\ said'[turn] = v
      BY <1>12, <3>1, <3>2, <2>3, QueueFacts DEF HostAnswer
    <3> QED BY <1>12, <3>1, <3>2, <3>3 DEF HostAnswer
  <2>6. ResultInv'
    BY <1>12, <2>1, TailFacts DEF HostAnswer
  <2>7. NoStaleVerdict' /\ ClosedDenies'
    BY <1>12, <2>1, <2>2 DEF HostAnswer
  <2> QED BY <2>4, <2>5, <2>6, <2>7
<1>13. ASSUME HostVanish PROVE Inv'
  BY <1>13 DEF HostVanish
<1>14. ASSUME UNCHANGED vars PROVE Inv'
  BY <1>14 DEF vars
<1> HIDE DEF Inv
<1> QED
  BY <1>1, <1>2, <1>3, <1>4, <1>5, <1>6, <1>7, <1>8, <1>9, <1>10, <1>11,
     <1>12, <1>13, <1>14 DEF Next, Step, FailClose

(* Type correctness of the client, for any set of checks.                   *)
THEOREM TypeCorrect == Safety => []TypeOK
<1>1. Inv => TypeOK
  BY DEF Inv
<1> QED
  BY InitInv, StepInv, <1>1, PTL DEF Safety

(* No flow is allowed, or told to wait for more, by an answer of the host   *)
(* to another flow or by none, however checks, deadlines, Close and late    *)
(* answers interleave.                                                      *)
THEOREM VerdictsAreOwn == Safety => []NoStaleVerdict
<1>1. Inv => NoStaleVerdict
  BY DEF Inv
<1> QED
  BY InitInv, StepInv, <1>1, PTL DEF Safety

(* The turn is never held by a check that has returned, and a check always  *)
(* starts on an empty stream.                                               *)
THEOREM TurnsAreClean == Safety => []TurnDiscipline
<1>1. Inv => (turn # NoCheck => pc[turn] \in {"turn", "write", "read", "fail"})
  BY DEF Inv, TypeOK, TurnInv, HasTurn
<1>2. Inv => (turn = NoCheck /\ stream = "open" =>
                requests = <<>> /\ replies = <<>>)
  BY NoCheckAssumption DEF Inv, StreamInv
<1>3. Inv => TurnDiscipline
  BY <1>1, <1>2 DEF TurnDiscipline
<1> QED
  BY InitInv, StepInv, <1>3, PTL DEF Safety

(* Close fails closed: no routed check that comes after it is allowed.      *)
THEOREM CloseFailsClosed == Safety => []ClosedDenies
<1>1. Inv => ClosedDenies
  BY DEF Inv
<1> QED
  BY InitInv, StepInv, <1>1, PTL DEF Safety
=============================================================================
