--------------------------------- MODULE RPC ---------------------------------
(***************************************************************************)
(* What a LISAFS client is promised of its calls, whatever carries them: a  *)
(* call that succeeds was executed, none is executed twice or before it is  *)
(* made, and a call that fails may still be executed, once.                 *)
(***************************************************************************)
EXTENDS Naturals

CONSTANT Calls

VARIABLES call, execs

vars == <<call, execs>>

Init == call = [c \in Calls |-> "idle"] /\ execs = [c \in Calls |-> 0]

(* Calls begin, several goroutines at once or one by one.                   *)
Invoke ==
  /\ call' \in [Calls -> {"idle", "pending", "ok", "err"}]
  /\ \A c \in Calls : call'[c] = call[c] \/ <<call[c], call'[c]>> = <<"idle", "pending">>
  /\ UNCHANGED execs

Execute(c) ==
  /\ call[c] # "idle" /\ execs[c] = 0
  /\ execs' = [execs EXCEPT ![c] = 1] /\ UNCHANGED call

Succeed(c) ==
  /\ call[c] = "pending" /\ execs[c] = 1
  /\ call' = [call EXCEPT ![c] = "ok"] /\ UNCHANGED execs

Fail(c) ==
  /\ call[c] = "pending" /\ call' = [call EXCEPT ![c] = "err"]
  /\ UNCHANGED execs

Next == Invoke \/ \E c \in Calls : Execute(c) \/ Succeed(c) \/ Fail(c)

Spec == Init /\ [][Next]_vars
=============================================================================
