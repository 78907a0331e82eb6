--------------------------- MODULE EgressGateClient ---------------------------
(***************************************************************************)
(* egressGateClient of runsc/boot/network.go: concurrent checks of outbound *)
(* flows share one stream to the host.  A check takes its turn, writes one  *)
(* request and reads one verdict byte, within one deadline that also counts *)
(* the wait for the turn; Close may come at any time.                       *)
(*                                                                          *)
(* A verdict byte does not say which request it answers.  The model labels  *)
(* requests and replies with their check, and no step of the client looks   *)
(* at the label: the properties do.                                         *)
(***************************************************************************)
EXTENDS Sequences, Naturals

CONSTANTS
  Checks,             \* calls of CheckTCP, CheckUDP ("flow") and CheckL7 ("l7")
  NoCheck             \* nobody

ASSUME NoCheckAssumption == NoCheck \notin Checks

Kinds    == {"flow", "l7"}
Targets  == {"invalid", "oversized", "loopback", "routed"}
Verdicts == {"allow", "deny", "more", "unknown"}       \* bytes the host may send

VARIABLES
  pc,                 \* pc[c]: where the call stands
  kind, target,       \* what it asks
  expired,            \* its deadline has passed
  result,             \* what it returned
  late,               \* it was called after Close
  turn,               \* holder of c.turn
  stream,             \* "open", "done" (c.done closed), "closed" (c.conn too)
  requests, replies,  \* the two directions of the stream
  hostUp, said        \* the host; said[c]: its verdict on c

callVars == <<pc, kind, target, expired, result, late>>
hostVars == <<hostUp, said>>
vars     == <<callVars, turn, stream, requests, replies, hostVars>>

Init ==
  /\ pc = [c \in Checks |-> "idle"]
  /\ kind = [c \in Checks |-> "flow"] /\ target = [c \in Checks |-> "routed"]
  /\ expired = [c \in Checks |-> FALSE] /\ late = [c \in Checks |-> FALSE]
  /\ result = [c \in Checks |-> "none"]
  /\ turn = NoCheck /\ stream = "open"
  /\ requests = <<>> /\ replies = <<>>
  /\ hostUp = TRUE /\ said = [c \in Checks |-> "none"]

Goto(c, l) == pc' = [pc EXCEPT ![c] = l] /\ UNCHANGED result
Return(c, v) ==
  pc' = [pc EXCEPT ![c] = "done"] /\ result' = [result EXCEPT ![c] = v]

-----------------------------------------------------------------------------
(* CheckTCP, CheckUDP, CheckL7 and check: only a routed target asks.        *)
Refused(k, t) == t = "invalid" \/ (k = "l7" /\ t = "oversized")

Call(c, k, t) ==
  /\ pc[c] = "idle"
  /\ kind' = [kind EXCEPT ![c] = k] /\ target' = [target EXCEPT ![c] = t]
  /\ late' = [late EXCEPT ![c] = stream # "open"]
  /\ \/ Refused(k, t) /\ Return(c, "deny")
     \/ ~Refused(k, t) /\ t = "loopback" /\ Return(c, "allow")
     \/ ~Refused(k, t) /\ t # "loopback" /\ Goto(c, "enter")
  /\ UNCHANGED <<expired, turn, stream, requests, replies, hostVars>>

Expire(c) ==
  /\ pc[c] \notin {"idle", "done"} /\ ~expired[c]
  /\ expired' = [expired EXCEPT ![c] = TRUE]
  /\ UNCHANGED <<pc, kind, target, result, late, turn, stream, requests,
                 replies, hostVars>>

Rest == <<kind, target, expired, late, requests, replies, hostVars>>

(* The two selects on c.turn: the first does not wait, the second gives up  *)
(* at the deadline or on Close.                                             *)
Enter(c) ==
  /\ pc[c] \in {"enter", "queued"} /\ turn = NoCheck
  /\ turn' = c /\ Goto(c, "turn")
  /\ UNCHANGED <<Rest, stream>>

Queue(c) ==
  /\ pc[c] = "enter" /\ turn # NoCheck
  /\ Goto(c, "queued")
  /\ UNCHANGED <<Rest, turn, stream>>

GiveUp(c) ==
  /\ pc[c] = "queued" /\ (stream # "open" \/ expired[c])
  /\ Return(c, "deny")
  /\ UNCHANGED <<Rest, turn, stream>>

(* With the turn: c.done and the deadline are looked at once more.          *)
MustStop_NoDone(c) == expired[c]                                   \* mutant
MustStop(c)        == stream # "open" \/ expired[c]

Begin_Leak(c) ==                                                   \* mutant
  /\ pc[c] = "turn"
  /\ IF MustStop(c) THEN Return(c, "deny") ELSE Goto(c, "write")
  /\ UNCHANGED <<Rest, turn, stream>>

Begin(c) ==
  /\ pc[c] = "turn"
  /\ IF MustStop(c) THEN Return(c, "deny") /\ turn' = NoCheck
                    ELSE Goto(c, "write") /\ UNCHANGED turn
  /\ UNCHANGED <<Rest, stream>>

Write(c) ==
  /\ pc[c] = "write" /\ stream # "closed" /\ hostUp
  /\ requests' = Append(requests, c)
  /\ Goto(c, "read")
  /\ UNCHANGED <<kind, target, expired, late, turn, stream, replies, hostVars>>

(* SetDeadline and Write fail on a closed stream, Write also without a peer *)
(* and after the deadline; ReadFull likewise, once no reply is left.        *)
IOFails_NoDeadline(c) ==                                           \* mutant
  stream = "closed" \/ (~hostUp /\ (pc[c] = "read" => replies = <<>>))
IOFails(c) ==
  \/ stream = "closed" \/ expired[c]
  \/ ~hostUp /\ (pc[c] = "read" => replies = <<>>)

IOError(c) ==
  /\ pc[c] \in {"write", "read"} /\ IOFails(c)
  /\ Goto(c, "fail")
  /\ UNCHANGED <<Rest, turn, stream>>

(* One verdict byte.  A verdict the kind of check cannot have is an error.  *)
Accepts_More(k, v) == v \in {"allow", "deny", "more"}              \* mutant
Accepts(k, v)      == v \in {"allow", "deny"} \/ (v = "more" /\ k = "l7")

Read(c) ==
  /\ pc[c] = "read" /\ stream # "closed" /\ replies # <<>>
  /\ replies' = Tail(replies)
  /\ IF Accepts(kind[c], Head(replies).v)
       THEN Return(c, Head(replies).v) /\ turn' = NoCheck
       ELSE Goto(c, "fail") /\ UNCHANGED turn
  /\ UNCHANGED <<kind, target, expired, late, stream, requests, hostVars>>

(* A failed call runs Close, then returns and gives up its turn.            *)
CloseStream ==
  /\ stream = "open" /\ stream' = "done"
  /\ UNCHANGED <<callVars, turn, requests, replies, hostVars>>

FailClose(c) == pc[c] = "fail" /\ CloseStream

CloseConn_Never == FALSE /\ UNCHANGED vars                         \* mutant
CloseConn ==
  /\ stream = "done" /\ stream' = "closed"
  /\ UNCHANGED <<callVars, turn, requests, replies, hostVars>>

FailReady_Early == TRUE                                            \* mutant
FailReady       == stream = "closed"

FailReturn(c) ==
  /\ pc[c] = "fail" /\ FailReady
  /\ Return(c, "deny") /\ turn' = NoCheck
  /\ UNCHANGED <<Rest, stream>>

-----------------------------------------------------------------------------
(* The host answers each request it reads once, in order, when it likes, or *)
(* never; it may go away.                                                   *)
HostAnswer(v) ==
  /\ hostUp /\ requests # <<>>
  /\ requests' = Tail(requests)
  /\ replies' = Append(replies, [c |-> Head(requests), v |-> v])
  /\ said' = [said EXCEPT ![Head(requests)] = v]
  /\ UNCHANGED <<callVars, turn, stream, hostUp>>

HostVanish ==
  /\ hostUp /\ hostUp' = FALSE
  /\ UNCHANGED <<callVars, turn, stream, requests, replies, said>>

Step(c) ==
  \/ Enter(c) \/ Queue(c) \/ GiveUp(c) \/ Begin(c) \/ Write(c) \/ IOError(c)
  \/ Read(c) \/ FailClose(c) \/ FailReturn(c)

Next ==
  \/ \E c \in Checks :
       \/ \E k \in Kinds, t \in Targets : Call(c, k, t)
       \/ Expire(c) \/ Step(c)
  \/ CloseStream \/ CloseConn
  \/ \E v \in Verdicts : HostAnswer(v)
  \/ HostVanish

(* Goroutines run; a begun Close finishes.  Nothing is asked of the host,   *)
(* no one need call Close, and no deadline need ever pass.                  *)
Running == WF_vars(CloseConn) /\ \A c \in Checks : WF_vars(Step(c))
Safety  == Init /\ [][Next]_vars
Spec    == Safety /\ Running

-----------------------------------------------------------------------------
Replies == [c : Checks, v : Verdicts]

(* Types of the client's and the host's state.                              *)
TypeOK ==
  /\ pc \in [Checks -> {"idle", "enter", "queued", "turn", "write", "read",
                        "fail", "done"}]
  /\ kind \in [Checks -> Kinds] /\ target \in [Checks -> Targets]
  /\ expired \in [Checks -> BOOLEAN] /\ late \in [Checks -> BOOLEAN]
  /\ result \in [Checks -> {"none", "allow", "deny", "more"}]
  /\ \A c \in Checks : result[c] = "more" => kind[c] = "l7"
  /\ turn \in Checks \cup {NoCheck}
  /\ stream \in {"open", "done", "closed"}
  /\ requests \in Seq(Checks) /\ replies \in Seq(Replies)
  /\ hostUp \in BOOLEAN /\ said \in [Checks -> Verdicts \cup {"none"}]

(* "No later flow is ever judged by a stale verdict": a check that went to  *)
(* the host returns allow or need-more only if that is the host's own       *)
(* answer to its own request (checkUntil closes the stream on any failure   *)
(* between a request and its reply).                                        *)
NoStaleVerdict ==
  \A c \in Checks :
    result[c] \in {"allow", "more"} /\ target[c] # "loopback" =>
      said[c] = result[c]

(* The turn is given back, and with a clean stream: no check that returned  *)
(* has it, which would make every later check wait out its deadline, and    *)
(* while nobody has it a usable stream is empty in both directions, so that *)
(* the next check starts at a boundary of request and reply.                *)
TurnDiscipline ==
  /\ turn # NoCheck => pc[turn] \in {"turn", "write", "read", "fail"}
  /\ turn = NoCheck /\ stream = "open" => requests = <<>> /\ replies = <<>>

(* "Close denies future egress checks": a routed check called after Close   *)
(* is never allowed, whatever is still in the stream.                       *)
ClosedDenies ==
  \A c \in Checks : late[c] /\ target[c] # "loopback" =>
    result[c] \in {"none", "deny"}

(* A check whose deadline has passed returns, whether or not the host       *)
(* answers and whoever has the turn: the deadline also bounds the wait.     *)
ChecksReturn == \A c \in Checks : expired[c] ~> (pc[c] = "done")

(* Close "unblocks queued and active checks" without any deadline passing.  *)
CloseUnblocks ==
  \A c \in Checks : (stream # "open" /\ pc[c] # "idle") ~> (pc[c] = "done")
=============================================================================
