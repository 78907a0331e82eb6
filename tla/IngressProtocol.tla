--------------------------- MODULE IngressProtocol ---------------------------
(***************************************************************************)
(* What the ingress relay promises the host about the frames of one        *)
(* connection ID (package comment of runsc/boot/ingress/ingress.go): after  *)
(* an OPEN the host reads at most one DIAL_RESULT; if the dial succeeded,   *)
(* the guest's DATA in order and at most one CLOSE_WRITE after the last of  *)
(* it; and a final CLOSE, after which nothing is read until the host opens  *)
(* the ID again.  IngressRelay is shown to implement this module.           *)
(***************************************************************************)
EXTENDS Naturals

CONSTANT Ids          \* connection IDs the host uses

VARIABLES
  view,               \* view[id]: phase of the connection, as read so far
  rcvd                \* rcvd[id]: last guest payload read in this phase

Phases == {"closed", "opening", "refused", "established", "halfclosed"}

Init ==
  /\ view = [id \in Ids |-> "closed"]
  /\ rcvd = [id \in Ids |-> 0]

Move(id, from, to) ==
  /\ view[id] \in from
  /\ view' = [view EXCEPT ![id] = to]

Open(id) ==
  /\ Move(id, {"closed"}, "opening")
  /\ rcvd' = [rcvd EXCEPT ![id] = 0]

DialOK(id)     == Move(id, {"opening"}, "established") /\ UNCHANGED rcvd
Refused(id)    == Move(id, {"opening"}, "refused") /\ UNCHANGED rcvd
CloseWrite(id) == Move(id, {"established"}, "halfclosed") /\ UNCHANGED rcvd
FinalClose(id) == Move(id, Phases \ {"closed"}, "closed") /\ UNCHANGED rcvd

Data(id) ==
  /\ view[id] = "established"
  /\ rcvd' = [rcvd EXCEPT ![id] = @ + 1]
  /\ UNCHANGED view

Next ==
  \E id \in Ids :
    \/ Open(id) \/ DialOK(id) \/ Refused(id)
    \/ Data(id) \/ CloseWrite(id) \/ FinalClose(id)

Spec == Init /\ [][Next]_<<view, rcvd>>
=============================================================================
