---------------------------- MODULE MCIngressRelay ----------------------------
(* Instances of IngressRelay for TLC.                                        *)
EXTENDS IngressRelay, TLC

(* The relay compares IDs only for equality, so they are interchangeable.    *)
IdSymmetry == Permutations(Ids)

Bounds(ids, gens, data, moves, reads) ==
  [ids |-> ids, gens |-> gens, data |-> data, moves |-> moves, reads |-> reads]

(* One ID opened twice, with a payload each way; all IDs competing for the   *)
(* connections while host and guests fail and Close runs.                    *)
Reuse(id) == Bounds({id}, 2, 1, {"CLOSE_WRITE", "CLOSE", "GuestData", "GuestEOF"}, FALSE)
Teardown  == Bounds(Ids, 1, 0, {"HostBad", "HostVanish", "GuestError", "Close"}, FALSE)
SafetyPlans == {Reuse(id) : id \in Ids} \cup {Teardown}

(* Two payloads each way, late frames, guest errors and a host that reads.   *)
(* No one who reads: three payloads, which fill every queue, and then the    *)
(* host goes away or Close runs; one payload, and both.                      *)
Pumps == Bounds(Ids, 1, 2, {"CLOSE_WRITE", "CLOSE", "LateFrames", "GuestData",
                            "GuestEOF", "GuestError"}, TRUE)
Stalled(data, moves) == Bounds(Ids, 1, data, moves, FALSE)
LivenessPlans ==
  {Pumps, Stalled(3, {"HostVanish"}), Stalled(3, {"Close"}),
   Stalled(1, {"HostVanish", "Close"})}

(* A host that opens a connection and closes its end.                        *)
HostClosurePlans == {Bounds(Ids, 1, 0, {"HostVanish"}, FALSE)}
=============================================================================
