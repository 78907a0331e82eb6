------------------------------ MODULE EgressFlow ------------------------------
(***************************************************************************)
(* A TCP endpoint of the sentry's netstack under the egress gate: the gate  *)
(* check of connect, the hold on the first payload until the host has       *)
(* classified it (Write, shutdownLocked, classifyEgressL7), the sender that *)
(* honours the hold, and checkpoint and restore of the endpoint and of the  *)
(* stack's gate.                                                            *)
(*                                                                          *)
(* A byte is named after the thread that wrote it.  A segment is a sequence *)
(* of bytes, the FIN is <<>>.  The endpoint is one record because it is     *)
(* saved as a whole; image is the last checkpoint.                          *)
(***************************************************************************)
EXTENDS Integers, Sequences

CONSTANTS
  Writers,            \* guest threads writing to the socket
  SniffLimit,         \* egressL7SniffLimit, in bytes
  MaxRounds,          \* egressL7MaxRounds
  SndBuf,             \* send buffer, in bytes
  MaxSegs,            \* bound: segments a flow queues
  MaxSaves            \* bound: checkpoints and restores

ASSUME BoundsAssumption ==
  /\ SniffLimit \in Nat \ {0} /\ MaxRounds \in Nat \ {0}
  /\ SndBuf \in Nat \ {0} /\ MaxSegs \in Nat /\ MaxSaves \in Nat

VARIABLES
  ep,                 \* the endpoint
  wr,                 \* wr[w]: "idle", or "copy" in readFromPayloader, unlocked
  gate,               \* stack.egressGate: "nil", "live" or "missing"
  gated,              \* stack.egressGated
  live,               \* AllowLiveTCPMigration
  up,                 \* the sandbox runs
  image,              \* the last checkpoint, if one was taken
  saves               \* checkpoints and restores so far

stackVars == <<gate, gated, live, up>>
vars == <<ep, wr, stackVars, image, saves>>

Connected == {"Established", "FinWait"}
Handshake == {"SynSent"}
Closed    == {"Error", "Close"}

(* Ghost fields: admitted, the flow was opened under a gate; allowed, the    *)
(* host has answered allow; seen, the prefix it was last shown; sent, the   *)
(* segments transmitted at least once; here, payload has left since the     *)
(* last restore; by, who let the flow exist in this incarnation.  held is   *)
(* egressL7Terminate: restored from a checkpoint taken under the hold.      *)
NewEndpoint ==
  [state |-> "Initial", req |-> FALSE, hold |-> FALSE, prefix |-> <<>>,
   rounds |-> 0, term |-> FALSE, segs |-> <<>>, una |-> 0, next |-> 0,
   used |-> 0, sndClosed |-> FALSE, shut |-> {},
   admitted |-> FALSE, allowed |-> FALSE, seen |-> <<>>, sent |-> {},
   here |-> FALSE, by |-> "none", held |-> FALSE]

Init ==
  /\ ep = NewEndpoint /\ wr = [w \in Writers |-> "idle"]
  /\ gate \in {"nil", "live"} /\ gated = (gate = "live")
  /\ live \in BOOLEAN /\ up = TRUE /\ saves = 0
  /\ image = [taken |-> FALSE, ep |-> NewEndpoint, gated |-> FALSE]

-----------------------------------------------------------------------------
(* The sender: writeList is segs after the una acknowledged ones, writeNext *)
(* is next, 0 for nil.                                                      *)
FrontSeg(e) == IF e.una < Len(e.segs) THEN e.una + 1 ELSE 0

(* sender.sendData: the windows let k segments go.                          *)
Transmit_NoHold(e, k) ==                                           \* mutant
  LET last == IF e.next + k - 1 < Len(e.segs) THEN e.next + k - 1
                                              ELSE Len(e.segs)
  IN  IF e.next = 0 THEN e
      ELSE [e EXCEPT !.next = IF last = Len(e.segs) THEN 0 ELSE last + 1,
                     !.sent = @ \cup e.next .. last,
                     !.here = @ \/ \E i \in e.next .. last : e.segs[i] # <<>>]

Transmit(e, k) ==
  LET last == IF e.next + k - 1 < Len(e.segs) THEN e.next + k - 1
                                              ELSE Len(e.segs)
  IN  IF e.hold \/ e.next = 0 THEN e
      ELSE [e EXCEPT !.next = IF last = Len(e.segs) THEN 0 ELSE last + 1,
                     !.sent = @ \cup e.next .. last,
                     !.here = @ \/ \E i \in e.next .. last : e.segs[i] # <<>>]

(* Endpoint.sendData after s was pushed at the back.                        *)
SendData(e, k) ==
  Transmit(IF e.next = 0 THEN [e EXCEPT !.next = Len(e.segs)] ELSE e, k)

(* purgeWriteQueue; there is no sender before the handshake is over.        *)
Purge(e) ==
  IF e.state \notin Connected THEN e
  ELSE [e EXCEPT !.segs = <<>>, !.una = 0, !.next = 0, !.used = 0,
                 !.sndClosed = TRUE]

(* resetConnectionLocked and handshakeFailed.                               *)
Reset(e) == [Purge(e) EXCEPT !.state = "Error"]

-----------------------------------------------------------------------------
(* classifyEgressL7 and denyEgressL7; v is the host's verdict.              *)
Verdicts == IF gate = "live" /\ ep.req THEN {"allow", "more", "deny"} ELSE {"deny"}

Decided(e) ==
  [e EXCEPT !.req = FALSE, !.hold = FALSE, !.prefix = <<>>, !.rounds = 0]
Deny(e) == Reset(Decided(e))

Release_Stay(e) ==                                                 \* mutant
  [Decided(e) EXCEPT !.allowed = TRUE, !.by = "gate"]
Release(e) ==
  [Decided(e) EXCEPT !.next = FrontSeg(e), !.allowed = TRUE, !.by = "gate"]

NoMore_Limit(e, final) == Len(e.prefix) = SniffLimit               \* mutant
NoMore(e, final) == final \/ Len(e.prefix) = SniffLimit

Classify(e, final, v) ==
  LET asked == [e EXCEPT !.rounds = @ + 1, !.seen = e.prefix]
  IN  CASE ~e.req -> e
        [] e.req /\ (e.rounds >= MaxRounds \/ gate = "nil") -> Deny(e)
        [] OTHER -> CASE v = "deny" -> Deny(asked)
                      [] v = "more" /\ NoMore(e, final) -> Deny(asked)
                      [] v = "more" /\ ~NoMore(e, final) ->
                           [asked EXCEPT !.hold = TRUE]
                      [] OTHER -> Release(asked)

(* appendEgressL7Prefix.                                                    *)
Remaining(e) == SniffLimit - Len(e.prefix)

AppendPrefix_Last(e, seg) ==                                       \* mutant
  [e EXCEPT !.prefix = IF Len(seg) > SniffLimit THEN @ ELSE seg]
AppendPrefix(e, seg) ==
  [e EXCEPT !.prefix =
     @ \o SubSeq(seg, 1, IF Len(seg) < Remaining(e) THEN Len(seg)
                                                    ELSE Remaining(e))]

-----------------------------------------------------------------------------
(* connect(handshake = true); ok is the gate's verdict on the destination.  *)
Required(h) == gate # "nil" /\ h

Connect(ok) ==
  /\ up /\ ep.state = "Initial"
  /\ gate = "missing" => ~ok
  /\ ok \/ gate # "nil"
  /\ ep' = IF ~ok THEN ep
           ELSE [ep EXCEPT !.state = "SynSent", !.req = Required(TRUE),
                           !.segs = <<>>, !.una = 0, !.next = 0,
                           !.admitted = gate # "nil", !.allowed = FALSE,
                           !.seen = <<>>, !.sent = {}, !.here = FALSE,
                           !.by = "gate", !.held = FALSE]
  /\ UNCHANGED <<wr, stackVars, image, saves>>

(* The peer completes the handshake; or a listener's new endpoint.          *)
Establish ==
  /\ up /\ ep.state = "SynSent"
  /\ ep' = [ep EXCEPT !.state = "Established"]
  /\ UNCHANGED <<wr, stackVars, image, saves>>

Accept ==
  /\ up /\ ep = NewEndpoint
  /\ ep' = [ep EXCEPT !.state = "Established", !.by = "exempt"]
  /\ UNCHANGED <<wr, stackVars, image, saves>>

(* Write: queueSegment copies the payload with the endpoint unlocked, and   *)
(* looks again at the endpoint before it queues the segment.                *)
Avail(e) == SndBuf - e.used
Writable(e) == e.state \in Connected /\ ~e.sndClosed /\ Avail(e) > 0

StartWrite(w) ==
  /\ up /\ wr[w] = "idle" /\ Writable(ep) /\ Len(ep.segs) < MaxSegs
  /\ wr' = [wr EXCEPT ![w] = "copy"]
  /\ UNCHANGED <<ep, stackVars, image, saves>>

FinishWrite(w, n, v, k) ==
  /\ wr[w] = "copy" /\ wr' = [wr EXCEPT ![w] = "idle"]
  /\ LET size == IF n < Avail(ep) THEN n ELSE Avail(ep)
         seg  == [i \in 1 .. size |-> w]
         q    == [ep EXCEPT !.segs = Append(@, seg), !.used = @ + size]
         c    == IF q.req THEN Classify(AppendPrefix(q, seg), FALSE, v) ELSE q
     IN  ep' = IF ~Writable(ep) THEN ep
               ELSE IF c.state = "Error" \/ c.hold THEN c
               ELSE SendData(c, k)
  /\ UNCHANGED <<stackVars, image, saves>>

(* Shutdown and the shutdown half of Close; unread: the guest has not read  *)
(* all it received.                                                         *)
Final(e, v) == IF "W" \in e.shut THEN Classify(e, TRUE, v) ELSE e

Shutdown(flags, unread, v, k) ==
  /\ up /\ ep.state \in Connected \cup Handshake
  /\ LET c == Final([ep EXCEPT !.shut = @ \cup flags], v)
         f == [c EXCEPT !.segs = Append(@, <<>>), !.state = "FinWait",
                        !.sndClosed = TRUE]
     IN  ep' = IF ep.state \in Handshake THEN Reset(ep)
               ELSE IF c.state = "Error" THEN c
               ELSE IF c.shut = {"R", "W"} /\ unread THEN Reset(c)
               ELSE IF "W" \in c.shut /\ ~c.sndClosed THEN SendData(f, k)
               ELSE c
  /\ UNCHANGED <<wr, stackVars, image, saves>>

(* The peer acknowledges a segment, or only moves the window.               *)
Outstanding(e) == e.una < Len(e.segs) /\ e.una + 1 \in e.sent

LogicalLen(seg) == IF seg = <<>> THEN 1 ELSE Len(seg)

AckOne(e) ==
  LET a == [e EXCEPT !.una = @ + 1, !.used = @ - LogicalLen(e.segs[e.una + 1])]
  IN  IF e.next = e.una + 1 THEN [a EXCEPT !.next = FrontSeg(a)] ELSE a

Ack(k) ==
  /\ up /\ ep.state \in Connected
  /\ \/ ep' = Transmit(ep, k)
     \/ Outstanding(ep) /\ ep' = Transmit(AckOne(ep), k)
  /\ UNCHANGED <<wr, stackVars, image, saves>>

(* retransmitTimerExpired: something was sent and not acknowledged.         *)
RetransmitTimer(k) ==
  /\ up /\ ep.state \in Connected /\ Outstanding(ep)
  /\ ep' = Transmit([ep EXCEPT !.next = FrontSeg(ep)], k)
  /\ UNCHANGED <<wr, stackVars, image, saves>>

(* updateMaxPayloadSize on "packet too big": rewind writeNext to the first  *)
(* queued segment over the limit m.                                         *)
PathMTU(m, k) ==
  /\ up /\ ep.state \in Connected
  /\ LET End == IF ep.next = 0 THEN Len(ep.segs) ELSE ep.next - 1
         big == {i \in ep.una + 1 .. End : Len(ep.segs[i]) > m}
     IN  \/ big = {} /\ ep' = Transmit(ep, k)
         \/ \E i \in big : /\ \A j \in big : i <= j
                           /\ ep' = Transmit([ep EXCEPT !.next = i], k)
  /\ UNCHANGED <<wr, stackVars, image, saves>>

(* A reset from the peer, a timeout, an abort with linger; or the peer has  *)
(* acknowledged our FIN and sent its own.                                   *)
Abort ==
  /\ up /\ ep.state \in Connected \cup Handshake
  /\ ep' = Reset(ep)
  /\ UNCHANGED <<wr, stackVars, image, saves>>

Finish ==
  /\ up /\ ep.state = "FinWait" /\ ep.una = Len(ep.segs)
  /\ ep' = [Purge(ep) EXCEPT !.state = "Close"]
  /\ UNCHANGED <<wr, stackVars, image, saves>>

-----------------------------------------------------------------------------
(* Endpoint.beforeSave.  resume: the sandbox goes on after the checkpoint;  *)
(* keep: connections are declared saveable.  Guest threads are stopped.     *)
BeforeSave(e, resume, keep) ==
  IF e.state \notin Connected \cup Handshake \/ keep THEN e
  ELSE IF resume THEN [e EXCEPT !.term = TRUE]
  ELSE IF live THEN [e EXCEPT !.term = FALSE]
  ELSE Reset([e EXCEPT !.term = FALSE])

Save(resume, keep) ==
  /\ up /\ saves < MaxSaves /\ saves' = saves + 1
  /\ \A w \in Writers : wr[w] = "idle"
  /\ ep' = BeforeSave(ep, resume, keep)
  /\ image' = [taken |-> TRUE, ep |-> ep', gated |-> gated]
  /\ up' = resume
  /\ UNCHANGED <<wr, gate, gated, live>>

(* Stack.afterLoad.                                                         *)
GateAfter_Silent(donated, g) == IF donated THEN "live" ELSE "nil"  \* mutant
GateAfter(donated, g) ==
  IF donated THEN "live" ELSE IF g THEN "missing" ELSE "nil"

(* Endpoint.afterLoad: a held stream is marked to terminate.                *)
AfterLoad(e) ==
  LET fresh == [e EXCEPT !.here = FALSE, !.by = "none", !.held = e.hold]
  IN  IF e.hold THEN [Decided(fresh) EXCEPT !.term = TRUE] ELSE fresh

(* closeEndpointAtRestore; afterLoad had put the endpoint in StateInitial.  *)
CloseAtRestore(e) ==
  IF e.state \notin Connected \cup Handshake THEN [e EXCEPT !.state = "Initial"]
  ELSE Reset(e)

MustClose_Live(e, l) == e.term /\ ~l                               \* mutant
MustClose(e, l) == (e.term /\ ~l) \/ e.held

(* Endpoint.Restore.  route: routes and registrations are found again; ok:  *)
(* the gate's verdict on a connected flow, which connect(handshake = false) *)
(* asks for.  A flow still in its handshake just goes on.                   *)
Recheck_Skip(g, ok) == TRUE                                        \* mutant
Recheck(g, ok) == g = "nil" \/ ok

RestoreEndpoint(e, l, g, route, ok) ==
  CASE MustClose(e, l) -> CloseAtRestore(e)
    [] ~MustClose(e, l) /\ e.state \in Connected ->
         IF l /\ ~route THEN CloseAtRestore(e)
         ELSE IF ~route \/ ~Recheck(g, ok)
           THEN [Purge(e) EXCEPT !.state = "Close"]
         ELSE [e EXCEPT !.by = IF g = "nil" \/ ~ok THEN "none" ELSE "gate"]
    [] ~MustClose(e, l) /\ e.state \in Handshake ->
         IF ~route THEN Reset(e)
         ELSE [e EXCEPT !.by = IF e.req THEN "none" ELSE "exempt"]
    [] OTHER -> e

Restore(donated, l, route, ok) ==
  /\ image.taken /\ saves < MaxSaves /\ saves' = saves + 1
  /\ LET g == GateAfter(donated, image.gated)
     IN  /\ g = "missing" => ~ok
         /\ gate' = g
         /\ ep' = RestoreEndpoint(AfterLoad(image.ep), l, g, route, ok)
  /\ gated' = (image.gated \/ donated)
  /\ live' = l /\ up' = TRUE
  /\ wr' = [w \in Writers |-> "idle"]
  /\ UNCHANGED image

-----------------------------------------------------------------------------
Windows == 0 .. Len(ep.segs) + 1

Guest ==
  \/ \E ok \in BOOLEAN : Connect(ok)
  \/ \E w \in Writers :
       \/ StartWrite(w)
       \/ \E n \in 1 .. SndBuf, v \in Verdicts, k \in Windows :
            FinishWrite(w, n, v, k)
  \/ \E f \in {{"R"}, {"W"}, {"R", "W"}}, u \in BOOLEAN, v \in Verdicts,
        k \in Windows : Shutdown(f, u, v, k)

Network ==
  \/ Establish \/ Accept \/ Abort \/ Finish
  \/ \E k \in Windows : Ack(k)
  \/ \E k \in Windows : RetransmitTimer(k)
  \/ \E m \in 1 .. SndBuf - 1, k \in Windows : PathMTU(m, k)

Checkpoint ==
  \/ \E r, k \in BOOLEAN : Save(r, k)
  \/ \E d, l, r, ok \in BOOLEAN : Restore(d, l, r, ok)

Next == Guest \/ Network \/ Checkpoint
Spec == Init /\ [][Next]_vars

-----------------------------------------------------------------------------
Endpoint ==
  [state : {"Initial"} \cup Handshake \cup Connected \cup Closed,
   req : BOOLEAN, hold : BOOLEAN, prefix : Seq(Writers), rounds : 0 .. MaxRounds,
   term : BOOLEAN, segs : Seq(Seq(Writers)), una : Nat, next : Nat, used : Int,
   sndClosed : BOOLEAN, shut : SUBSET {"R", "W"},
   admitted : BOOLEAN, allowed : BOOLEAN, seen : Seq(Writers), sent : SUBSET Nat,
   here : BOOLEAN, by : {"none", "gate", "exempt"}, held : BOOLEAN]

(* Types; and the mirrored prefix never exceeds egressL7SniffLimit, nor the *)
(* rounds egressL7MaxRounds, nor writeNext the write list.                  *)
TypeOK ==
  /\ ep \in Endpoint /\ Len(ep.prefix) <= SniffLimit
  /\ ep.una <= Len(ep.segs) /\ ep.next <= Len(ep.segs)
  /\ image \in [taken : BOOLEAN, ep : Endpoint, gated : BOOLEAN]
  /\ wr \in [Writers -> {"idle", "copy"}]
  /\ gate \in {"nil", "live", "missing"}
  /\ gated \in BOOLEAN /\ live \in BOOLEAN /\ up \in BOOLEAN
  /\ saves \in 0 .. MaxSaves

(* "While egressL7Hold is set, no queued stream byte may be emitted": a     *)
(* flow opened under a gate sends nothing, payload or FIN, before the host  *)
(* has answered allow, in whatever order writers, timers, path MTU changes  *)
(* and checkpoints come (classifyEgressL7, sendData, afterLoad).            *)
ClassifiedFirst == ep.admitted /\ ep.sent # {} => ep.allowed

(* Segments first leave in the order they were queued, none skipped, and    *)
(* the FIN is the last: a release starts from the front of the write list,  *)
(* and a write that lost the race with Shutdown queues nothing.             *)
StreamInOrder ==
  /\ \A i \in ep.sent : \A j \in 1 .. i : j \in ep.sent
  /\ \A i \in 1 .. Len(ep.segs) : ep.segs[i] = <<>> => i = Len(ep.segs)

(* "At stream EOF, need-more is a denial": a flow that is closed for sending *)
(* is never left waiting for a classification that no later write can       *)
(* complete (classifyEgressL7 with final, from shutdownLocked, which also   *)
(* covers a close before the first write).                                  *)
EOFDecides == ep.state = "FinWait" => ~ep.req

(* "A checkpoint taken with an egress gate must not come back up ungated":  *)
(* once the stack is gated it has a gate, if only one that denies, and a    *)
(* flow waiting for classification is always on a gated stack, over any     *)
(* chain of checkpoints and restores (Stack.afterLoad).                     *)
GateNeverLost == (gated => gate # "nil") /\ (ep.req => gated)

(* On a gated stack, payload sent since the last restore belongs to a flow  *)
(* that this gate was asked about: at connect, at restore, or by its first  *)
(* bytes.  Exempt are accepted connections and handshakes that an ungated   *)
(* stack had begun (Endpoint.Restore).                                      *)
CurrentGateApproved ==
  gate # "nil" /\ ep.here => ep.by # "none"

(* A flow checkpointed under the hold never sends again once restored, with *)
(* or without live migration (afterLoad, egressL7Terminate).                *)
HeldNeverResumes == ep.held => ep.state \notin Connected /\ ~ep.here

(* "Restore it as a terminated connection unconditionally": the comment on  *)
(* afterLoad, for a flow checkpointed under the hold.                       *)
HeldIsTerminated == ep.held => ep.state \in Closed
=============================================================================
