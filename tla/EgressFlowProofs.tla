--------------------------- MODULE EgressFlowProofs ---------------------------
(***************************************************************************)
(* EgressFlow for any number of writers, any limits and any chain of        *)
(* checkpoints and restores.  Good is the inductive part about one          *)
(* endpoint; it holds of the running endpoint and of the one in the last    *)
(* checkpoint, since a restore brings the latter back.                      *)
(***************************************************************************)
EXTENDS EgressFlow, TLAPS

Active == Connected \cup Handshake

Typed(e) ==
  /\ e \in Endpoint /\ Len(e.prefix) <= SniffLimit
  /\ e.una <= Len(e.segs) /\ e.next <= Len(e.segs)

(* A flow under classification has sent nothing and, unless it is held, has *)
(* nothing queued; a flow opened under a gate and not yet allowed is under  *)
(* classification as long as it is active.                                  *)
Good(e) ==
  /\ e.hold => e.req
  /\ e.req => e.admitted /\ ~e.allowed
  /\ e.req /\ ~e.hold /\ e.state \in Connected => e.segs = <<>>
  /\ e.state \in Handshake => e.segs = <<>>
  /\ e.admitted /\ ~e.allowed => e.sent = {}
  /\ e.admitted /\ ~e.allowed /\ e.state \in Active => e.req
  /\ e.state = "FinWait" => ~e.req
  /\ e.held => e.state \notin Active /\ ~e.here

(* What nobody approved in this incarnation has sent nothing, and is still  *)
(* to be classified.                                                        *)
Approved(e, g) ==
  g # "nil" /\ e.by = "none" => ~e.here /\ (e.state \in Active => e.req)

Inv ==
  /\ TypeOK /\ Typed(image.ep)
  /\ Good(ep) /\ Approved(ep, gate)
  /\ gated = (gate # "nil") /\ (ep.req => gated)
  /\ Good(image.ep) /\ (image.ep.req => image.gated)

(* Two endpoints that differ at most in writeNext and what was sent.        *)
Same(t, e) ==
  /\ t.state = e.state /\ t.req = e.req /\ t.hold = e.hold
  /\ t.segs = e.segs /\ t.admitted = e.admitted /\ t.allowed = e.allowed
  /\ t.by = e.by /\ t.held = e.held

(* Two endpoints with the same gate fields and history.                     *)
Kept(p, e) ==
  /\ p.req = e.req /\ p.hold = e.hold /\ p.admitted = e.admitted
  /\ p.allowed = e.allowed /\ p.sent = e.sent /\ p.held = e.held
  /\ p.here = e.here /\ p.by = e.by

USE BoundsAssumption DEF Active, Connected, Handshake, Closed

-----------------------------------------------------------------------------
(* sendData: a held sender, or one with nothing to send, does nothing.      *)
LEMMA TransmitIdle ==
  ASSUME NEW e, NEW k, e.hold \/ e.next = 0
  PROVE  Transmit(e, k) = e
  BY DEF Transmit

(* sendData keeps types and touches only writeNext and the record of what   *)
(* was sent.                                                                *)
LEMMA TransmitFrame ==
  ASSUME NEW e, Typed(e), NEW k \in Nat
  PROVE  /\ Typed(Transmit(e, k))
         /\ Same(Transmit(e, k), e)
<1> DEFINE last == IF e.next + k - 1 < Len(e.segs) THEN e.next + k - 1
                                                   ELSE Len(e.segs)
           next == IF last = Len(e.segs) THEN 0 ELSE last + 1
           sent == e.sent \cup e.next .. last
           here == e.here \/ \E i \in e.next .. last : e.segs[i] # <<>>
           t    == [e EXCEPT !.next = next, !.sent = sent, !.here = here]
<1>1. e \in Endpoint /\ Len(e.segs) \in Nat /\ e.next \in Nat /\ e.sent \subseteq Nat
  BY DEF Typed, Endpoint
<1>2. next \in Nat /\ next <= Len(e.segs) /\ sent \subseteq Nat /\ here \in BOOLEAN
  <2>1. last \in Int /\ last <= Len(e.segs)
    BY <1>1
  <2>2. e.next .. last \subseteq Nat
    BY <1>1, <2>1
  <2>3. next \in Nat /\ next <= Len(e.segs)
    BY <1>1, <2>1
  <2> QED BY <1>1, <2>2, <2>3
<1>3. Typed(t) /\ Same(t, e)
  <2> HIDE DEF last, next, sent, here
  <2> QED BY <1>1, <1>2 DEF Typed, Endpoint, Same
<1>4. Transmit(e, k) = IF e.hold \/ e.next = 0 THEN e ELSE t
  BY DEF Transmit
<1> QED BY <1>3, <1>4 DEF Same

(* sendData on a flow that is not waiting for its first allow.              *)
LEMMA TransmitGood ==
  ASSUME NEW e, Typed(e), Good(e), NEW k \in Nat, e.state \in Connected
  PROVE  Good(Transmit(e, k))
<1>1. CASE e.hold \/ e.next = 0
  BY <1>1, TransmitIdle
<1>2. CASE ~(e.hold \/ e.next = 0)
  <2>1. ~e.req
    BY <1>2 DEF Good, Typed, Endpoint
  <2>2. ~(e.admitted /\ ~e.allowed) /\ ~e.held
    BY <2>1 DEF Good
  <2> QED BY <2>1, <2>2, TransmitFrame DEF Good, Same
<1> QED BY <1>1, <1>2

(* ... and sends nothing the gate of this incarnation was not asked about.  *)
LEMMA TransmitApproved ==
  ASSUME NEW e, Typed(e), Good(e), NEW k \in Nat, e.state \in Connected,
         NEW g, Approved(e, g)
  PROVE  Approved(Transmit(e, k), g)
<1>1. CASE e.hold \/ e.next = 0
  BY <1>1, TransmitIdle
<1>2. CASE ~(e.hold \/ e.next = 0)
  <2>1. ~e.req
    BY <1>2 DEF Good, Typed, Endpoint
  <2> QED BY <2>1, TransmitFrame DEF Approved, Same
<1> QED BY <1>1, <1>2

-----------------------------------------------------------------------------
(* purgeWriteQueue and resetConnectionLocked.                               *)
LEMMA StateTyped ==
  ASSUME NEW e, Typed(e), NEW st \in {"Error", "Close", "Initial"}
  PROVE  LET p == [e EXCEPT !.state = st]
         IN  Typed(p) /\ p.state = st /\ Kept(p, e)
  BY DEF Typed, Endpoint, Kept

(* purgeWriteQueue.                                                         *)
LEMMA PurgeTyped ==
  ASSUME NEW e, Typed(e)
  PROVE  Typed(Purge(e)) /\ Kept(Purge(e), e)
<1> DEFINE q == [e EXCEPT !.segs = <<>>, !.una = 0, !.next = 0, !.used = 0,
                          !.sndClosed = TRUE]
<1>1. <<>> \in Seq(Seq(Writers)) /\ Len(<<>>) = 0
  OBVIOUS
<1>2. q \in Endpoint
  <2>1. ASSUME NEW z \in Seq(Seq(Writers)), NEW x \in Endpoint
        PROVE  [x EXCEPT !.segs = z] \in Endpoint
    BY DEF Endpoint
  <2>2. ASSUME NEW x \in Endpoint, NEW u \in Int
        PROVE  [x EXCEPT !.una = 0, !.next = 0, !.used = u, !.sndClosed = TRUE]
                 \in Endpoint
    BY DEF Endpoint
  <2>3. q = [[e EXCEPT !.segs = <<>>] EXCEPT !.una = 0, !.next = 0, !.used = 0,
                                             !.sndClosed = TRUE]
    OBVIOUS
  <2>4. [e EXCEPT !.segs = <<>>] \in Endpoint
    BY <1>1, <2>1 DEF Typed
  <2>5. 0 \in Int
    OBVIOUS
  <2> HIDE DEF q
  <2> QED BY <2>2, <2>3, <2>4, <2>5
<1>3. /\ q.segs = <<>> /\ q.una = 0 /\ q.next = 0 /\ q.prefix = e.prefix
      /\ Kept(q, e)
  BY DEF Typed, Endpoint, Kept
<1>4. Typed(q)
  <2> HIDE DEF q
  <2> QED BY <1>1, <1>2, <1>3 DEF Typed
<1>5. Purge(e) = e \/ Purge(e) = q
  BY DEF Purge
<1> HIDE DEF q
<1> QED BY <1>3, <1>4, <1>5 DEF Kept

(* resetConnectionLocked.                                                   *)
LEMMA ResetTyped ==
  ASSUME NEW e, Typed(e)
  PROVE  Typed(Reset(e)) /\ Reset(e).state = "Error" /\ Kept(Reset(e), e)
<1>1. Typed(Purge(e)) /\ Kept(Purge(e), e)
  BY PurgeTyped
<1>2. /\ Typed([Purge(e) EXCEPT !.state = "Error"])
      /\ [Purge(e) EXCEPT !.state = "Error"].state = "Error"
      /\ Kept([Purge(e) EXCEPT !.state = "Error"], Purge(e))
  BY <1>1, StateTyped
<1> QED BY <1>1, <1>2 DEF Reset, Kept

(* A reset leaves a good flow good.                                         *)
LEMMA ResetGood ==
  ASSUME NEW e, Typed(e), Good(e)
  PROVE  Good(Reset(e))
  BY ResetTyped DEF Good, Kept

(* A flow whose newest segment is queued and not yet classified.            *)
Pending(e) ==
  /\ e.req /\ e.admitted /\ ~e.allowed /\ e.sent = {} /\ ~e.held
  /\ e.state = "Established"

(* The end of classification clears the request and the hold, nothing else. *)
LEMMA DecidedTyped ==
  ASSUME NEW e, Typed(e)
  PROVE  /\ Typed(Decided(e)) /\ ~Decided(e).req /\ ~Decided(e).hold
         /\ Decided(e).state = e.state /\ Decided(e).admitted = e.admitted
         /\ Decided(e).allowed = e.allowed /\ Decided(e).sent = e.sent
         /\ Decided(e).held = e.held /\ Decided(e).here = e.here
         /\ Decided(e).by = e.by /\ Decided(e).segs = e.segs
         /\ Decided(e).una = e.una
<1>1. <<>> \in Seq(Writers) /\ Len(<<>>) <= SniffLimit /\ 0 \in 0 .. MaxRounds
  OBVIOUS
<1>2. Decided(e) \in Endpoint
  BY <1>1 DEF Decided, Typed, Endpoint
<1>3. /\ Decided(e).prefix = <<>> /\ Decided(e).next = e.next
      /\ Decided(e).segs = e.segs /\ Decided(e).una = e.una
  BY DEF Decided, Typed, Endpoint
<1>4. Typed(Decided(e))
  BY <1>1, <1>2, <1>3 DEF Typed
<1> QED BY <1>3, <1>4 DEF Decided, Typed, Endpoint

(* denyEgressL7 ends the connection.                                        *)
LEMMA DenyGood ==
  ASSUME NEW e, Typed(e), Pending(e)
  PROVE  /\ Typed(Deny(e)) /\ Good(Deny(e)) /\ Deny(e).state = "Error"
         /\ ~Deny(e).req /\ Deny(e).here = e.here /\ Deny(e).by = e.by
<1> DEFINE d == Decided(e)
<1>1. /\ Typed(d) /\ ~d.req /\ ~d.hold /\ ~d.held /\ d.sent = {}
      /\ d.here = e.here /\ d.by = e.by
  BY DecidedTyped DEF Pending
<1>2. Deny(e) = Reset(d)
  BY DEF Deny
<1> HIDE DEF d
<1> QED BY <1>1, <1>2, ResetTyped DEF Good, Kept

(* An allow ends the hold of a flow that has sent nothing.                  *)
LEMMA ReleaseGood ==
  ASSUME NEW e, Typed(e), Pending(e)
  PROVE  LET r == Release(e)
         IN  /\ Typed(r) /\ Good(r) /\ r.state = "Established" /\ ~r.req
             /\ ~r.hold /\ r.here = e.here /\ r.by = "gate"
<1> DEFINE d == Decided(e)
           r == [d EXCEPT !.next = FrontSeg(e), !.allowed = TRUE, !.by = "gate"]
<1>1. FrontSeg(e) \in Nat /\ FrontSeg(e) <= Len(e.segs)
  BY DEF FrontSeg, Typed, Endpoint
<1>2. Typed(d) /\ d.segs = e.segs /\ ~d.req /\ ~d.hold /\ d.state = e.state
      /\ ~d.held /\ d.here = e.here
  BY DecidedTyped DEF Pending
<1>3. /\ Typed(r) /\ r.state = d.state /\ r.req = d.req /\ r.hold = d.hold
      /\ r.allowed /\ r.held = d.held /\ r.here = d.here /\ r.by = "gate"
  <2> HIDE DEF d
  <2> QED BY <1>1, <1>2 DEF Typed, Endpoint
<1> QED BY <1>2, <1>3 DEF Release, Good, Pending

(* classifyEgressL7: deny resets, allow releases, need-more holds; with     *)
(* final nothing is left to wait for.                                       *)
LEMMA ClassifyGood ==
  ASSUME NEW e, Typed(e), Pending(e), NEW final \in BOOLEAN, NEW v
  PROVE  LET c == Classify(e, final, v)
         IN  /\ Typed(c) /\ Good(c) /\ c.here = e.here
             /\ c.by = e.by \/ c.by = "gate"
             /\ c.state \in {"Established", "Error"}
             /\ c.state # "Error" => c.hold \/ (~c.req /\ c.by = "gate")
             /\ c.state # "Error" /\ final => ~c.req
<1> DEFINE a == [e EXCEPT !.rounds = @ + 1, !.seen = e.prefix]
           h == [a EXCEPT !.hold = TRUE]
<1> SUFFICES ASSUME ~(e.rounds >= MaxRounds \/ gate = "nil")
             PROVE  LET c == Classify(e, final, v)
                    IN  /\ Typed(c) /\ Good(c) /\ c.here = e.here
                        /\ c.by = e.by \/ c.by = "gate"
                        /\ c.state \in {"Established", "Error"}
                        /\ c.state # "Error" =>
                             c.hold \/ (~c.req /\ c.by = "gate")
                        /\ c.state # "Error" /\ final => ~c.req
  BY DenyGood DEF Classify, Pending
<1>1. e.rounds + 1 \in 0 .. MaxRounds
  BY DEF Typed, Endpoint
<1>2. Typed(a) /\ Pending(a) /\ a.here = e.here /\ a.by = e.by
  BY <1>1 DEF Typed, Endpoint, Pending
<1>3. /\ Typed(h) /\ Good(h) /\ h.here = e.here /\ h.by = e.by
      /\ h.state = "Established" /\ h.hold
  BY <1>1 DEF Typed, Endpoint, Pending, Good
<1>4. Classify(e, final, v) \in {Deny(a), Release(a)}
        \/ (Classify(e, final, v) = h /\ ~final)
  BY DEF Classify, NoMore, Pending
<1> HIDE DEF a, h
<1> QED BY <1>2, <1>3, <1>4, DenyGood, ReleaseGood

-----------------------------------------------------------------------------
(* What every step must keep of the endpoint e under the gate g.            *)
EpInv(e, g) ==
  Typed(e) /\ Good(e) /\ Approved(e, g) /\ (e.req => g # "nil")

(* It is kept by a reset, ...                                               *)
LEMMA ResetInv ==
  ASSUME NEW e, NEW g, EpInv(e, g)
  PROVE  EpInv(Reset(e), g)
  BY ResetTyped, ResetGood DEF EpInv, Approved, Kept

(* ... sendData's loop ...                                                  *)
LEMMA TransmitInv ==
  ASSUME NEW e, NEW g, EpInv(e, g), NEW k \in Nat, e.state \in Connected
  PROVE  EpInv(Transmit(e, k), g)
  BY TransmitFrame, TransmitGood, TransmitApproved DEF EpInv, Same

(* Moving writeNext anywhere within the write list is harmless: a held flow *)
(* transmits nothing, and one still to be classified has an empty list.     *)
LEMMA NextInv ==
  ASSUME NEW e, NEW g, EpInv(e, g), NEW k \in Nat, e.state \in Connected,
         NEW n \in Nat, n <= Len(e.segs)
  PROVE  EpInv(Transmit([e EXCEPT !.next = n], k), g)
<1> DEFINE x == [e EXCEPT !.next = n]
<1>1. /\ Typed(x) /\ x.state = e.state /\ x.req = e.req /\ x.hold = e.hold
      /\ x.segs = e.segs /\ Kept(x, e)
  BY DEF EpInv, Typed, Endpoint, Kept
<1>2. EpInv(x, g) /\ x.state \in Connected
  <2> HIDE DEF x
  <2> QED BY <1>1 DEF EpInv, Good, Approved, Kept
<1>3. EpInv(Transmit(x, k), g)
  <2> HIDE DEF x
  <2> QED BY <1>2, TransmitInv
<1> QED BY <1>3

(* ... and sendData.                                                        *)
LEMMA SendDataInv ==
  ASSUME NEW e, NEW g, EpInv(e, g), NEW k \in Nat, e.state \in Connected
  PROVE  EpInv(SendData(e, k), g)
<1>1. Len(e.segs) \in Nat /\ Len(e.segs) <= Len(e.segs)
  BY DEF EpInv, Typed, Endpoint
<1>2. EpInv(Transmit([e EXCEPT !.next = Len(e.segs)], k), g)
  BY <1>1, NextInv
<1>3. EpInv(Transmit(e, k), g)
  BY TransmitInv
<1> QED BY <1>2, <1>3 DEF SendData

-----------------------------------------------------------------------------
(* Write.                                                                   *)
LEMMA AppendPrefixPending ==
  ASSUME NEW e, Typed(e), Pending(e), NEW seg \in Seq(Writers)
  PROVE  LET x == AppendPrefix(e, seg)
         IN  Typed(x) /\ Pending(x) /\ x.here = e.here /\ x.by = e.by
<1> DEFINE n == IF Len(seg) < Remaining(e) THEN Len(seg) ELSE Remaining(e)
           p == e.prefix \o SubSeq(seg, 1, n)
<1>1. e.prefix \in Seq(Writers) /\ Len(e.prefix) <= SniffLimit
  BY DEF Typed, Endpoint
<1>2. Remaining(e) \in Nat /\ Len(e.prefix) + Remaining(e) = SniffLimit
  BY <1>1 DEF Remaining
<1>3. n \in Nat /\ n <= Len(seg) /\ n <= Remaining(e)
  BY <1>2
<1>4. SubSeq(seg, 1, n) \in Seq(Writers) /\ Len(SubSeq(seg, 1, n)) = n
  <2> HIDE DEF n
  <2> QED BY <1>3
<1>5. p \in Seq(Writers) /\ Len(p) <= SniffLimit
  <2>1. ASSUME NEW a \in Seq(Writers), NEW b \in Seq(Writers)
        PROVE  a \o b \in Seq(Writers) /\ Len(a \o b) = Len(a) + Len(b)
    OBVIOUS
  <2>2. p \in Seq(Writers) /\ Len(p) = Len(e.prefix) + n
    <3> HIDE DEF n
    <3> QED BY <1>1, <1>4, <2>1
  <2> HIDE DEF n, p
  <2> QED BY <1>1, <1>2, <1>3, <2>2
<1>6. AppendPrefix(e, seg) = [e EXCEPT !.prefix = p]
  BY DEF AppendPrefix
<1>7. LET x == [e EXCEPT !.prefix = p]
      IN  Typed(x) /\ Pending(x) /\ x.here = e.here /\ x.by = e.by
  <2> DEFINE x == [e EXCEPT !.prefix = p]
  <2>1. /\ x \in Endpoint /\ x.prefix = p /\ x.una = e.una /\ x.next = e.next
        /\ x.segs = e.segs
    <3> HIDE DEF p
    <3> QED BY <1>5 DEF Typed, Endpoint
  <2>2. Pending(x) /\ x.here = e.here /\ x.by = e.by
    <3> HIDE DEF p
    <3> QED BY DEF Typed, Endpoint, Pending
  <2>3. Typed(x)
    <3> HIDE DEF x, p
    <3> QED BY <1>5, <2>1 DEF Typed
  <2> QED BY <2>2, <2>3
<1> HIDE DEF p
<1> QED BY <1>6, <1>7

(* A flow under classification that can be written to is pending.           *)
LEMMA ReqPending ==
  ASSUME NEW e, NEW g, EpInv(e, g), e.state \in Connected, e.req
  PROVE  Pending(e)
  BY DEF EpInv, Good, Pending

(* queueSegment appends a segment.                                          *)
LEMMA QueueTyped ==
  ASSUME NEW e, Typed(e), NEW seg \in Seq(Writers), NEW u \in Int
  PROVE  LET q == [e EXCEPT !.segs = Append(@, seg), !.used = u]
         IN  /\ Typed(q) /\ q.state = e.state /\ q.req = e.req
             /\ q.hold = e.hold /\ Kept(q, e)
<1> DEFINE s == Append(e.segs, seg)
           q == [e EXCEPT !.segs = s, !.used = u]
<1>1. /\ s \in Seq(Seq(Writers)) /\ e.una <= Len(s) /\ e.next <= Len(s)
  BY DEF Typed, Endpoint
<1>2. /\ Typed(q) /\ q.state = e.state /\ q.req = e.req
      /\ q.hold = e.hold /\ Kept(q, e)
  <2> HIDE DEF s
  <2> QED BY <1>1 DEF Typed, Endpoint, Kept
<1> QED BY <1>2

(* The second half of Write preserves the invariant.                        *)
LEMMA WriteInv ==
  ASSUME EpInv(ep, gate), NEW w \in Writers, NEW n \in Nat, NEW v,
         NEW k \in Nat, FinishWrite(w, n, v, k)
  PROVE  EpInv(ep', gate)
<1> DEFINE size == IF n < Avail(ep) THEN n ELSE Avail(ep)
           seg  == [i \in 1 .. size |-> w]
           q    == [ep EXCEPT !.segs = Append(@, seg), !.used = @ + size]
           c    == IF q.req THEN Classify(AppendPrefix(q, seg), FALSE, v) ELSE q
<1> SUFFICES ASSUME Writable(ep)
             PROVE  EpInv(ep', gate)
  BY DEF FinishWrite
<1>1. ep' = IF c.state = "Error" \/ c.hold THEN c ELSE SendData(c, k)
  BY DEF FinishWrite
<1>2. ep.state \in Connected /\ ep.used \in Int /\ Typed(ep)
  BY DEF Writable, EpInv, Typed, Endpoint
<1>3. size \in Nat
  BY <1>2 DEF Avail, Writable
<1>4. seg \in Seq(Writers) /\ ep.used + size \in Int
  <2> HIDE DEF size
  <2> QED BY <1>2, <1>3
<1>5. /\ Typed(q) /\ q.state = ep.state /\ q.req = ep.req
      /\ q.hold = ep.hold /\ Kept(q, ep)
  <2> HIDE DEF seg, size
  <2> QED BY <1>2, <1>4, QueueTyped
<1>6. CASE ep.req
  <2>1. Pending(q)
    <3>1. Pending(ep)
      BY <1>2, <1>6, ReqPending
    <3> HIDE DEF q
    <3> QED BY <3>1, <1>5 DEF Pending, Kept
  <2> DEFINE a == AppendPrefix(q, seg)
  <2>2. c = Classify(a, FALSE, v) /\ FALSE \in BOOLEAN
    <3> HIDE DEF q
    <3> QED BY <1>5, <1>6
  <2>3. Typed(a) /\ Pending(a) /\ a.here = q.here /\ a.by = q.by
    <3> HIDE DEF q, seg
    <3> QED BY <1>4, <1>5, <2>1, AppendPrefixPending
  <2>4. /\ Typed(c) /\ Good(c) /\ c.here = a.here
        /\ c.by = a.by \/ c.by = "gate"
        /\ c.state \in {"Established", "Error"}
        /\ c.state # "Error" => c.hold \/ (~c.req /\ c.by = "gate")
    <3> HIDE DEF a, c
    <3> QED BY <2>2, <2>3, ClassifyGood, ZenonT(60)
  <2>5. EpInv(c, gate)
    <3> HIDE DEF a, c, q
    <3> QED BY <1>5, <1>6, <2>3, <2>4 DEF EpInv, Approved, Good, Kept
  <2> HIDE DEF c
  <2> QED BY <1>1, <2>4, <2>5, SendDataInv
<1>7. CASE ~ep.req
  <2>1. c = q
    <3> HIDE DEF q
    <3> QED BY <1>5, <1>7
  <2>2. EpInv(q, gate) /\ q.state \in Connected
    <3> HIDE DEF q
    <3> QED BY <1>2, <1>5, <1>7 DEF EpInv, Good, Approved, Kept
  <2>3. EpInv(c, gate) /\ c.state \in Connected
    <3> HIDE DEF q, c
    <3> QED BY <2>1, <2>2
  <2> HIDE DEF c
  <2> QED BY <1>1, <2>3, SendDataInv
<1> QED BY <1>6, <1>7

-----------------------------------------------------------------------------
(* shutdownLocked: at end of stream a flow is decided before its FIN.       *)
LEMMA FinalInv ==
  ASSUME NEW e, EpInv(e, gate), e.state \in Connected, NEW v
  PROVE  LET c == Final(e, v)
         IN  /\ EpInv(c, gate)
             /\ c.state \in Connected \cup {"Error"}
             /\ "W" \in c.shut /\ c.state # "Error" => ~c.req
<1>1. CASE "W" \notin e.shut
  BY <1>1 DEF Final
<1>2. CASE "W" \in e.shut /\ ~e.req
  <2>1. Final(e, v) = e
    BY <1>2 DEF Final, Classify
  <2> QED BY <1>2, <2>1
<1>3. CASE "W" \in e.shut /\ e.req
  <2> DEFINE c == Classify(e, TRUE, v)
  <2>1. Final(e, v) = c
    BY <1>3 DEF Final
  <2>2. Pending(e) /\ Typed(e)
    BY <1>3, ReqPending DEF EpInv
  <2>3. /\ Typed(c) /\ Good(c) /\ c.here = e.here
        /\ c.by = e.by \/ c.by = "gate"
        /\ c.state \in {"Established", "Error"}
        /\ c.state # "Error" => ~c.req /\ c.by = "gate"
    <3>1. TRUE \in BOOLEAN
      OBVIOUS
    <3>2. /\ Typed(c) /\ Good(c) /\ c.here = e.here
          /\ c.by = e.by \/ c.by = "gate"
          /\ c.state \in {"Established", "Error"}
          /\ c.state # "Error" => c.hold \/ (~c.req /\ c.by = "gate")
          /\ c.state # "Error" => ~c.req
      BY <2>2, <3>1, ClassifyGood, ZenonT(60)
    <3> HIDE DEF c
    <3> QED BY <3>2 DEF Good
  <2>4. EpInv(c, gate)
    <3> HIDE DEF c
    <3> QED BY <1>3, <2>3 DEF EpInv, Approved, Good
  <2> HIDE DEF c
  <2> QED BY <2>1, <2>3, <2>4
<1> QED BY <1>1, <1>2, <1>3

(* shutdownLocked preserves the invariant.                                  *)
LEMMA ShutdownInv ==
  ASSUME EpInv(ep, gate), NEW flags \in SUBSET {"R", "W"}, NEW unread, NEW v,
         NEW k \in Nat, Shutdown(flags, unread, v, k)
  PROVE  EpInv(ep', gate)
<1> DEFINE s == [ep EXCEPT !.shut = @ \cup flags]
           c == Final(s, v)
           f == [c EXCEPT !.segs = Append(@, <<>>), !.state = "FinWait",
                          !.sndClosed = TRUE]
<1>1. CASE ep.state \in Handshake
  <2>1. ep' = Reset(ep)
    BY <1>1 DEF Shutdown
  <2> QED BY <2>1, ResetInv
<1>2. CASE ep.state \in Connected
  <2>1. EpInv(s, gate) /\ s.state \in Connected
    <3>1. /\ Typed(s) /\ s.state = ep.state /\ s.segs = ep.segs /\ Kept(s, ep)
      BY DEF EpInv, Typed, Endpoint, Kept
    <3> HIDE DEF s
    <3> QED BY <1>2, <3>1 DEF EpInv, Good, Approved, Kept
  <2>2. /\ EpInv(c, gate) /\ c.state \in Connected \cup {"Error"}
        /\ "W" \in c.shut /\ c.state # "Error" => ~c.req
    <3> HIDE DEF s
    <3> QED BY <2>1, FinalInv
  <2>3. ep' \in {c, Reset(c)}
          \/ (ep' = SendData(f, k) /\ "W" \in c.shut /\ c.state # "Error")
    <3>1. ep' = IF ep.state \in Handshake THEN Reset(ep)
                ELSE IF c.state = "Error" THEN c
                ELSE IF c.shut = {"R", "W"} /\ unread THEN Reset(c)
                ELSE IF "W" \in c.shut /\ ~c.sndClosed THEN SendData(f, k)
                ELSE c
      BY DEF Shutdown
    <3> HIDE DEF c, f
    <3> QED BY <1>2, <3>1
  <2>4. ASSUME "W" \in c.shut, c.state # "Error"
        PROVE  EpInv(f, gate) /\ f.state \in Connected
    <3>1. Typed(c) /\ <<>> \in Seq(Writers) /\ c.state \in Connected /\ ~c.req
      <4> HIDE DEF c
      <4> QED BY <2>2, <2>4 DEF EpInv
    <3>2. /\ Typed(f) /\ f.state = "FinWait" /\ Kept(f, c)
      <4> DEFINE z == Append(c.segs, <<>>)
      <4>1. z \in Seq(Seq(Writers)) /\ c.una <= Len(z) /\ c.next <= Len(z)
        <5> HIDE DEF c
        <5> QED BY <3>1 DEF Typed, Endpoint
      <4> DEFINE y == [c EXCEPT !.segs = z, !.state = "FinWait",
                                !.sndClosed = TRUE]
      <4>2. Typed(y) /\ y.state = "FinWait" /\ Kept(y, c)
        <5> HIDE DEF c, z
        <5> QED BY <3>1, <4>1 DEF Typed, Endpoint, Kept
      <4> QED BY <4>2
    <3> HIDE DEF c, f
    <3> QED BY <2>2, <3>1, <3>2 DEF EpInv, Good, Approved, Kept
  <2> HIDE DEF c, f
  <2> QED BY <2>2, <2>3, <2>4, ResetInv, SendDataInv
<1> QED BY <1>1, <1>2 DEF Shutdown

-----------------------------------------------------------------------------
(* handleRcvdSegment, retransmitTimerExpired and updateMaxPayloadSize.      *)
LEMMA AckInv ==
  ASSUME EpInv(ep, gate), NEW k \in Nat, Ack(k)
  PROVE  EpInv(ep', gate)
<1>1. CASE ep' = Transmit(ep, k)
  BY <1>1, TransmitInv DEF Ack
<1>2. CASE Outstanding(ep) /\ ep' = Transmit(AckOne(ep), k)
  <2> DEFINE u == ep.used - LogicalLen(ep.segs[ep.una + 1])
             a == [ep EXCEPT !.una = @ + 1, !.used = u]
  <2>1. /\ ep.segs \in Seq(Seq(Writers)) /\ ep.una \in Nat /\ ep.used \in Int
        /\ ep.una < Len(ep.segs)
    BY <1>2 DEF EpInv, Typed, Endpoint, Outstanding
  <2>2. u \in Int
    BY <2>1 DEF LogicalLen
  <2>3. Typed(a) /\ a.state = ep.state /\ a.segs = ep.segs /\ Kept(a, ep)
    <3>1. /\ ep \in Endpoint /\ Len(ep.prefix) <= SniffLimit
          /\ ep.next <= Len(ep.segs)
      BY DEF EpInv, Typed
    <3>2. ASSUME NEW n \in Nat, NEW i \in Int
          PROVE  [ep EXCEPT !.una = n, !.used = i] \in Endpoint
      BY <3>1 DEF Endpoint
    <3>3. ep.una + 1 \in Nat /\ ep.una + 1 <= Len(ep.segs)
      BY <2>1
    <3>4. /\ a.una = ep.una + 1 /\ a.segs = ep.segs /\ a.prefix = ep.prefix
          /\ a.next = ep.next /\ a.state = ep.state /\ Kept(a, ep)
      <4> HIDE DEF u
      <4> QED BY <3>1 DEF Endpoint, Kept
    <3>5. a \in Endpoint
      <4> HIDE DEF u
      <4> QED BY <2>2, <3>2, <3>3
    <3> HIDE DEF a
    <3> QED BY <3>1, <3>3, <3>4, <3>5 DEF Typed
  <2>4. EpInv(a, gate) /\ a.state \in Connected
    <3> HIDE DEF a
    <3> QED BY <2>3 DEF Ack, EpInv, Good, Approved, Kept
  <2>5. FrontSeg(a) \in Nat /\ FrontSeg(a) <= Len(a.segs)
    <3> HIDE DEF a
    <3> QED BY <2>3, SMTT(30) DEF FrontSeg, Typed, Endpoint
  <2>6. AckOne(ep) = a \/ AckOne(ep) = [a EXCEPT !.next = FrontSeg(a)]
    BY DEF AckOne
  <2> HIDE DEF a
  <2> QED BY <1>2, <2>4, <2>5, <2>6, TransmitInv, NextInv
<1> QED BY <1>1, <1>2 DEF Ack

(* The retransmission timer preserves the invariant.                        *)
LEMMA RetransmitInv ==
  ASSUME EpInv(ep, gate), NEW k \in Nat, RetransmitTimer(k)
  PROVE  EpInv(ep', gate)
<1>1. FrontSeg(ep) \in Nat /\ FrontSeg(ep) <= Len(ep.segs)
  BY DEF FrontSeg, EpInv, Typed, Endpoint
<1> QED BY <1>1, NextInv DEF RetransmitTimer

(* A path MTU change preserves the invariant.                               *)
LEMMA PathMTUInv ==
  ASSUME EpInv(ep, gate), NEW m, NEW k \in Nat, PathMTU(m, k)
  PROVE  EpInv(ep', gate)
<1>1. CASE ep' = Transmit(ep, k)
  BY <1>1, TransmitInv DEF PathMTU
<1>2. CASE ~(ep' = Transmit(ep, k))
  <2>1. PICK i \in ep.una + 1 .. IF ep.next = 0 THEN Len(ep.segs) ELSE ep.next - 1 :
          ep' = Transmit([ep EXCEPT !.next = i], k)
    BY <1>2 DEF PathMTU
  <2>2. i \in Nat /\ i <= Len(ep.segs)
    BY DEF EpInv, Typed, Endpoint
  <2> QED BY <2>1, <2>2, NextInv DEF PathMTU
<1> QED BY <1>1, <1>2

-----------------------------------------------------------------------------
(* connect, the handshake, and the ends of a connection.                    *)
LEMMA ConnectInv ==
  ASSUME EpInv(ep, gate), NEW ok, Connect(ok)
  PROVE  EpInv(ep', gate)
<1> DEFINE b == gate # "nil"
           x == [ep EXCEPT !.state = "SynSent", !.req = b, !.segs = <<>>,
                           !.una = 0, !.next = 0]
           y == [x EXCEPT !.admitted = b, !.allowed = FALSE, !.seen = <<>>,
                          !.sent = {}, !.here = FALSE, !.by = "gate",
                          !.held = FALSE]
<1>1. ep \in Endpoint /\ Len(ep.prefix) <= SniffLimit
  BY DEF EpInv, Typed
<1>2. /\ <<>> \in Seq(Seq(Writers)) /\ <<>> \in Seq(Writers) /\ Len(<<>>) = 0
      /\ b \in BOOLEAN
  OBVIOUS
<1>3. x \in Endpoint
  <2>1. ASSUME NEW z \in Seq(Seq(Writers))
        PROVE  [ep EXCEPT !.state = "SynSent", !.req = b, !.segs = z,
                          !.una = 0, !.next = 0] \in Endpoint
    <3> HIDE DEF b
    <3> QED BY <1>1, <1>2, ZenonT(60) DEF Endpoint
  <2> QED BY <1>2, <2>1
<1>4. y \in Endpoint
  <2>1. ASSUME NEW z \in Seq(Writers), NEW u \in Endpoint
        PROVE  [u EXCEPT !.admitted = b, !.allowed = FALSE, !.seen = z,
                         !.sent = {}, !.here = FALSE, !.by = "gate",
                         !.held = FALSE] \in Endpoint
    <3> HIDE DEF b
    <3> QED BY <1>2, ZenonT(60) DEF Endpoint
  <2> HIDE DEF x
  <2> QED BY <1>2, <1>3, <2>1
<1>5. /\ y.state = "SynSent" /\ y.req = b /\ y.segs = <<>> /\ y.una = 0
      /\ y.next = 0 /\ y.prefix = ep.prefix /\ y.hold = ep.hold
      /\ y.admitted = b /\ ~y.allowed /\ y.sent = {} /\ ~y.here
      /\ y.by = "gate" /\ ~y.held
  <2> HIDE DEF b
  <2> QED BY <1>1 DEF Endpoint
<1>6. EpInv(y, gate)
  <2>1. Typed(y)
    <3> HIDE DEF y
    <3> QED BY <1>1, <1>2, <1>4, <1>5 DEF Typed
  <2>2. ep.hold => b
    BY DEF EpInv, Good
  <2> HIDE DEF y
  <2> QED BY <1>5, <2>1, <2>2 DEF EpInv, Good, Approved
<1>7. ep' = ep \/ ep' = y
  BY DEF Connect, Required
<1> HIDE DEF y
<1> QED BY <1>6, <1>7

(* New and accepted endpoints.                                              *)
LEMMA NewEndpointInv ==
  ASSUME NEW g
  PROVE  /\ EpInv(NewEndpoint, g)
         /\ EpInv([NewEndpoint EXCEPT !.state = "Established", !.by = "exempt"], g)
<1> DEFINE y == [NewEndpoint EXCEPT !.state = "Established", !.by = "exempt"]
           Fresh(x) == /\ ~x.req /\ ~x.hold /\ x.prefix = <<>> /\ x.segs = <<>>
                       /\ x.una = 0 /\ x.next = 0 /\ ~x.admitted /\ ~x.held
                       /\ ~x.here
<1>1. <<>> \in Seq(Seq(Writers)) /\ <<>> \in Seq(Writers) /\ Len(<<>>) = 0
  OBVIOUS
<1>2. NewEndpoint \in Endpoint
  BY <1>1 DEF NewEndpoint, Endpoint
<1>3. y \in Endpoint
  BY <1>2 DEF Endpoint
<1>4. /\ NewEndpoint.state = "Initial" /\ Fresh(NewEndpoint)
      /\ y.by = "exempt" /\ y.state = "Established" /\ Fresh(y)
  BY DEF NewEndpoint
<1>5. ASSUME NEW x \in Endpoint, Fresh(x),
             x.state = "Initial" \/ (x.state = "Established" /\ x.by = "exempt")
      PROVE  EpInv(x, g)
  BY <1>1, <1>5 DEF EpInv, Typed, Good, Approved
<1> HIDE DEF y, Fresh
<1>6. EpInv(NewEndpoint, g) /\ EpInv(y, g)
  BY <1>2, <1>3, <1>4, <1>5
<1> QED BY <1>6 DEF y

(* The end of a handshake preserves the invariant.                          *)
LEMMA OpenInv ==
  ASSUME EpInv(ep, gate), Establish \/ Accept
  PROVE  EpInv(ep', gate)
<1>1. CASE Establish
  <2> DEFINE x == [ep EXCEPT !.state = "Established"]
  <2>1. Typed(x) /\ x.state = "Established" /\ x.segs = ep.segs /\ Kept(x, ep)
    BY DEF EpInv, Typed, Endpoint, Kept
  <2>2. EpInv(x, gate)
    <3> HIDE DEF x
    <3> QED BY <1>1, <2>1 DEF Establish, EpInv, Good, Approved, Kept
  <2> QED BY <1>1, <2>2 DEF Establish
<1>2. CASE Accept
  BY <1>2, NewEndpointInv DEF Accept
<1> QED BY <1>1, <1>2

(* The end of a connection preserves the invariant.                         *)
LEMMA FinishInv ==
  ASSUME EpInv(ep, gate), Finish
  PROVE  EpInv(ep', gate)
<1>1. Typed(Purge(ep)) /\ Kept(Purge(ep), ep)
  BY PurgeTyped DEF EpInv
<1>2. Typed(ep') /\ ep'.state = "Close" /\ Kept(ep', Purge(ep))
  BY <1>1, StateTyped DEF Finish
<1> QED BY <1>1, <1>2 DEF EpInv, Good, Approved, Kept

-----------------------------------------------------------------------------
(* beforeSave leaves an endpoint as good as it was.                         *)
LEMMA TermTyped ==
  ASSUME NEW e, Typed(e), NEW b \in BOOLEAN
  PROVE  LET x == [e EXCEPT !.term = b]
         IN  /\ Typed(x) /\ x.state = e.state /\ x.segs = e.segs /\ Kept(x, e)
             /\ x.term = b
  BY DEF Typed, Endpoint, Kept

(* beforeSave preserves the invariant.                                      *)
LEMMA BeforeSaveInv ==
  ASSUME NEW e, NEW g, EpInv(e, g), NEW resume, NEW keep
  PROVE  EpInv(BeforeSave(e, resume, keep), g)
<1>1. ASSUME NEW b \in BOOLEAN
      PROVE  EpInv([e EXCEPT !.term = b], g)
  <2> DEFINE x == [e EXCEPT !.term = b]
  <2>1. Typed(x) /\ x.state = e.state /\ x.segs = e.segs /\ Kept(x, e)
    BY TermTyped DEF EpInv
  <2>2. EpInv(x, g)
    <3> HIDE DEF x
    <3> QED BY <2>1 DEF EpInv, Good, Approved, Kept
  <2> QED BY <2>2
<1>2. EpInv([e EXCEPT !.term = TRUE], g) /\ EpInv([e EXCEPT !.term = FALSE], g)
  BY <1>1
<1>3. EpInv(Reset([e EXCEPT !.term = FALSE]), g)
  BY <1>2, ResetInv
<1> QED BY <1>2, <1>3 DEF BeforeSave

(* afterLoad: nothing approved yet, and a held flow is decided and marked.  *)
LEMMA AfterLoadGood ==
  ASSUME NEW e, Typed(e), Good(e)
  PROVE  LET x == AfterLoad(e)
         IN  /\ Typed(x) /\ ~x.here /\ x.by = "none" /\ x.held = e.hold
             /\ x.state = e.state /\ x.segs = e.segs /\ ~x.hold
             /\ x.admitted = e.admitted /\ x.allowed = e.allowed
             /\ x.sent = e.sent
             /\ x.req = (e.req /\ ~e.hold)
<1> DEFINE f == [e EXCEPT !.here = FALSE, !.by = "none", !.held = e.hold]
           t == [Decided(f) EXCEPT !.term = TRUE]
<1>1. /\ Typed(f) /\ ~f.here /\ f.by = "none" /\ f.held = e.hold
      /\ f.state = e.state /\ f.segs = e.segs /\ f.hold = e.hold
      /\ f.admitted = e.admitted /\ f.allowed = e.allowed
      /\ f.sent = e.sent /\ f.req = e.req
  BY ZenonT(60) DEF Typed, Endpoint
<1>2. CASE ~e.hold
  <2>1. AfterLoad(e) = f
    BY <1>2 DEF AfterLoad
  <2>2. e.req \in BOOLEAN
    BY DEF Typed, Endpoint
  <2> HIDE DEF f
  <2> QED BY <1>1, <1>2, <2>1, <2>2
<1>3. CASE e.hold
  <2>1. AfterLoad(e) = t
    BY <1>3 DEF AfterLoad
  <2>2. /\ Typed(Decided(f)) /\ ~Decided(f).req /\ ~Decided(f).hold
        /\ Decided(f).state = f.state /\ Decided(f).segs = f.segs
    <3> HIDE DEF f
    <3> QED BY <1>1, DecidedTyped
  <2>3. /\ Typed(t) /\ t.state = f.state /\ t.segs = f.segs
        /\ Kept(t, Decided(f))
    <3> HIDE DEF f
    <3> QED BY <2>2, TermTyped
  <2>4. /\ Decided(f).admitted = f.admitted /\ Decided(f).allowed = f.allowed
        /\ Decided(f).sent = f.sent /\ Decided(f).held = f.held
        /\ Decided(f).here = f.here /\ Decided(f).by = f.by
    <3> HIDE DEF f
    <3> QED BY <1>1, DecidedTyped
  <2>5. t.req = FALSE /\ (e.req /\ ~e.hold) = FALSE
    <3>1. t.req \in BOOLEAN
      <4> HIDE DEF t
      <4> QED BY <2>3 DEF Typed, Endpoint
    <3> HIDE DEF t, f
    <3> QED BY <1>3, <2>2, <2>3, <3>1 DEF Kept
  <2> HIDE DEF f, t
  <2> QED BY <1>1, <1>3, <2>1, <2>2, <2>3, <2>4, <2>5, ZenonT(60) DEF Kept
<1> QED BY <1>2, <1>3

(* Endpoint.Restore: a held flow is closed whatever else is asked, and a    *)
(* connected one goes on only if this stack's gate agrees.                  *)
LEMMA RestoreInv ==
  ASSUME NEW e, Typed(e), Good(e), NEW l \in BOOLEAN,
         NEW g \in {"nil", "live", "missing"}, NEW route \in BOOLEAN,
         NEW ok \in BOOLEAN, e.req => g # "nil"
  PROVE  EpInv(RestoreEndpoint(AfterLoad(e), l, g, route, ok), g)
<1> DEFINE x == AfterLoad(e)
<1>1. /\ Typed(x) /\ ~x.here /\ x.by = "none" /\ x.held = e.hold
      /\ x.state = e.state /\ x.segs = e.segs /\ ~x.hold
      /\ x.admitted = e.admitted /\ x.allowed = e.allowed
      /\ x.sent = e.sent /\ x.req = (e.req /\ ~e.hold)
  BY AfterLoadGood
<1> SUFFICES EpInv(RestoreEndpoint(x, l, g, route, ok), g)
  OBVIOUS
<1> HIDE DEF x
<1>2. ASSUME NEW y, Typed(y), Kept(y, x), y.state \notin Active
      PROVE  EpInv(y, g)
  BY <1>1, <1>2 DEF EpInv, Good, Approved, Kept
<1>3. EpInv(Reset(x), g)
  BY <1>1, <1>2, ResetTyped
<1>4. EpInv(CloseAtRestore(x), g)
  <2>1. /\ Typed([x EXCEPT !.state = "Initial"])
        /\ [x EXCEPT !.state = "Initial"].state = "Initial"
        /\ Kept([x EXCEPT !.state = "Initial"], x)
    BY <1>1, StateTyped
  <2> QED BY <1>2, <1>3, <2>1 DEF CloseAtRestore
<1>5. EpInv([Purge(x) EXCEPT !.state = "Close"], g)
  <2>1. Typed(Purge(x)) /\ Kept(Purge(x), x)
    BY <1>1, PurgeTyped
  <2>2. LET y == [Purge(x) EXCEPT !.state = "Close"]
        IN  Typed(y) /\ y.state = "Close" /\ Kept(y, Purge(x))
    BY <2>1, StateTyped
  <2> QED BY <1>2, <2>1, <2>2 DEF Kept
<1>6. ASSUME ~x.held, NEW by \in {"none", "gate", "exempt"},
             g # "nil" /\ by = "none" => x.req
      PROVE  EpInv([x EXCEPT !.by = by], g)
  <2> DEFINE y == [x EXCEPT !.by = by]
  <2>1. /\ Typed(y) /\ y.by = by /\ y.here = x.here /\ y.held = x.held
        /\ y.state = x.state /\ y.segs = x.segs /\ y.hold = x.hold
        /\ y.admitted = x.admitted /\ y.allowed = x.allowed
        /\ y.sent = x.sent /\ y.req = x.req
    BY <1>1 DEF Typed, Endpoint
  <2>2. EpInv(y, g)
    <3> HIDE DEF y
    <3> QED BY <1>1, <1>6, <2>1 DEF EpInv, Good, Approved
  <2> QED BY <2>2
<1>7. CASE MustClose(x, l)
  BY <1>4, <1>7 DEF RestoreEndpoint
<1>8. CASE ~MustClose(x, l)
  <2>1. ~x.held
    BY <1>8 DEF MustClose
  <2>2. CASE x.state \in Connected
    <3> DEFINE by == IF g = "nil" \/ ~ok THEN "none" ELSE "gate"
               y  == [x EXCEPT !.by = by]
    <3>1. RestoreEndpoint(x, l, g, route, ok) =
            IF l /\ ~route THEN CloseAtRestore(x)
            ELSE IF ~route \/ ~Recheck(g, ok)
              THEN [Purge(x) EXCEPT !.state = "Close"]
            ELSE y
      BY <1>8, <2>2 DEF RestoreEndpoint
    <3>2. Recheck(g, ok) => EpInv(y, g)
      BY <1>6, <2>1 DEF Recheck
    <3> HIDE DEF y
    <3> QED BY <1>4, <1>5, <3>1, <3>2
  <2>3. CASE x.state \in Handshake
    <3> DEFINE by == IF x.req THEN "none" ELSE "exempt"
               y  == [x EXCEPT !.by = by]
    <3>1. RestoreEndpoint(x, l, g, route, ok) = IF ~route THEN Reset(x) ELSE y
      BY <1>8, <2>3 DEF RestoreEndpoint
    <3>2. EpInv(y, g)
      BY <1>6, <2>1
    <3> HIDE DEF y
    <3> QED BY <1>3, <3>1, <3>2
  <2>4. CASE x.state \notin Active
    <3>1. RestoreEndpoint(x, l, g, route, ok) = x
      BY <1>8, <2>4 DEF RestoreEndpoint
    <3> QED BY <1>1, <1>2, <2>4, <3>1 DEF Kept
  <2> QED BY <2>2, <2>3, <2>4
<1> QED BY <1>7, <1>8

-----------------------------------------------------------------------------
(* The whole system.                                                        *)
LEMMA InitInv == Init => Inv
<1> SUFFICES ASSUME Init PROVE Inv
  OBVIOUS
<1>1. \A g : EpInv(NewEndpoint, g)
  BY NewEndpointInv
<1>2. NewEndpoint.req = FALSE
  BY DEF NewEndpoint
<1>3. /\ ep = NewEndpoint /\ image.ep = NewEndpoint
      /\ image \in [taken : BOOLEAN, ep : {NewEndpoint}, gated : BOOLEAN]
      /\ wr \in [Writers -> {"idle", "copy"}] /\ gate \in {"nil", "live"}
      /\ gated = (gate # "nil") /\ live \in BOOLEAN /\ up \in BOOLEAN
      /\ saves \in 0 .. MaxSaves
  BY DEF Init
<1>4. image \in [taken : BOOLEAN, ep : Endpoint, gated : BOOLEAN]
  BY <1>1, <1>3 DEF EpInv, Typed
<1> QED BY <1>1, <1>2, <1>3, <1>4 DEF Inv, TypeOK, EpInv, Typed

(* A step that changes at most the endpoint and the writers.                *)
LEMMA EndpointStep ==
  ASSUME Inv, EpInv(ep, gate)', UNCHANGED <<stackVars, image, saves>>,
         wr' \in [Writers -> {"idle", "copy"}]
  PROVE  Inv'
  BY DEF Inv, TypeOK, EpInv, Typed, stackVars

(* A checkpoint preserves the invariant, for the image too.                 *)
LEMMA SaveInv ==
  ASSUME Inv, EpInv(ep, gate), NEW resume \in BOOLEAN, NEW keep \in BOOLEAN,
         Save(resume, keep)
  PROVE  Inv'
<1>1. EpInv(ep', gate)
  BY BeforeSaveInv DEF Save
<1>2. /\ image'.ep = ep' /\ image'.gated = gated
      /\ image' = [taken |-> TRUE, ep |-> ep', gated |-> gated]
  BY DEF Save
<1>3. image' \in [taken : BOOLEAN, ep : Endpoint, gated : BOOLEAN]
  BY <1>1, <1>2 DEF EpInv, Typed, Inv, TypeOK
<1>4. /\ saves' \in 0 .. MaxSaves /\ up' \in BOOLEAN
      /\ UNCHANGED <<wr, gate, gated, live>>
  BY DEF Save, Inv, TypeOK
<1>5. EpInv(ep, gate)'
  BY <1>1, <1>4
<1> QED BY <1>1, <1>2, <1>3, <1>4, <1>5 DEF Inv, TypeOK, EpInv, Typed

(* A restore preserves the invariant.                                       *)
LEMMA RestoreStep ==
  ASSUME Inv, NEW donated \in BOOLEAN, NEW l \in BOOLEAN,
         NEW route \in BOOLEAN, NEW ok \in BOOLEAN,
         Restore(donated, l, route, ok)
  PROVE  Inv'
<1>1. /\ image.gated \in BOOLEAN /\ Typed(image.ep) /\ Good(image.ep)
      /\ (image.ep.req => image.gated)
  BY DEF Inv, TypeOK
<1>2. /\ gate' = GateAfter(donated, image.gated)
      /\ ep' = RestoreEndpoint(AfterLoad(image.ep), l, gate', route, ok)
      /\ gated' = (image.gated \/ donated) /\ live' = l /\ up' = TRUE
      /\ wr' = [w \in Writers |-> "idle"] /\ image' = image
      /\ saves' \in 0 .. MaxSaves
  BY DEF Restore, Inv, TypeOK
<1>3. /\ gate' \in {"nil", "live", "missing"}
      /\ gated' = (gate' # "nil") /\ gated' \in BOOLEAN
      /\ image.ep.req => gate' # "nil"
  BY <1>1, <1>2 DEF GateAfter
<1>4. EpInv(ep', gate')
  BY <1>1, <1>2, <1>3, RestoreInv
<1>5. EpInv(ep, gate)'
  BY <1>4
<1> QED BY <1>1, <1>2, <1>3, <1>5 DEF Inv, TypeOK, EpInv, Typed

(* Every step preserves the invariant.                                      *)
LEMMA StepInv == Inv /\ [Next]_vars => Inv'
<1> SUFFICES ASSUME Inv, [Next]_vars PROVE Inv'
  OBVIOUS
<1>1. EpInv(ep, gate) /\ wr \in [Writers -> {"idle", "copy"}]
  BY DEF Inv, TypeOK, EpInv, Typed
<1>2. Len(ep.segs) \in Nat
  BY <1>1 DEF EpInv, Typed, Endpoint
<1>3. ASSUME EpInv(ep', gate), UNCHANGED <<stackVars, image, saves>>,
             wr' \in [Writers -> {"idle", "copy"}]
      PROVE  Inv'
  <2>1. EpInv(ep, gate)'
    BY <1>3 DEF stackVars
  <2> QED BY <1>3, <2>1, EndpointStep
<1>4. ASSUME NEW ok \in BOOLEAN, Connect(ok) PROVE Inv'
  BY <1>1, <1>3, <1>4, ConnectInv DEF Connect
<1>5. ASSUME NEW w \in Writers, StartWrite(w) PROVE Inv'
  BY <1>1, <1>3, <1>5 DEF StartWrite
<1>6. ASSUME NEW w \in Writers, NEW n \in 1 .. SndBuf, NEW v, NEW k \in Windows,
             FinishWrite(w, n, v, k)
      PROVE  Inv'
  <2>1. n \in Nat /\ k \in Nat
    BY <1>2 DEF Windows
  <2>2. EpInv(ep', gate)
    BY <1>1, <1>6, <2>1, WriteInv
  <2> QED BY <1>1, <1>3, <1>6, <2>2 DEF FinishWrite
<1>7. ASSUME NEW f \in SUBSET {"R", "W"}, NEW u \in BOOLEAN, NEW v,
             NEW k \in Windows, Shutdown(f, u, v, k)
      PROVE  Inv'
  <2>1. k \in Nat
    BY <1>2 DEF Windows
  <2>2. EpInv(ep', gate)
    BY <1>1, <1>7, <2>1, ShutdownInv
  <2> QED BY <1>1, <1>3, <1>7, <2>2 DEF Shutdown
<1>8. CASE Establish \/ Accept
  BY <1>1, <1>3, <1>8, OpenInv DEF Establish, Accept
<1>9. CASE Abort
  BY <1>1, <1>3, <1>9, ResetInv DEF Abort
<1>10. CASE Finish
  BY <1>1, <1>3, <1>10, FinishInv DEF Finish
<1>11. ASSUME NEW k \in Windows, Ack(k) \/ RetransmitTimer(k) PROVE Inv'
  <2>1. k \in Nat
    BY <1>2 DEF Windows
  <2>2. EpInv(ep', gate)
    BY <1>1, <1>11, <2>1, AckInv, RetransmitInv
  <2> QED BY <1>1, <1>3, <1>11, <2>2 DEF Ack, RetransmitTimer
<1>12. ASSUME NEW m, NEW k \in Windows, PathMTU(m, k) PROVE Inv'
  <2>1. k \in Nat
    BY <1>2 DEF Windows
  <2>2. EpInv(ep', gate)
    BY <1>1, <1>12, <2>1, PathMTUInv
  <2> QED BY <1>1, <1>3, <1>12, <2>2 DEF PathMTU
<1>13. ASSUME NEW r \in BOOLEAN, NEW k \in BOOLEAN, Save(r, k) PROVE Inv'
  BY <1>1, <1>13, SaveInv
<1>14. ASSUME NEW d \in BOOLEAN, NEW l \in BOOLEAN, NEW r \in BOOLEAN,
              NEW ok \in BOOLEAN, Restore(d, l, r, ok)
       PROVE  Inv'
  BY <1>14, RestoreStep
<1>15. CASE UNCHANGED vars
  BY <1>15 DEF vars, stackVars, Inv, TypeOK
<1>16. CASE Guest
  BY <1>4, <1>5, <1>6, <1>7, <1>16 DEF Guest
<1>17. CASE Network
  BY <1>8, <1>9, <1>10, <1>11, <1>12, <1>17 DEF Network
<1>18. CASE Checkpoint
  BY <1>13, <1>14, <1>18 DEF Checkpoint
<1> QED BY <1>15, <1>16, <1>17, <1>18 DEF Next

(* Inv is an invariant of the specification.                                *)
THEOREM Invariance == Spec => []Inv
  BY InitInv, StepInv, PTL DEF Spec

(* Types, the sniff limit and the round limit hold in every reachable       *)
(* state, for every send buffer and any limits (appendEgressL7Prefix,       *)
(* classifyEgressL7).                                                       *)
THEOREM TypeCorrect == Spec => []TypeOK
<1>1. Inv => TypeOK
  BY DEF Inv
<1> QED BY Invariance, <1>1, PTL

(* "While egressL7Hold is set, no queued stream byte may be emitted": a     *)
(* gated flow sends nothing before the host's allow, whatever the writers,  *)
(* the timers, path MTU changes and checkpoints do (sendData, afterLoad).   *)
THEOREM NothingBeforeAllow == Spec => []ClassifiedFirst
<1>1. Inv => ClassifiedFirst
  BY DEF Inv, Good, ClassifiedFirst, TypeOK, Endpoint
<1> QED BY Invariance, <1>1, PTL

(* "At stream EOF, need-more is a denial": no flow is left undecided behind *)
(* its own FIN (shutdownLocked).                                            *)
THEOREM EOFIsDecided == Spec => []EOFDecides
<1>1. Inv => EOFDecides
  BY DEF Inv, Good, EOFDecides
<1> QED BY Invariance, <1>1, PTL

(* A gated stack keeps a gate over any chain of checkpoints and restores,   *)
(* donated or not (Stack.afterLoad).                                        *)
THEOREM GateSurvivesRestore == Spec => []GateNeverLost
<1>1. Inv => GateNeverLost
  BY DEF Inv, GateNeverLost
<1> QED BY Invariance, <1>1, PTL

(* No payload leaves a gated stack on a flow that this incarnation's gate   *)
(* was not asked about (Endpoint.Restore, connect).                         *)
THEOREM EveryIncarnationApproves == Spec => []CurrentGateApproved
<1>1. Inv => CurrentGateApproved
  BY DEF Inv, Approved, CurrentGateApproved
<1> QED BY Invariance, <1>1, PTL

(* A flow checkpointed under the hold never sends again once restored       *)
(* (afterLoad, egressL7Terminate).                                          *)
THEOREM HeldFlowsEnd == Spec => []HeldNeverResumes
<1>1. Inv => HeldNeverResumes
  BY DEF Inv, Good, HeldNeverResumes
<1> QED BY Invariance, <1>1, PTL

-----------------------------------------------------------------------------
(* The order of the stream.  What has left is closed downwards, and an      *)
(* empty segment, the FIN, is the last one.  Everything acknowledged has    *)
(* left and, unless the flow is held, everything before writeNext: a held   *)
(* flow may have its writeNext anywhere, the release rewinds it.            *)
Down(S) == \A i \in S : \A j \in 1 .. i : j \in S
FinLast(e) ==
  \A i \in 1 .. Len(e.segs) : e.segs[i] = <<>> => i = Len(e.segs) /\ e.sndClosed
Left(e, n) == \A j \in 1 .. n : j \in e.sent
Base(e) == Down(e.sent) /\ FinLast(e) /\ (e.state \in Active => Left(e, e.una))

Order(e) ==
  /\ Base(e)
  /\ e.state \in Active /\ ~e.hold =>
       Left(e, IF e.next = 0 THEN Len(e.segs) ELSE e.next - 1)

(* The newest segment may still be unnoticed by writeNext.                  *)
Pushed(e) ==
  /\ Base(e)
  /\ e.state \in Active /\ ~e.hold =>
       Left(e, IF e.next = 0 THEN Len(e.segs) - 1 ELSE e.next - 1)

(* Two endpoints that do not differ in what Order is about.                 *)
SameOrder(x, e) ==
  /\ x.sent = e.sent /\ x.segs = e.segs /\ x.sndClosed = e.sndClosed
  /\ x.una = e.una

(* sendData: the segments from writeNext on leave, in order.                *)
LEMMA TransmitOrder ==
  ASSUME NEW e, Typed(e), Order(e), NEW k \in Nat, e.state \in Active
  PROVE  Order(Transmit(e, k))
<1> DEFINE last == IF e.next + k - 1 < Len(e.segs) THEN e.next + k - 1
                                                   ELSE Len(e.segs)
           next == IF last = Len(e.segs) THEN 0 ELSE last + 1
           sent == e.sent \cup e.next .. last
           here == e.here \/ \E i \in e.next .. last : e.segs[i] # <<>>
           t    == [e EXCEPT !.next = next, !.sent = sent, !.here = here]
<1>1. CASE e.hold \/ e.next = 0
  BY <1>1, TransmitIdle
<1>2. CASE ~(e.hold \/ e.next = 0)
  <2>1. Transmit(e, k) = t
    BY <1>2 DEF Transmit
  <2>2. /\ Len(e.segs) \in Nat /\ e.next \in 1 .. Len(e.segs) /\ e.una \in Nat
        /\ e.sent \subseteq Nat
    BY <1>2 DEF Typed, Endpoint
  <2>3. last \in Nat /\ last <= Len(e.segs) /\ e.next - 1 <= last
    BY <2>2
  <2>4. /\ t.next = next /\ t.sent = sent /\ t.segs = e.segs /\ t.una = e.una
        /\ t.hold = e.hold /\ t.state = e.state /\ t.sndClosed = e.sndClosed
    <3> HIDE DEF last, next, sent, here
    <3> QED BY DEF Typed, Endpoint
  <2>5. \A j \in 1 .. e.next - 1 : j \in e.sent
    BY <1>2 DEF Order, Left
  <2>6. \A j \in 1 .. last : j \in sent
    <3> HIDE DEF last
    <3> QED BY <2>2, <2>3, <2>5
  <2>7. Down(sent)
    <3> HIDE DEF last
    <3> SUFFICES ASSUME NEW i \in sent, NEW j \in 1 .. i PROVE j \in sent
      BY DEF Down
    <3>1. CASE i \in e.sent
      BY <3>1 DEF Order, Base, Down
    <3>2. CASE i \in e.next .. last
      BY <2>2, <2>3, <2>6, <3>2
    <3> QED BY <3>1, <3>2
  <2>8. (IF next = 0 THEN Len(e.segs) ELSE next - 1) = last
    BY <2>3
  <2> HIDE DEF last, next, sent, here, t
  <2>9. Order(t)
    <3>1. Base(t)
      BY <2>4, <2>7, <2>2 DEF Order, Base, FinLast, Left, sent
    <3> QED BY <3>1, <2>4, <2>6, <2>8 DEF Order, Left
  <2> QED BY <2>1, <2>9
<1> QED BY <1>1, <1>2

(* Moving writeNext back to where everything before it has left.            *)
LEMMA NextOrder ==
  ASSUME NEW e, Typed(e), Base(e), NEW k \in Nat, e.state \in Active,
         NEW n \in Nat, n <= Len(e.segs),
         e.hold \/ Left(e, IF n = 0 THEN Len(e.segs) ELSE n - 1)
  PROVE  Order(Transmit([e EXCEPT !.next = n], k))
<1> DEFINE x == [e EXCEPT !.next = n]
<1>1. /\ Typed(x) /\ x.state = e.state /\ x.hold = e.hold /\ x.next = n
      /\ SameOrder(x, e)
  BY DEF Typed, Endpoint, SameOrder
<1>2. Order(x)
  <2> HIDE DEF x
  <2> QED BY <1>1 DEF Order, Base, FinLast, Left, SameOrder
<1> HIDE DEF x
<1>3. Order(Transmit(x, k))
  BY <1>1, <1>2, TransmitOrder
<1> QED BY <1>3 DEF x

(* Starting again from the front skips nothing.                             *)
LEMMA FrontOrder ==
  ASSUME NEW e, Typed(e), Base(e), e.state \in Active
  PROVE  /\ FrontSeg(e) \in Nat /\ FrontSeg(e) <= Len(e.segs)
         /\ Left(e, IF FrontSeg(e) = 0 THEN Len(e.segs) ELSE FrontSeg(e) - 1)
<1>1. Len(e.segs) \in Nat /\ e.una \in Nat /\ e.una <= Len(e.segs)
  BY DEF Typed, Endpoint
<1>2. /\ FrontSeg(e) \in Nat /\ FrontSeg(e) <= Len(e.segs)
      /\ (IF FrontSeg(e) = 0 THEN Len(e.segs) ELSE FrontSeg(e) - 1) = e.una
  BY <1>1 DEF FrontSeg
<1>3. Left(e, e.una)
  BY DEF Base
<1> QED BY <1>1, <1>3 DEF FrontSeg, Left

(* sendData keeps the order.                                                *)
LEMMA SendDataOrder ==
  ASSUME NEW e, Typed(e), Pushed(e), NEW k \in Nat, e.state \in Active
  PROVE  Order(SendData(e, k))
<1>1. Len(e.segs) \in Nat /\ e.next \in Nat
  BY DEF Typed, Endpoint
<1>2. CASE e.next = 0
  <2>1. PICK n \in Nat : n = Len(e.segs)
    BY <1>1
  <2>2. SendData(e, k) = Transmit([e EXCEPT !.next = n], k)
    BY <1>2, <2>1 DEF SendData
  <2>3. e.hold \/ Left(e, IF n = 0 THEN Len(e.segs) ELSE n - 1)
    BY <1>2, <2>1 DEF Pushed, Left
  <2>4. Base(e) /\ n <= Len(e.segs)
    BY <2>1 DEF Pushed
  <2> QED BY <2>2, <2>3, <2>4, NextOrder
<1>3. CASE e.next # 0
  <2>1. Order(e)
    BY <1>3 DEF Pushed, Order
  <2> QED BY <1>3, <2>1, TransmitOrder DEF SendData
<1> QED BY <1>2, <1>3

-----------------------------------------------------------------------------
(* A reset, or a close, keeps the order.                                    *)
LEMMA ResetOrder ==
  ASSUME NEW e, Typed(e), Base(e), NEW st \in {"Error", "Close"}
  PROVE  Order([Purge(e) EXCEPT !.state = st])
<1> DEFINE q == [e EXCEPT !.segs = <<>>, !.una = 0, !.next = 0, !.used = 0,
                          !.sndClosed = TRUE]
           p == Purge(e)
           x == [p EXCEPT !.state = st]
<1>1. q.sent = e.sent /\ q.segs = <<>> /\ q.sndClosed = TRUE
  BY DEF Typed, Endpoint
<1>2. p = e \/ p = q
  BY DEF Purge
<1>3. p.sent = e.sent /\ FinLast(p)
  <2>1. FinLast(q)
    BY <1>1 DEF FinLast
  <2> HIDE DEF q, p
  <2> QED BY <1>1, <1>2, <2>1 DEF Base
<1>4. Typed(p)
  BY PurgeTyped
<1>5. x.state = st /\ x.sent = p.sent /\ x.segs = p.segs /\ x.sndClosed = p.sndClosed
  <2> HIDE DEF p
  <2> QED BY <1>4 DEF Typed, Endpoint
<1> HIDE DEF x, p
<1>6. Order(x)
  BY <1>3, <1>5 DEF Order, Base, FinLast
<1> QED BY <1>6 DEF x, p

(* classifyEgressL7: a denied flow is purged, a held one waits, and a       *)
(* released one starts from the front of the write list.                    *)
LEMMA ClassifyOrder ==
  ASSUME NEW e, Typed(e), Pending(e), Base(e), NEW final \in BOOLEAN, NEW v
  PROVE  LET c == Classify(e, final, v)
         IN  Order(c) /\ (c.state # "Error" => SameOrder(c, e))
<1> DEFINE a == [e EXCEPT !.rounds = @ + 1, !.seen = e.prefix]
           h == [a EXCEPT !.hold = TRUE]
           ok(c) == Order(c) /\ (c.state # "Error" => SameOrder(c, e))
<1>1. ASSUME NEW x, Typed(x), SameOrder(x, e), x.state = e.state
      PROVE  /\ ok(Deny(x)) /\ ok(Release(x))
  <2> DEFINE d == Decided(x)
             r == [d EXCEPT !.next = FrontSeg(x), !.allowed = TRUE, !.by = "gate"]
  <2>1. Typed(d) /\ SameOrder(d, e) /\ d.state = e.state /\ ~d.hold
    <3>1. d.sndClosed = x.sndClosed
      BY <1>1 DEF Decided, Typed, Endpoint
    <3> QED BY <1>1, <3>1, DecidedTyped DEF SameOrder
  <2>2. Base(d) /\ Base(x)
    BY <1>1, <2>1 DEF Base, FinLast, Left, SameOrder
  <2>3. Order(Deny(x)) /\ Deny(x).state = "Error"
    <3>1. Order([Purge(d) EXCEPT !.state = "Error"])
      <4> HIDE DEF d
      <4> QED BY <2>1, <2>2, ResetOrder
    <3>2. Deny(x) = [Purge(d) EXCEPT !.state = "Error"]
      BY DEF Deny, Reset
    <3>3. Reset(d).state = "Error"
      <4> HIDE DEF d
      <4> QED BY <2>1, ResetTyped
    <3> QED BY <3>1, <3>2, <3>3 DEF Reset
  <2>4. /\ r.next = FrontSeg(x) /\ SameOrder(r, e) /\ r.hold = d.hold
        /\ r.state = d.state
    <3> HIDE DEF d
    <3> QED BY <2>1 DEF Typed, Endpoint, SameOrder
  <2>5. /\ x.state \in Active
        /\ Left(x, IF FrontSeg(x) = 0 THEN Len(x.segs) ELSE FrontSeg(x) - 1)
    BY <1>1, <2>2, FrontOrder DEF Pending
  <2>6. Order(r)
    <3> HIDE DEF r, d
    <3> QED BY <1>1, <2>1, <2>2, <2>4, <2>5 DEF Order, Base, FinLast, Left, SameOrder
  <2>7. Release(x) = r
    BY DEF Release
  <2> HIDE DEF r, d
  <2> QED BY <2>3, <2>4, <2>6, <2>7
<1>2. SameOrder(e, e)
  BY DEF SameOrder
<1>3. CASE e.rounds >= MaxRounds \/ gate = "nil"
  <2>1. Classify(e, final, v) = Deny(e)
    BY <1>3 DEF Classify, Pending
  <2> QED BY <1>1, <1>2, <2>1
<1>4. CASE ~(e.rounds >= MaxRounds \/ gate = "nil")
  <2>1. Classify(e, final, v) \in {Deny(a), Release(a), h}
    BY <1>4 DEF Classify, NoMore, Pending
  <2>2. e.rounds + 1 \in 0 .. MaxRounds
    BY <1>4 DEF Typed, Endpoint
  <2>3. Typed(a) /\ SameOrder(a, e) /\ a.state = e.state
    BY <2>2 DEF Typed, Endpoint, SameOrder
  <2>4. SameOrder(h, e) /\ h.state = e.state /\ h.hold
    BY <2>2 DEF Typed, Endpoint, SameOrder
  <2>5. ok(h)
    <3> HIDE DEF h
    <3> QED BY <2>4 DEF Order, Base, FinLast, Left, SameOrder
  <2>6. ok(Deny(a)) /\ ok(Release(a))
    <3> HIDE DEF a
    <3> QED BY <1>1, <2>3
  <2> HIDE DEF a, h, ok
  <2>7. ok(Classify(e, final, v))
    BY <2>1, <2>5, <2>6
  <2> QED BY <2>7 DEF ok
<1> QED BY <1>3, <1>4

-----------------------------------------------------------------------------
(* Write appends a segment that is not empty, to a queue without a FIN.     *)
LEMMA AppendOrder ==
  ASSUME NEW e, Typed(e), Order(e), ~e.sndClosed, NEW seg \in Seq(Writers),
         NEW x, x.segs = Append(e.segs, seg), x.sent = e.sent, x.una = e.una,
         x.next = e.next, x.hold = e.hold, x.state \in Active, e.state \in Active,
         seg # <<>> \/ x.sndClosed
  PROVE  Pushed(x)
<1>1. /\ e.segs \in Seq(Seq(Writers)) /\ Len(x.segs) = Len(e.segs) + 1
      /\ \A i \in 1 .. Len(e.segs) : x.segs[i] = e.segs[i]
      /\ x.segs[Len(e.segs) + 1] = seg /\ Len(e.segs) \in Nat
  BY DEF Typed, Endpoint
<1>2. \A i \in 1 .. Len(e.segs) : e.segs[i] # <<>>
  BY DEF Order, Base, FinLast
<1>3. FinLast(x)
  BY <1>1, <1>2 DEF FinLast
<1>4. Base(x)
  BY <1>3 DEF Order, Base, Left
<1>5. x.state \in Active /\ ~x.hold =>
        Left(x, IF x.next = 0 THEN Len(x.segs) - 1 ELSE x.next - 1)
  BY <1>1 DEF Order, Left
<1> QED BY <1>4, <1>5 DEF Pushed

(* The second half of Write keeps the order.                                *)
LEMMA WriteOrder ==
  ASSUME EpInv(ep, gate), Order(ep), NEW w \in Writers, NEW n \in Nat \ {0}, NEW v,
         NEW k \in Nat, FinishWrite(w, n, v, k)
  PROVE  Order(ep')
<1> DEFINE size == IF n < Avail(ep) THEN n ELSE Avail(ep)
           seg  == [i \in 1 .. size |-> w]
           q    == [ep EXCEPT !.segs = Append(@, seg), !.used = @ + size]
           c    == IF q.req THEN Classify(AppendPrefix(q, seg), FALSE, v) ELSE q
<1> SUFFICES ASSUME Writable(ep)
             PROVE  Order(ep')
  BY DEF FinishWrite
<1>1. ep' = IF c.state = "Error" \/ c.hold THEN c ELSE SendData(c, k)
  BY DEF FinishWrite
<1>2. ep.state \in Connected /\ ep.used \in Int /\ Typed(ep) /\ ~ep.sndClosed
  BY DEF Writable, EpInv, Typed, Endpoint
<1>3. size \in Nat \ {0}
  BY <1>2 DEF Avail, Writable
<1>4. seg \in Seq(Writers) /\ seg # <<>> /\ ep.used + size \in Int
  <2>1. seg \in Seq(Writers) /\ Len(seg) = size
    <3> HIDE DEF size
    <3> QED BY <1>3
  <2>2. Len(<<>>) = 0
    OBVIOUS
  <2>3. seg # <<>>
    <3> HIDE DEF seg, size
    <3> QED BY <1>3, <2>1, <2>2
  <2> HIDE DEF seg, size
  <2> QED BY <1>2, <1>3, <2>1, <2>3
<1>5. /\ Typed(q) /\ q.state = ep.state /\ q.req = ep.req
      /\ q.hold = ep.hold /\ Kept(q, ep)
  <2> HIDE DEF seg, size
  <2> QED BY <1>2, <1>4, QueueTyped
<1>6. /\ q.segs = Append(ep.segs, seg) /\ q.sent = ep.sent /\ q.una = ep.una
      /\ q.next = ep.next
  <2> HIDE DEF seg, size
  <2> QED BY <1>2 DEF Typed, Endpoint
<1>7. Pushed(q)
  <2> HIDE DEF q, seg, size
  <2> QED BY <1>2, <1>4, <1>5, <1>6, AppendOrder
<1>8. CASE ep.req
  <2> DEFINE a == AppendPrefix(q, seg)
  <2>1. Pending(q)
    <3>1. Pending(ep)
      BY <1>2, <1>8, ReqPending
    <3> HIDE DEF q
    <3> QED BY <3>1, <1>5 DEF Pending, Kept
  <2>2. c = Classify(a, FALSE, v) /\ FALSE \in BOOLEAN
    <3> HIDE DEF q
    <3> QED BY <1>5, <1>8
  <2>3. Typed(a) /\ Pending(a)
    <3> HIDE DEF q, seg
    <3> QED BY <1>4, <1>5, <2>1, AppendPrefixPending
  <2>4. SameOrder(a, q) /\ a.state = q.state
    <3> HIDE DEF q, seg
    <3> QED BY <1>5 DEF AppendPrefix, SameOrder, Typed, Endpoint
  <2>5. Base(a)
    <3> HIDE DEF a, q
    <3> QED BY <1>7, <2>4 DEF Pushed, Base, FinLast, Left, SameOrder
  <2>6. Order(c) /\ (c.state # "Error" => SameOrder(c, a))
    <3> HIDE DEF a, c
    <3> QED BY <2>2, <2>3, <2>5, ClassifyOrder
  <2>7. Typed(c) /\ c.state \in {"Established", "Error"}
    <3> HIDE DEF a, c
    <3> QED BY <2>2, <2>3, ClassifyGood, ZenonT(60)
  <2>8. Pushed(c)
    <3> HIDE DEF c
    <3>1. c.next \in Nat /\ Len(c.segs) \in Nat
      BY <2>7 DEF Typed, Endpoint
    <3> QED BY <2>6, <3>1 DEF Order, Pushed, Left
  <2> HIDE DEF c
  <2> QED BY <1>1, <2>6, <2>7, <2>8, SendDataOrder
<1>9. CASE ~ep.req
  <2>1. c = q
    <3> HIDE DEF q
    <3> QED BY <1>5, <1>9
  <2>2. ~(c.state = "Error" \/ c.hold)
    <3>1. ~ep.hold
      BY <1>9 DEF EpInv, Good
    <3> HIDE DEF q, c
    <3> QED BY <1>2, <1>5, <2>1, <3>1
  <2> HIDE DEF c, q
  <2> QED BY <1>1, <1>2, <1>5, <1>7, <2>1, <2>2, SendDataOrder
<1> QED BY <1>8, <1>9

(* shutdownLocked queues the FIN last.                                      *)
LEMMA ShutdownOrder ==
  ASSUME EpInv(ep, gate), Order(ep), NEW flags \in SUBSET {"R", "W"}, NEW unread,
         NEW v, NEW k \in Nat, Shutdown(flags, unread, v, k)
  PROVE  Order(ep')
<1> DEFINE s == [ep EXCEPT !.shut = @ \cup flags]
           c == Final(s, v)
           f == [c EXCEPT !.segs = Append(@, <<>>), !.state = "FinWait",
                          !.sndClosed = TRUE]
<1>1. Typed(ep) /\ Base(ep)
  BY DEF EpInv, Order
<1>2. CASE ep.state \in Handshake
  <2>1. ep' = [Purge(ep) EXCEPT !.state = "Error"]
    BY <1>2 DEF Shutdown, Reset
  <2> QED BY <1>1, <2>1, ResetOrder
<1>3. CASE ep.state \in Connected
  <2>1. /\ EpInv(s, gate) /\ s.state = ep.state /\ SameOrder(s, ep)
        /\ s.hold = ep.hold /\ s.next = ep.next
    <3>1. /\ Typed(s) /\ s.state = ep.state /\ Kept(s, ep) /\ SameOrder(s, ep)
          /\ s.next = ep.next
      BY <1>1 DEF Typed, Endpoint, Kept, SameOrder
    <3> HIDE DEF s
    <3> QED BY <1>3, <3>1 DEF EpInv, Good, Approved, Kept, SameOrder
  <2>2. Order(s)
    <3> HIDE DEF s
    <3> QED BY <2>1 DEF Order, Base, FinLast, Left, SameOrder
  <2>3. EpInv(c, gate) /\ c.state \in Connected \cup {"Error"}
    <3> HIDE DEF s
    <3> QED BY <1>3, <2>1, FinalInv
  <2>4. Order(c)
    <3> HIDE DEF s
    <3>1. CASE "W" \in s.shut /\ s.req
      <4>1. Pending(s) /\ Typed(s) /\ Base(s) /\ TRUE \in BOOLEAN
        BY <1>3, <2>1, <2>2, <3>1, ReqPending DEF EpInv, Order
      <4>2. Order(Classify(s, TRUE, v))
        BY <4>1, ClassifyOrder
      <4> QED BY <3>1, <4>2 DEF Final
    <3>2. CASE ~("W" \in s.shut /\ s.req)
      BY <2>2, <3>2 DEF Final, Classify
    <3> QED BY <3>1, <3>2
  <2>5. \/ ep' \in {c, Reset(c)}
        \/ ep' = SendData(f, k) /\ ~c.sndClosed /\ c.state # "Error"
    <3>1. ep' = IF ep.state \in Handshake THEN Reset(ep)
                ELSE IF c.state = "Error" THEN c
                ELSE IF c.shut = {"R", "W"} /\ unread THEN Reset(c)
                ELSE IF "W" \in c.shut /\ ~c.sndClosed THEN SendData(f, k)
                ELSE c
      BY DEF Shutdown
    <3> HIDE DEF c, f
    <3> QED BY <1>3, <3>1
  <2>6. Order(Reset(c))
    <3> HIDE DEF c
    <3> QED BY <2>3, <2>4, ResetOrder DEF Reset, EpInv, Order
  <2>7. ASSUME ~c.sndClosed, c.state # "Error"
        PROVE  Order(SendData(f, k))
    <3> DEFINE z == Append(c.segs, <<>>)
    <3>1. Typed(c) /\ <<>> \in Seq(Writers) /\ c.state \in Connected
      <4> HIDE DEF c
      <4> QED BY <2>3, <2>7 DEF EpInv
    <3>2. z \in Seq(Seq(Writers)) /\ c.una <= Len(z) /\ c.next <= Len(z)
      <4> HIDE DEF c
      <4> QED BY <3>1 DEF Typed, Endpoint
    <3>3. /\ Typed(f) /\ f.segs = z /\ f.sent = c.sent /\ f.una = c.una
          /\ f.next = c.next /\ f.hold = c.hold /\ f.state = "FinWait"
          /\ f.sndClosed
      <4> DEFINE y == [c EXCEPT !.segs = z, !.state = "FinWait", !.sndClosed = TRUE]
      <4>1. /\ Typed(y) /\ y.segs = z /\ y.sent = c.sent /\ y.una = c.una
            /\ y.next = c.next /\ y.hold = c.hold /\ y.state = "FinWait"
            /\ y.sndClosed
        <5> HIDE DEF c, z
        <5> QED BY <3>1, <3>2 DEF Typed, Endpoint
      <4> QED BY <4>1
    <3> HIDE DEF c, f
    <3>4. Pushed(f)
      BY <2>4, <2>7, <3>1, <3>3, AppendOrder
    <3> QED BY <3>3, <3>4, SendDataOrder
  <2> HIDE DEF c, f
  <2> QED BY <2>4, <2>5, <2>6, <2>7
<1> QED BY <1>2, <1>3 DEF Shutdown

(* Acknowledgements, timers and path MTU changes.                           *)
LEMMA AckOrder ==
  ASSUME EpInv(ep, gate), Order(ep), NEW k \in Nat, Ack(k)
  PROVE  Order(ep')
<1>1. Typed(ep) /\ Base(ep) /\ ep.state \in Connected
  BY DEF EpInv, Order, Ack
<1>2. CASE ep' = Transmit(ep, k)
  BY <1>1, <1>2, TransmitOrder
<1>3. CASE Outstanding(ep) /\ ep' = Transmit(AckOne(ep), k)
  <2> DEFINE u == ep.used - LogicalLen(ep.segs[ep.una + 1])
             a == [ep EXCEPT !.una = @ + 1, !.used = u]
  <2>1. /\ ep.segs \in Seq(Seq(Writers)) /\ ep.una \in Nat /\ ep.used \in Int
        /\ ep.una < Len(ep.segs) /\ ep.una + 1 \in ep.sent /\ Len(ep.segs) \in Nat
    BY <1>1, <1>3 DEF Typed, Endpoint, Outstanding
  <2>2. u \in Int /\ ep.una + 1 \in Nat /\ ep.una + 1 <= Len(ep.segs)
    <3>1. ep.una + 1 \in 1 .. Len(ep.segs)
      BY <2>1
    <3>2. ep.segs[ep.una + 1] \in Seq(Writers)
      BY <2>1, <3>1
    <3>3. Len(ep.segs[ep.una + 1]) \in Nat
      BY <3>2
    <3>4. LogicalLen(ep.segs[ep.una + 1]) \in Nat
      BY <3>3 DEF LogicalLen
    <3> QED BY <2>1, <3>1, <3>4
  <2>3. /\ a.una = ep.una + 1 /\ a.segs = ep.segs /\ a.prefix = ep.prefix
        /\ a.next = ep.next /\ a.state = ep.state /\ a.sent = ep.sent
        /\ a.hold = ep.hold /\ a.sndClosed = ep.sndClosed
    <3> HIDE DEF u
    <3> QED BY <1>1 DEF Typed, Endpoint
  <2>4. a \in Endpoint
    <3>1. ASSUME NEW n \in Nat, NEW i \in Int
          PROVE  [ep EXCEPT !.una = n, !.used = i] \in Endpoint
      BY <1>1 DEF Typed, Endpoint
    <3> HIDE DEF u
    <3> QED BY <2>2, <3>1
  <2>5. Typed(a)
    <3> HIDE DEF a
    <3> QED BY <1>1, <2>2, <2>3, <2>4 DEF Typed
  <2>6. Left(ep, ep.una + 1)
    BY <1>1, <2>1 DEF Base, Down, Left
  <2>7. Base(a) /\ Order(a)
    <3> HIDE DEF a
    <3> QED BY <1>1, <2>3, <2>6 DEF Order, Base, FinLast, Left
  <2>8. AckOne(ep) = a \/ AckOne(ep) = [a EXCEPT !.next = FrontSeg(a)]
    BY DEF AckOne
  <2> HIDE DEF a
  <2>9. Order(Transmit(a, k))
    BY <1>1, <2>3, <2>5, <2>7, TransmitOrder
  <2>10. /\ FrontSeg(a) \in Nat /\ FrontSeg(a) <= Len(a.segs)
         /\ Left(a, IF FrontSeg(a) = 0 THEN Len(a.segs) ELSE FrontSeg(a) - 1)
    BY <1>1, <2>3, <2>5, <2>7, FrontOrder
  <2>11. Order(Transmit([a EXCEPT !.next = FrontSeg(a)], k))
    BY <1>1, <2>3, <2>5, <2>7, <2>10, NextOrder
  <2> QED BY <1>3, <2>8, <2>9, <2>11
<1> QED BY <1>2, <1>3 DEF Ack

(* The retransmission timer keeps the order.                                *)
LEMMA RetransmitOrder ==
  ASSUME EpInv(ep, gate), Order(ep), NEW k \in Nat, RetransmitTimer(k)
  PROVE  Order(ep')
<1>1. Typed(ep) /\ Base(ep) /\ ep.state \in Active
  BY DEF EpInv, Order, RetransmitTimer
<1>2. /\ FrontSeg(ep) \in Nat /\ FrontSeg(ep) <= Len(ep.segs)
      /\ Left(ep, IF FrontSeg(ep) = 0 THEN Len(ep.segs) ELSE FrontSeg(ep) - 1)
  BY <1>1, FrontOrder
<1>3. Order(Transmit([ep EXCEPT !.next = FrontSeg(ep)], k))
  BY <1>1, <1>2, NextOrder
<1> QED BY <1>3 DEF RetransmitTimer

(* A path MTU change keeps the order.                                       *)
LEMMA PathMTUOrder ==
  ASSUME EpInv(ep, gate), Order(ep), NEW m, NEW k \in Nat, PathMTU(m, k)
  PROVE  Order(ep')
<1>1. Typed(ep) /\ Base(ep) /\ ep.state \in Active
  BY DEF EpInv, Order, PathMTU
<1>2. CASE ep' = Transmit(ep, k)
  BY <1>1, <1>2, TransmitOrder
<1>3. CASE ~(ep' = Transmit(ep, k))
  <2>1. PICK i \in ep.una + 1 .. IF ep.next = 0 THEN Len(ep.segs) ELSE ep.next - 1 :
          ep' = Transmit([ep EXCEPT !.next = i], k)
    BY <1>3 DEF PathMTU
  <2>2. i \in Nat /\ i <= Len(ep.segs) /\ i # 0
    BY <1>1 DEF Typed, Endpoint
  <2>3. ep.hold \/ Left(ep, IF i = 0 THEN Len(ep.segs) ELSE i - 1)
    <3>1. /\ ep.una \in Nat /\ ep.next \in Nat /\ Len(ep.segs) \in Nat
      BY <1>1 DEF Typed, Endpoint
    <3> QED BY <1>1, <2>2, <3>1 DEF Order, Left
  <2> QED BY <1>1, <2>1, <2>2, <2>3, NextOrder
<1> QED BY <1>2, <1>3

(* The ends of a connection, and its beginning with an empty queue.         *)
LEMMA OpenOrder ==
  ASSUME EpInv(ep, gate), Order(ep),
         Establish \/ Accept \/ Abort \/ Finish \/ \E ok \in BOOLEAN : Connect(ok)
  PROVE  Order(ep')
<1>1. Typed(ep) /\ Base(ep)
  BY DEF EpInv, Order
<1>2. ASSUME NEW x, x.segs = <<>>, x.sent = {}, x.una = 0, x.next = 0
      PROVE  Order(x)
  BY <1>2 DEF Order, Base, Down, FinLast, Left
<1>3. CASE Establish
  <2>1. /\ ep.state \in Active /\ ep'.state = "Established" /\ SameOrder(ep', ep)
        /\ ep'.hold = ep.hold /\ ep'.next = ep.next
    BY <1>1, <1>3 DEF Establish, SameOrder, Typed, Endpoint
  <2> QED BY <2>1 DEF Order, Base, FinLast, Left, SameOrder
<1>4. CASE Accept
  <2>1. ep'.segs = <<>> /\ ep'.sent = {} /\ ep'.una = 0 /\ ep'.next = 0
    BY <1>4 DEF Accept, NewEndpoint
  <2> QED BY <1>2, <2>1
<1>5. CASE Abort \/ Finish
  BY <1>1, <1>5, ResetOrder DEF Abort, Finish, Reset
<1>6. ASSUME NEW ok \in BOOLEAN, Connect(ok)
      PROVE  Order(ep')
  <2>1. \/ ep' = ep
        \/ ep'.segs = <<>> /\ ep'.sent = {} /\ ep'.una = 0 /\ ep'.next = 0
    BY <1>1, <1>6 DEF Connect, Typed, Endpoint
  <2> QED BY <1>2, <2>1
<1> QED BY <1>3, <1>4, <1>5, <1>6

-----------------------------------------------------------------------------
(* beforeSave, and a restore of what it left.                               *)
LEMMA SaveOrder ==
  ASSUME NEW e, Typed(e), Order(e), NEW resume, NEW keep
  PROVE  Order(BeforeSave(e, resume, keep))
<1>1. ASSUME NEW b \in BOOLEAN
      PROVE  LET x == [e EXCEPT !.term = b] IN Typed(x) /\ Order(x) /\ Base(x)
  <2> DEFINE x == [e EXCEPT !.term = b]
  <2>1. /\ Typed(x) /\ x.state = e.state /\ x.hold = e.hold /\ x.next = e.next
        /\ SameOrder(x, e)
    BY DEF Typed, Endpoint, SameOrder
  <2> HIDE DEF x
  <2>2. Order(x)
    BY <2>1 DEF Order, Base, FinLast, Left, SameOrder
  <2> QED BY <2>1, <2>2 DEF Order, x
<1>2. Order([e EXCEPT !.term = TRUE]) /\ Order([e EXCEPT !.term = FALSE])
  BY <1>1
<1>3. Order(Reset([e EXCEPT !.term = FALSE]))
  BY <1>1, ResetOrder DEF Reset
<1> QED BY <1>2, <1>3 DEF BeforeSave

(* A restored endpoint continues in order.                                  *)
LEMMA RestoreOrder ==
  ASSUME NEW e, Typed(e), Good(e), Order(e), NEW l \in BOOLEAN,
         NEW g, NEW route \in BOOLEAN, NEW ok \in BOOLEAN
  PROVE  Order(RestoreEndpoint(AfterLoad(e), l, g, route, ok))
<1> DEFINE f == [e EXCEPT !.here = FALSE, !.by = "none", !.held = e.hold]
           x == AfterLoad(e)
<1>1. /\ Typed(x) /\ x.held = e.hold /\ x.state = e.state /\ x.segs = e.segs
      /\ ~x.hold /\ x.sent = e.sent
  BY AfterLoadGood
<1>2. /\ f.una = e.una /\ f.next = e.next /\ f.sndClosed = e.sndClosed
  BY DEF Typed, Endpoint
<1>3. x.una = e.una /\ x.next = e.next /\ x.sndClosed = e.sndClosed
  <2>1. CASE ~e.hold
    BY <1>2, <2>1 DEF AfterLoad
  <2>2. CASE e.hold
    BY <2>2 DEF AfterLoad, Decided, Typed, Endpoint
  <2> QED BY <2>1, <2>2
<1> HIDE DEF f, x
<1>4. Base(x) /\ (~x.held => Order(x))
  BY <1>1, <1>3 DEF Order, Base, FinLast, Left
<1>5. /\ Order(Reset(x)) /\ Order([Purge(x) EXCEPT !.state = "Close"])
  BY <1>1, <1>4, ResetOrder DEF Reset
<1>6. Order(CloseAtRestore(x))
  <2>1. Order([x EXCEPT !.state = "Initial"])
    <3> DEFINE y == [x EXCEPT !.state = "Initial"]
    <3>1. y.state = "Initial" /\ SameOrder(y, x)
      BY <1>1 DEF Typed, Endpoint, SameOrder
    <3> HIDE DEF y
    <3>2. Order(y)
      BY <1>4, <3>1 DEF Order, Base, FinLast, SameOrder
    <3> QED BY <3>2 DEF y
  <2> QED BY <1>5, <2>1 DEF CloseAtRestore
<1>7. ASSUME ~x.held, NEW by
      PROVE  Order([x EXCEPT !.by = by])
  <2> DEFINE y == [x EXCEPT !.by = by]
  <2>1. y.state = x.state /\ y.hold = x.hold /\ y.next = x.next /\ SameOrder(y, x)
    BY <1>1 DEF Typed, Endpoint, SameOrder
  <2> HIDE DEF y
  <2>2. Order(y)
    BY <1>4, <1>7, <2>1 DEF Order, Base, FinLast, Left, SameOrder
  <2> QED BY <2>2 DEF y
<1>8. CASE MustClose(x, l)
  BY <1>6, <1>8 DEF RestoreEndpoint, x
<1>9. CASE ~MustClose(x, l)
  <2>1. ~x.held
    BY <1>9 DEF MustClose
  <2>2. \/ RestoreEndpoint(x, l, g, route, ok) \in
             {CloseAtRestore(x), [Purge(x) EXCEPT !.state = "Close"], Reset(x), x}
        \/ \E by : RestoreEndpoint(x, l, g, route, ok) = [x EXCEPT !.by = by]
    BY <1>9 DEF RestoreEndpoint
  <2>3. Order(RestoreEndpoint(x, l, g, route, ok))
    BY <1>4, <1>5, <1>6, <1>7, <2>1, <2>2
  <2> QED BY <2>3 DEF x
<1> QED BY <1>8, <1>9

-----------------------------------------------------------------------------
(* The order holds of the running endpoint and of the saved one.            *)
OrderInv == Order(ep) /\ Order(image.ep)

(* Nothing was sent at first.                                               *)
LEMMA OrderInit == Init => OrderInv
<1> SUFFICES ASSUME Init PROVE OrderInv
  OBVIOUS
<1>1. ep = NewEndpoint /\ image.ep = NewEndpoint
  BY DEF Init
<1>2. /\ NewEndpoint.segs = <<>> /\ NewEndpoint.sent = {} /\ NewEndpoint.una = 0
      /\ NewEndpoint.next = 0
  BY DEF NewEndpoint
<1>3. Order(NewEndpoint)
  BY <1>2 DEF Order, Base, Down, FinLast, Left
<1> QED BY <1>1, <1>3 DEF OrderInv

(* Every step keeps the order.                                              *)
LEMMA OrderNext == Inv /\ OrderInv /\ [Next]_vars => OrderInv'
<1> SUFFICES ASSUME Inv, OrderInv, [Next]_vars PROVE OrderInv'
  OBVIOUS
<1>1. /\ EpInv(ep, gate) /\ Order(ep) /\ Order(image.ep) /\ Typed(ep)
      /\ Typed(image.ep) /\ Good(image.ep)
  BY DEF Inv, TypeOK, EpInv, Typed, OrderInv
<1>2. \A k \in Windows : k \in Nat
  BY <1>1 DEF Typed, Endpoint, Windows
<1>3. ASSUME Order(ep'), image' = image \/ image'.ep = ep' PROVE OrderInv'
  BY <1>1, <1>3 DEF OrderInv
<1>4. ASSUME NEW ok \in BOOLEAN, Connect(ok) PROVE OrderInv'
  BY <1>1, <1>3, <1>4, OpenOrder DEF Connect
<1>5. ASSUME NEW w \in Writers, StartWrite(w) PROVE OrderInv'
  BY <1>1, <1>3, <1>5 DEF StartWrite
<1>6. ASSUME NEW w \in Writers, NEW n \in 1 .. SndBuf, NEW v, NEW k \in Windows,
             FinishWrite(w, n, v, k)
      PROVE  OrderInv'
  <2>1. n \in Nat \ {0} /\ k \in Nat
    BY <1>2
  <2>2. Order(ep')
    BY <1>1, <1>6, <2>1, WriteOrder
  <2> QED BY <1>3, <1>6, <2>2 DEF FinishWrite
<1>7. ASSUME NEW f \in SUBSET {"R", "W"}, NEW u \in BOOLEAN, NEW v,
             NEW k \in Windows, Shutdown(f, u, v, k)
      PROVE  OrderInv'
  <2>1. Order(ep')
    BY <1>1, <1>2, <1>7, ShutdownOrder
  <2> QED BY <1>3, <1>7, <2>1 DEF Shutdown
<1>8. CASE Establish \/ Accept \/ Abort \/ Finish
  <2>1. Order(ep')
    BY <1>1, <1>8, OpenOrder
  <2> QED BY <1>3, <1>8, <2>1 DEF Establish, Accept, Abort, Finish
<1>9. ASSUME NEW k \in Windows, Ack(k) \/ RetransmitTimer(k) PROVE OrderInv'
  <2>1. Order(ep')
    BY <1>1, <1>2, <1>9, AckOrder, RetransmitOrder
  <2> QED BY <1>3, <1>9, <2>1 DEF Ack, RetransmitTimer
<1>10. ASSUME NEW m, NEW k \in Windows, PathMTU(m, k) PROVE OrderInv'
  <2>1. Order(ep')
    BY <1>1, <1>2, <1>10, PathMTUOrder
  <2> QED BY <1>3, <1>10, <2>1 DEF PathMTU
<1>11. ASSUME NEW r \in BOOLEAN, NEW k \in BOOLEAN, Save(r, k) PROVE OrderInv'
  <2>1. Order(ep') /\ image'.ep = ep'
    BY <1>1, <1>11, SaveOrder DEF Save
  <2> QED BY <1>3, <2>1
<1>12. ASSUME NEW d \in BOOLEAN, NEW l \in BOOLEAN, NEW r \in BOOLEAN,
              NEW ok \in BOOLEAN, Restore(d, l, r, ok)
       PROVE  OrderInv'
  <2>1. \E g : ep' = RestoreEndpoint(AfterLoad(image.ep), l, g, r, ok)
    BY <1>12 DEF Restore
  <2>2. Order(ep')
    BY <1>1, <2>1, RestoreOrder
  <2> QED BY <1>3, <1>12, <2>2 DEF Restore
<1>13. CASE UNCHANGED vars
  BY <1>1, <1>3, <1>13 DEF vars
<1>14. CASE Guest
  BY <1>4, <1>5, <1>6, <1>7, <1>14 DEF Guest
<1>15. CASE Network
  BY <1>8, <1>9, <1>10, <1>15 DEF Network
<1>16. CASE Checkpoint
  BY <1>11, <1>12, <1>16 DEF Checkpoint
<1> QED BY <1>13, <1>14, <1>15, <1>16 DEF Next

(* Segments first leave in the order they were queued, none skipped, and    *)
(* the FIN is the last, for any writers and limits and over any chain of    *)
(* checkpoints: the release rewinds writeNext to the front of the write     *)
(* list, and a timer, an acknowledgement or a path MTU change never moves   *)
(* it past a segment that has not left (sendData, classifyEgressL7).        *)
THEOREM StreamLeavesInOrder == Spec => []StreamInOrder
<1>1. Init => Inv /\ OrderInv
  BY InitInv, OrderInit
<1>2. Inv /\ OrderInv /\ [Next]_vars => (Inv /\ OrderInv)'
  BY StepInv, OrderNext
<1>3. Inv /\ OrderInv => StreamInOrder
  BY DEF OrderInv, Order, Base, Down, FinLast, StreamInOrder
<1> QED BY <1>1, <1>2, <1>3, PTL DEF Spec
=============================================================================
