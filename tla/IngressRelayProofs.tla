-------------------------- MODULE IngressRelayProofs --------------------------
(***************************************************************************)
(* Writing a frame preserves the invariant of IngressRelayLemmas, so it     *)
(* holds throughout; from it follow the safety properties and that the      *)
(* relay implements IngressProtocol.                                        *)
(***************************************************************************)
EXTENDS IngressRelayLemmas

(* Leaves are for Zenon, except where they name another prover.             *)
USE Zenon

-----------------------------------------------------------------------------
(* The write itself.                                                        *)
LEMMA AppendFlow ==
  ASSUME TypeInv, FlowInv, view' = view, NEW f \in RelayFrames, toHost' = Append(toHost, f),
         CanSend(f.id, f.kind)
  PROVE  /\ FlowInv'
         /\ \A d \in Ids : d # f.id => /\ Fresh(d)' <=> Fresh(d)
                                       /\ \A k : CanSend(d, k)' <=> CanSend(d, k)
         /\ \A k : CanSend(f.id, k) /\ k \in Allowed(PhaseOf(f.kind)) => CanSend(f.id, k)'
         /\ f.kind = "DIALOK" /\ Fresh(f.id) => CanSend(f.id, "DATA")'
<1>1. toHost \in Seq(RelayFrames) /\ f.id \in Ids
  BY DEF TypeInv, EnvType, RelayFrames
<1> DEFINE n == Len(toHost)
<1>2. /\ DOMAIN toHost' = 1 .. n + 1 /\ DOMAIN toHost = 1 .. n /\ n \in Nat
      /\ n + 1 \notin DOMAIN toHost /\ toHost'[n + 1] = f
      /\ \A i \in DOMAIN toHost : i \in DOMAIN toHost' /\ toHost'[i] = toHost[i]
      /\ \A i \in DOMAIN toHost' : \/ i \in DOMAIN toHost /\ toHost'[i] = toHost[i]
                                   \/ i = n + 1 /\ toHost'[i] = f
  BY <1>1, AppendedFrame, SMT
<1> HIDE DEF n
<1>3. FlowInv'
  <2>1. \A id \in Ids : view'[id] \in Views
    BY DEF FlowInv
  <2>2. \A i \in DOMAIN toHost' : toHost'[i].kind \in Allowed(view'[toHost'[i].id])
    BY <1>2 DEF FlowInv, CanSend
  <2>3. ASSUME NEW i \in DOMAIN toHost', NEW j \in DOMAIN toHost', i < j,
               toHost'[j].id = toHost'[i].id
        PROVE  toHost'[j].kind \in Allowed(PhaseOf(toHost'[i].kind))
    <3>1. i \in DOMAIN toHost /\ toHost'[i] = toHost[i]
      BY <1>2, <2>3, SMT
    <3>2. CASE j \in DOMAIN toHost /\ toHost'[j] = toHost[j]
      BY <2>3, <3>1, <3>2 DEF FlowInv, Of
    <3>3. CASE toHost'[j] = f
      BY <2>3, <3>1, <3>3 DEF CanSend, Of
    <3> QED
      BY <1>2, <3>2, <3>3
  <2>4. ASSUME NEW i \in DOMAIN toHost', toHost'[i].kind \in {"DATA", "CLOSE_WRITE"},
               view'[toHost'[i].id] = "opening"
        PROVE  \E j \in 1 .. i - 1 : toHost'[j].id = toHost'[i].id /\ toHost'[j].kind = "DIALOK"
    <3>1. CASE i \in DOMAIN toHost /\ toHost'[i] = toHost[i]
      <4>1. PICK j \in 1 .. i - 1 : toHost[j].id = toHost[i].id /\ toHost[j].kind = "DIALOK"
        BY <2>4, <3>1 DEF FlowInv, Of
      <4>2. j \in DOMAIN toHost
        BY <1>2, <3>1, SMT
      <4> QED
        BY <1>2, <3>1, <4>1, <4>2
    <3>2. CASE i = n + 1 /\ toHost'[i] = f
      <4>1. PICK j \in DOMAIN toHost : toHost[j].id = f.id /\ toHost[j].kind = "DIALOK"
        BY <2>4, <3>2 DEF CanSend, Of
      <4>2. j \in 1 .. i - 1
        BY <1>2, <3>2, SMT
      <4> QED
        BY <1>2, <3>2, <4>1, <4>2
    <3> QED
      BY <1>2, <3>1, <3>2
  <2> QED
    BY <2>1, <2>2, <2>3, <2>4 DEF FlowInv, Of
<1>4. ASSUME NEW d \in Ids, d # f.id
      PROVE  /\ Fresh(d)' <=> Fresh(d)
             /\ \A k : CanSend(d, k)' <=> CanSend(d, k)
  <2>1. \A i \in DOMAIN toHost' : toHost'[i].id = d => i \in DOMAIN toHost /\ toHost'[i] = toHost[i]
    BY <1>2, <1>4
  <2>2. Fresh(d)' <=> Fresh(d)
    BY <2>1, <1>2, SMT DEF Fresh, NoFrames, Of
  <2>3. ASSUME NEW k PROVE CanSend(d, k)' <=> CanSend(d, k)
    BY <2>1, <1>2, SMT DEF CanSend, Of
  <2> QED
    BY <2>2, <2>3
<1>5. ASSUME NEW k, CanSend(f.id, k), k \in Allowed(PhaseOf(f.kind))
      PROVE  CanSend(f.id, k)'
  BY <1>2, <1>5, SMT DEF CanSend, Of
<1>6. ASSUME f.kind = "DIALOK", Fresh(f.id) PROVE CanSend(f.id, "DATA")'
  <2>1. view'[f.id] = "opening" /\ \A i \in DOMAIN toHost' : toHost'[i].id = f.id => toHost'[i] = f
    BY <1>2, <1>6 DEF Fresh, NoFrames, Of
  <2>2. n + 1 \in DOMAIN toHost'
    BY <1>2, SMT
  <2> QED
    BY <2>1, <2>2, <1>2, <1>6, AllowedFacts, SMT DEF CanSend, Of, RelayKinds
<1> QED
  BY <1>3, <1>4, <1>5, <1>6

(* The payloads of c after a frame is appended.                             *)
Appends(f) == f \in RelayFrames /\ toHost' = Append(toHost, f) /\ UNCHANGED <<rcvd, cc>>

Places(f, id, n) ==
  /\ DOMAIN toHost' = 1 .. n + 1 /\ DOMAIN toHost = 1 .. n
  /\ toHost'[n + 1] = f
  /\ \A i \in 1 .. n : /\ toHost'[i] = toHost[i]
                       /\ Of(id, i)' <=> Of(id, i)
                       /\ IsData(id, i)' <=> IsData(id, i)
                       /\ \A k : Payload(id, i, k)' <=> Payload(id, i, k)
  /\ Of(id, n + 1)' <=> f.id = id
  /\ IsData(id, n + 1)' <=> f.id = id /\ f.kind = "DATA"
  /\ \A k : Payload(id, n + 1, k)' <=> f.id = id /\ f.kind = "DATA" /\ f.n = k

(* They are where they were, with perhaps a new one at the end.             *)
LEMMA AppendPlaces ==
  ASSUME TypeInv, NEW f, Appends(f), NEW id
  PROVE  \E n \in Nat : Places(f, id, n)
<1>1. toHost \in Seq(RelayFrames) /\ f \in RelayFrames /\ toHost' = Append(toHost, f)
  BY DEF TypeInv, EnvType, Appends
<1>2. PICK n \in Nat : /\ DOMAIN toHost' = 1 .. n + 1 /\ DOMAIN toHost = 1 .. n
                      /\ toHost'[n + 1] = f /\ \A i \in DOMAIN toHost : toHost'[i] = toHost[i]
  <2>1. /\ DOMAIN toHost' = 1 .. Len(toHost) + 1 /\ DOMAIN toHost = 1 .. Len(toHost)
        /\ Len(toHost) \in Nat /\ toHost'[Len(toHost) + 1] = f
        /\ \A i \in DOMAIN toHost : toHost'[i] = toHost[i]
    BY <1>1, AppendedFrame, SMT
  <2> QED
    BY <2>1, Zenon
<1>3. \A i \in 1 .. n : /\ Of(id, i)' <=> Of(id, i)
                        /\ IsData(id, i)' <=> IsData(id, i)
                        /\ \A k : Payload(id, i, k)' <=> Payload(id, i, k)
  BY <1>2 DEF Of, IsData, Payload
<1>4. /\ Of(id, n + 1)' <=> f.id = id
      /\ IsData(id, n + 1)' <=> f.id = id /\ f.kind = "DATA"
      /\ \A k : Payload(id, n + 1, k)' <=> f.id = id /\ f.kind = "DATA" /\ f.n = k
  BY <1>2 DEF Of, IsData, Payload
<1> QED
  BY <1>2, <1>3, <1>4 DEF Places


(* A frame of another connection, or one that is no payload and no          *)
(* half-close of c.                                                         *)
LEMMA AppendOther ==
  ASSUME TypeInv, NEW f, Appends(f), NEW c \in Conns, DataInv(c),
         f.id # Id(c) \/ f.kind \notin {"DATA", "CLOSE_WRITE"},
         Written(c)' = Written(c), Reading(c)' => Reading(c) \/ Written(c) = 0
  PROVE  DataInv(c)'
<1> DEFINE id == Id(c)
           w == Written(c)
<1>P. PICK n \in Nat : Places(f, id, n)
  BY AppendPlaces
<1>1. /\ DOMAIN toHost' = 1 .. n + 1 /\ DOMAIN toHost = 1 .. n
      /\ \A i \in 1 .. n : /\ toHost'[i] = toHost[i]
                           /\ Of(id, i)' <=> Of(id, i)
                           /\ IsData(id, i)' <=> IsData(id, i)
                           /\ \A k : Payload(id, i, k)' <=> Payload(id, i, k)
      /\ Of(id, n + 1)' <=> f.id = id
      /\ IsData(id, n + 1)' <=> f.id = id /\ f.kind = "DATA"
      /\ toHost'[n + 1] = f
  BY <1>P DEF Places
<1>2. rcvd' = rcvd /\ cc' = cc /\ rcvd[id] \in Nat
  <2>1. id \in Ids /\ rcvd \in [Ids -> Nat]
    BY OwnerFacts DEF TypeInv, EnvType
  <2> QED
    BY <2>1 DEF Appends
<1>3. DataInv(c)
  OBVIOUS
<1>4. \A i \in DOMAIN toHost' : IsData(id, i)' => i \in 1 .. n /\ IsData(id, i)
  BY <1>1, SMT
<1>5. \A i \in DOMAIN toHost' : Of(id, i)' /\ toHost'[i].kind = "CLOSE_WRITE" =>
        i \in 1 .. n /\ Of(id, i) /\ toHost[i].kind = "CLOSE_WRITE"
  BY <1>1, SMT
<1>6. \A k : \A i \in 1 .. n : (\E j \in 1 .. i : Payload(id, j, k)) => \E j \in 1 .. i : Payload(id, j, k)'
  BY <1>1, SMT
<1>7. \A k : \A i \in 1 .. n : (\E j \in 1 .. i - 1 : Payload(id, j, k)) =>
                               \E j \in 1 .. i - 1 : Payload(id, j, k)'
  BY <1>1, SMT
<1>8. ASSUME Reading(c)', NEW l \in rcvd[id] + 1 .. w
      PROVE  \E j \in DOMAIN toHost' : Payload(id, j, l)'
  <2>1. Reading(c)
    BY <1>2, <1>8, SMT
  <2>2. \E j \in 1 .. n : Payload(id, j, l)
    BY <2>1, <1>1, <1>8 DEF DataInv
  <2> QED
    BY <1>1, <2>2, SMT
<1>9. /\ rcvd[id] <= w
      /\ \A i \in 1 .. n : IsData(id, i) =>
           /\ rcvd[id] < toHost[i].n /\ toHost[i].n <= w
           /\ \A l \in rcvd[id] + 1 .. toHost[i].n : \E j \in 1 .. i : Payload(id, j, l)
      /\ \A i, j \in 1 .. n :
           IsData(id, i) /\ IsData(id, j) /\ i < j => toHost[i].n < toHost[j].n
      /\ \A i \in 1 .. n :
           Of(id, i) /\ toHost[i].kind = "CLOSE_WRITE" =>
             \A l \in rcvd[id] + 1 .. cc[c].sent : \E j \in 1 .. i - 1 : Payload(id, j, l)
  BY <1>1, <1>3 DEF DataInv
<1>10. Written(c)' = w
  OBVIOUS
<1> HIDE DEF w
<1>11. \A i \in DOMAIN toHost' : IsData(id, i)' =>
         /\ rcvd'[id] < toHost'[i].n /\ toHost'[i].n <= w
         /\ \A l \in rcvd'[id] + 1 .. toHost'[i].n : \E j \in 1 .. i : Payload(id, j, l)'
  BY <1>1, <1>2, <1>4, <1>6, <1>9
<1>12. \A i, j \in DOMAIN toHost' :
         IsData(id, i)' /\ IsData(id, j)' /\ i < j => toHost'[i].n < toHost'[j].n
  BY <1>1, <1>4, <1>9
<1>13. \A i \in DOMAIN toHost' : Of(id, i)' /\ toHost'[i].kind = "CLOSE_WRITE" =>
         \A l \in rcvd'[id] + 1 .. cc'[c].sent : \E j \in 1 .. i - 1 : Payload(id, j, l)'
  BY <1>2, <1>5, <1>7, <1>9
<1> QED
  BY <1>2, <1>8, <1>9, <1>10, <1>11, <1>12, <1>13 DEF DataInv

(* The reader's payload: the next one.                                      *)
LEMMA AppendData ==
  ASSUME TypeInv, NEW f, Appends(f), NEW c \in Conns, DataInv(c), f.id = Id(c),
         f.kind = "DATA", f.n = cc[c].sent, CanSend(Id(c), "DATA"),
         pc[Reader(c)] = "data", pc'[Reader(c)] = "read"
  PROVE  DataInv(c)'
<1> DEFINE id == Id(c)
<1>0. PICK s \in Nat : s = cc[c].sent
  BY DEF TypeInv, CarriedType, Carried
<1>P. PICK n \in Nat : Places(f, id, n)
  BY AppendPlaces
<1>1. /\ DOMAIN toHost' = 1 .. n + 1 /\ DOMAIN toHost = 1 .. n
      /\ \A i \in 1 .. n : /\ toHost'[i] = toHost[i]
                           /\ Of(id, i)' <=> Of(id, i)
                           /\ IsData(id, i)' <=> IsData(id, i)
                           /\ \A k : Payload(id, i, k)' <=> Payload(id, i, k)
      /\ Payload(id, n + 1, s)' /\ toHost'[n + 1] = f
  BY <1>0, <1>P DEF Places
<1>2. rcvd' = rcvd /\ cc' = cc /\ rcvd[id] \in Nat /\ s \in Nat /\ id \in Ids
  <2>1. id \in Ids /\ rcvd \in [Ids -> Nat]
    BY OwnerFacts DEF TypeInv, EnvType
  <2> QED
    BY <2>1 DEF Appends
<1>3. Written(c)' = s /\ Written(c) = s - 1 /\ Reading(c)
  BY <1>0, <1>2 DEF Written, Reading
<1>4. \A i \in 1 .. n : toHost[i].n \in Nat
  <2>1. \A i \in 1 .. n : toHost[i] \in RelayFrames
    BY <1>1, SMT DEF TypeInv, EnvType
  <2> QED
    BY <2>1 DEF RelayFrames
<1>5. /\ rcvd[id] <= s - 1
      /\ \A i \in 1 .. n : IsData(id, i) =>
           /\ rcvd[id] < toHost[i].n /\ toHost[i].n <= s - 1
           /\ \A l \in rcvd[id] + 1 .. toHost[i].n : \E j \in 1 .. i : Payload(id, j, l)
      /\ \A i, j \in 1 .. n :
           IsData(id, i) /\ IsData(id, j) /\ i < j => toHost[i].n < toHost[j].n
      /\ \A l \in rcvd[id] + 1 .. s - 1 : \E j \in 1 .. n : Payload(id, j, l)
  BY <1>1, <1>3 DEF DataInv
<1>6. f.n = s /\ \A i \in 1 .. n : ~(Of(id, i) /\ toHost[i].kind = "CLOSE_WRITE")
  BY <1>0, <1>1, AllowedFacts, SMT DEF CanSend
<1>7. f.kind = "DATA"
  OBVIOUS
<1>8. ASSUME NEW l \in rcvd[id] + 1 .. s PROVE \E j \in 1 .. n + 1 : Payload(id, j, l)'
  <2>1. CASE l = s
    BY <2>1, <1>1, SMT
  <2>2. CASE l # s
    <3>1. l \in rcvd[id] + 1 .. s - 1
      BY <2>2, <1>2, SMT
    <3>2. PICK j \in 1 .. n : Payload(id, j, l)
      BY <3>1, <1>5
    <3>3. j \in 1 .. n + 1
      BY SMT
    <3>4. Payload(id, j, l)' <=> Payload(id, j, l)
      BY <1>1, Zenon
    <3> QED
      BY <3>2, <3>3, <3>4
  <2> QED
    BY <2>1, <2>2
<1>9. ASSUME NEW i \in 1 .. n + 1, IsData(id, i)'
      PROVE  /\ rcvd[id] < toHost'[i].n /\ toHost'[i].n <= s
             /\ \A l \in rcvd[id] + 1 .. toHost'[i].n : \E j \in 1 .. i : Payload(id, j, l)'
  <2>1. CASE i \in 1 .. n
    <3>1. IsData(id, i) /\ toHost'[i] = toHost[i] /\ toHost[i].n \in Nat
      BY <2>1, <1>1, <1>4, <1>9
    <3>2. \A l \in rcvd[id] + 1 .. toHost[i].n : \E j \in 1 .. i : Payload(id, j, l)'
      <4> TAKE l \in rcvd[id] + 1 .. toHost[i].n
      <4>1. PICK j \in 1 .. i : Payload(id, j, l)
        BY <2>1, <3>1, <1>5
      <4>2. j \in 1 .. n
        BY <2>1, SMT
      <4> QED
        BY <4>1, <4>2, <1>1
    <3> QED
      BY <2>1, <3>1, <3>2, <1>2, <1>5, SMT
  <2>2. CASE i = n + 1
    <3>1. toHost'[i].n = s /\ rcvd[id] < s
      BY <2>2, <1>1, <1>2, <1>5, <1>6, SMT
    <3> QED
      BY <2>2, <3>1, <1>2, <1>8, SMT
  <2> QED
    BY <2>1, <2>2, SMT
<1>10. ASSUME NEW i \in 1 .. n + 1, NEW j \in 1 .. n + 1, IsData(id, i)', IsData(id, j)', i < j
       PROVE  toHost'[i].n < toHost'[j].n
  <2>1. i \in 1 .. n /\ IsData(id, i) /\ toHost'[i] = toHost[i] /\ toHost[i].n \in Nat
    BY <1>1, <1>4, <1>10, SMT
  <2>2. CASE j \in 1 .. n
    BY <2>1, <2>2, <1>1, <1>5, <1>10
  <2>3. CASE j = n + 1
    <3>1. toHost'[j].n = s /\ toHost[i].n <= s - 1
      BY <2>1, <2>3, <1>1, <1>5, <1>6
    <3> QED
      BY <3>1, <2>1, <1>2, SMT
  <2> QED
    BY <2>2, <2>3, SMT
<1>11. \A i \in 1 .. n + 1 : ~(Of(id, i)' /\ toHost'[i].kind = "CLOSE_WRITE")
  BY <1>1, <1>6, <1>7, SMT
<1>12. rcvd[id] <= s
  BY <1>2, <1>5, SMT
<1> QED
  BY <1>1, <1>2, <1>3, <1>8, <1>9, <1>10, <1>11, <1>12 DEF DataInv

(* The reader's half-close: behind all its payloads.                        *)
LEMMA AppendCloseWrite ==
  ASSUME TypeInv, NEW f, Appends(f), NEW c \in Conns, DataInv(c), f.id = Id(c),
         f.kind = "CLOSE_WRITE", pc[Reader(c)] = "closewrite", pc'[Reader(c)] = "done"
  PROVE  DataInv(c)'
<1> DEFINE id == Id(c)
           s == cc[c].sent
<1>P. PICK n \in Nat : Places(f, id, n)
  BY AppendPlaces
<1>1. /\ DOMAIN toHost' = 1 .. n + 1 /\ DOMAIN toHost = 1 .. n
      /\ \A i \in 1 .. n : /\ toHost'[i] = toHost[i]
                           /\ Of(id, i)' <=> Of(id, i)
                           /\ IsData(id, i)' <=> IsData(id, i)
                           /\ \A k : Payload(id, i, k)' <=> Payload(id, i, k)
      /\ ~IsData(id, n + 1)'
  BY <1>P DEF Places
<1>2. rcvd' = rcvd /\ cc' = cc
  BY DEF Appends
<1>3. Written(c)' = s /\ Written(c) = s /\ Reading(c) /\ ~Reading(c)'
  BY <1>2 DEF Written, Reading
<1>4. /\ rcvd[id] <= s
      /\ \A i \in 1 .. n : IsData(id, i) =>
           /\ rcvd[id] < toHost[i].n /\ toHost[i].n <= s
           /\ \A l \in rcvd[id] + 1 .. toHost[i].n : \E j \in 1 .. i : Payload(id, j, l)
      /\ \A i, j \in 1 .. n :
           IsData(id, i) /\ IsData(id, j) /\ i < j => toHost[i].n < toHost[j].n
      /\ \A l \in rcvd[id] + 1 .. s : \E j \in 1 .. n : Payload(id, j, l)
      /\ \A i \in 1 .. n :
           Of(id, i) /\ toHost[i].kind = "CLOSE_WRITE" =>
             \A l \in rcvd[id] + 1 .. s : \E j \in 1 .. i - 1 : Payload(id, j, l)
  BY <1>1, <1>3 DEF DataInv
<1>5. cc'[c].sent = s
  BY <1>2
<1> HIDE DEF s
<1>6. \A i \in 1 .. n + 1 : IsData(id, i)' =>
        i \in 1 .. n /\ IsData(id, i) /\ toHost'[i] = toHost[i]
  BY <1>1, SMT
<1>7. \A i \in 1 .. n + 1 : IsData(id, i)' =>
         /\ rcvd[id] < toHost'[i].n /\ toHost'[i].n <= s
         /\ \A l \in rcvd[id] + 1 .. toHost'[i].n : \E j \in 1 .. i : Payload(id, j, l)'
  BY <1>1, <1>4, <1>6, SMT
<1>8. \A i, j \in 1 .. n + 1 :
         IsData(id, i)' /\ IsData(id, j)' /\ i < j => toHost'[i].n < toHost'[j].n
  BY <1>4, <1>6
<1>9. ASSUME NEW i \in 1 .. n + 1, Of(id, i)', toHost'[i].kind = "CLOSE_WRITE",
             NEW l \in rcvd[id] + 1 .. s
      PROVE  \E j \in 1 .. i - 1 : Payload(id, j, l)'
  <2>1. CASE i \in 1 .. n
    <3>1. PICK j \in 1 .. i - 1 : Payload(id, j, l)
      BY <2>1, <1>1, <1>4, <1>9
    <3> QED
      BY <2>1, <3>1, <1>1, SMT
  <2>2. CASE i = n + 1
    <3>1. PICK j \in 1 .. n : Payload(id, j, l)
      BY <1>4
    <3> QED
      BY <2>2, <3>1, <1>1, SMT
  <2> QED
    BY <2>1, <2>2, SMT
<1> QED
  BY <1>1, <1>2, <1>3, <1>4, <1>5, <1>7, <1>8, <1>9 DEF DataInv


(* A frame of c is sent, by one of its pumps or by Serve that refuses it.   *)
SendsFor(c, f) ==
  /\ f.id = Id(c) /\ Appends(f) /\ CanSend(f.id, f.kind)
  /\ UNCHANGED <<host, hc, view, toRelay, sv>>
  /\ Kept(r') = Kept(r) /\ r'.conns = r.conns /\ pc'[Closer] = pc[Closer]
  /\ \A d \in Conns \ {c} : /\ pc'[Worker(d)] = pc[Worker(d)] /\ pc'[Reader(d)] = pc[Reader(d)]
                            /\ r.writeMu # Worker(d) /\ r'.writeMu # Worker(d)
  /\ Refusing' => Refusing

(* c is then the one incarnation of its ID that anyone deals with.          *)
Alone(c) ==
  /\ Gen(c) = hc[Id(c)].gen
  /\ \A d \in Conns : Id(d) = Id(c) => ~Awaits(d) /\ (d # c => Stopped(Worker(d)) /\ Stopped(Reader(d)))

(* The invariant is preserved by sending it if what is known of c is.       *)
LEMMA SendsForInv ==
  ASSUME Inv, TypeInv', NEW c \in Conns, NEW f, SendsFor(c, f), Alone(c),
         RelayInv', PairInv(c)', MapInv(c)', SendInv(c)', RefuseInv',
         DataInv(c) => DataInv(c)'
  PROVE  Inv'
<1>1. /\ f \in RelayFrames /\ f.id = Id(c) /\ Appends(f) /\ CanSend(f.id, f.kind)
      /\ UNCHANGED <<host, hc, view, rcvd, toRelay, sv, cc>>
      /\ r'.conns = r.conns /\ Kept(r') = Kept(r) /\ (Refusing' => Refusing)
      /\ toHost' = Append(toHost, f)
  BY DEF SendsFor, Appends
<1>2. \A d \in Conns \ {c} : /\ pc'[Worker(d)] = pc[Worker(d)] /\ pc'[Reader(d)] = pc[Reader(d)]
                             /\ r.writeMu # Worker(d) /\ r'.writeMu # Worker(d)
  BY DEF SendsFor
<1>3. Gen(c) = hc[Id(c)].gen
  BY DEF Alone
<1>4. FaultInv'
  BY <1>1, SameFaultInv, KeptFacts DEF Inv, SameFaults
<1>5. /\ FlowInv'
      /\ \A d \in Conns : Id(d) # Id(c) => /\ Fresh(Id(d))' <=> Fresh(Id(d))
                                           /\ \A k : CanSend(Id(d), k)' <=> CanSend(Id(d), k)
  BY <1>1, AppendFlow, OwnerFacts DEF Inv, CInv
<1>6. ConnInv'
  <2> SUFFICES ASSUME NEW d \in Conns PROVE (PairInv(d) /\ MapInv(d) /\ GenInv(d))'
    BY DEF ConnInv
  <2>1. PairInv(d) /\ MapInv(d) /\ GenInv(d)
    BY DEF Inv, CInv, ConnInv
  <2>2. CASE d = c
    <3>1. Gen(c) \in Int
      BY OwnerFacts, SMT
    <3>2. GenInv(c)'
      BY <3>1, <1>1, <1>3, SMT DEF GenInv
    <3> QED
      BY <2>2, <3>2
  <2>3. CASE d # c
    <3>1. PairInv(d)'
      BY <1>1, <1>2, <2>1, <2>3 DEF PairInv, Stopped
    <3>2. MapInv(d)'
      BY <1>1, <1>2, <2>1, <2>3 DEF MapInv, Active, Retiring
    <3>3. GenInv(d)'
      BY <1>1, <1>2, <2>1, <2>3 DEF GenInv, Stopped
    <3> QED
      BY <3>1, <3>2, <3>3
  <2> QED
    BY <2>2, <2>3
<1>7. WriteInv'
  <2> SUFFICES ASSUME NEW d \in Conns, d # c PROVE SendInv(d)'
    BY DEF WriteInv
  <2>1. CASE Id(d) # Id(c)
    BY <2>1, <1>2, <1>5 DEF Inv, CInv, WriteInv, SendInv, Active, Reading
  <2>2. CASE Id(d) = Id(c)
    <3>1. pc'[Worker(d)] \in {"off", "done"} /\ pc'[Reader(d)] \in {"off", "done"}
      BY <2>2, <1>2 DEF Alone, Stopped
    <3> QED
      BY <3>1 DEF SendInv, Active, Reading
  <2> QED
    BY <2>1, <2>2
<1>8. OpenInv'
  <2>1. ASSUME NEW d \in Conns, Awaits(d)'
        PROVE  (/\ Gen(d) = hc[Id(d)].gen /\ r.conns[Id(d)] = 0 /\ pc[Worker(d)] = "off"
                /\ Fresh(Id(d)) /\ ~(Refusing /\ Id(sv.c) = Id(d)))'
    <3>1. Awaits(d) /\ Id(d) # Id(c) /\ d # c
      BY <2>1, <1>1 DEF Awaits, Opens, Alone
    <3>2. /\ Gen(d) = hc[Id(d)].gen /\ r.conns[Id(d)] = 0 /\ pc[Worker(d)] = "off"
          /\ Fresh(Id(d)) /\ ~(Refusing /\ Id(sv.c) = Id(d))
      BY <3>1 DEF Inv, CInv, OpenInv
    <3> QED
      BY <3>1, <3>2, <1>1, <1>2, <1>5
  <2> QED
    BY <2>1, <1>1 DEF Inv, CInv, OpenInv, Opens
<1>9. PayloadInv'
  <2> SUFFICES ASSUME NEW d \in Conns, Gen(d) = hc'[Id(d)].gen PROVE DataInv(d)'
    BY DEF PayloadInv
  <2>1. DataInv(d) /\ TypeInv
    BY <1>1 DEF Inv, CInv, PayloadInv
  <2>2. CASE d # c
    <3>1. Id(d) # Id(c)
      BY <2>2, <1>1, <1>3, SameConn
    <3>2. Written(d)' = Written(d) /\ (Reading(d)' <=> Reading(d))
      BY <2>2, <1>1, <1>2 DEF Written, Reading
    <3> QED
      BY <2>1, <3>1, <3>2, <1>1, AppendOther
  <2> QED
    BY <2>1, <2>2
<1> QED
  BY <1>4, <1>5, <1>6, <1>7, <1>8, <1>9 DEF Inv, CInv

(* An ID of which the host has read nothing may be answered or closed.      *)
LEMMA FreshSends ==
  ASSUME NEW id, Fresh(id), NEW k \in {"DIALOK", "DIALREFUSED", "CLOSE"}
  PROVE  CanSend(id, k)
  BY AllowedFacts DEF Fresh, NoFrames, CanSend, RelayKinds

(* Where a payload fits, so does a half-close.                              *)
LEMMA HalfCloseSends ==
  ASSUME FlowInv, NEW id \in Ids, CanSend(id, "DATA")
  PROVE  CanSend(id, "CLOSE_WRITE")
<1>1. \A v \in Views : "DATA" \in Allowed(v) => "CLOSE_WRITE" \in Allowed(v)
  BY AllowedFacts DEF Views, RelayKinds
<1>2. \A k : PhaseOf(k) \in Views
  BY DEF PhaseOf, Views
<1>3. view[id] \in Views
  BY DEF FlowInv
<1> QED
  BY <1>1, <1>2, <1>3 DEF CanSend


(* Serve's refusals (DIAL_RESULT, then CLOSE) preserve the invariant.       *)
LEMMA ServeSendInv ==
  ASSUME Inv, WriteConn(Serve)
  PROVE  Inv'
<1>1. TypeInv /\ TypeInv' /\ Serve \in Procs
  BY TypeWrite, ProcFacts DEF Inv, Write
<1>2. /\ UNCHANGED <<plan, host, hc, view, rcvd, toRelay, sv, cc>>
      /\ Kept(r') = Kept(r) /\ r'.conns = r.conns /\ r'.writeMu = NoProc /\ r.writeMu = Serve
      /\ pc[Serve] \in WriteLabels /\ toHost' = Append(toHost, WriteFrame(Serve)) /\ Sent(Serve)
  BY <1>1, SendFacts
<1>3. pc[Serve] \in {"refuse", "refclose"} /\ sv.c \in Conns
  BY <1>1, <1>2, WriterFacts, ProcFacts
<1>4. PICK c \in Conns : c = sv.c
  BY <1>3
<1>5. /\ pc'[Serve] = IF pc[Serve] = "refuse" THEN "refclose" ELSE "read"
      /\ \A q \in Procs \ {Serve} : pc'[q] = pc[q]
  BY <1>2, <1>3, WriteFacts, SMT DEF Sent
<1>6. PICK f \in RelayFrames :
        /\ f = WriteFrame(Serve) /\ f.id = Id(c)
        /\ f.kind = IF pc[Serve] = "refuse" THEN "DIALREFUSED" ELSE "CLOSE"
  BY <1>1, <1>2, <1>3, <1>4, WriteFrameType, WriteFacts, OwnerFacts, SMT
<1>7. PumpsStay /\ pc'[Closer] = pc[Closer]
  BY <1>5, ProcFacts DEF PumpsStay
<1>8. Refusing /\ Gen(c) = hc[Id(c)].gen /\ r.conns[Id(c)] = 0 /\ pc[Worker(c)] = "off"
      /\ (pc[Serve] = "refuse" => Fresh(Id(c))) /\ CanSend(Id(c), "CLOSE")
  BY <1>3, <1>4 DEF Refusing, Inv, CInv, RefuseInv
<1>9. SendsFor(c, f)
  <2>1. CanSend(f.id, f.kind)
    BY <1>3, <1>6, <1>8, FreshSends
  <2>2. Appends(f)
    BY <1>2, <1>6 DEF Appends
  <2> QED
    BY <2>1, <2>2, <1>2, <1>6, <1>7, <1>8, ProcFacts DEF SendsFor, PumpsStay
<1>10. Alone(c)
  <2>1. ASSUME NEW d \in Conns, Id(d) = Id(c) PROVE ~Awaits(d)
    BY <2>1, <1>4, <1>8 DEF Inv, CInv, OpenInv
  <2>2. ASSUME NEW d \in Conns, Id(d) = Id(c), d # c
        PROVE  Stopped(Worker(d)) /\ Stopped(Reader(d))
    <3>1. Gen(d) # hc[Id(d)].gen
      BY <2>2, <1>8, SameConn
    <3>2. Id(d) \in Ids /\ Gen(d) \in Nat /\ hc[Id(d)].gen \in Nat
      <4>1. Id(d) \in Ids /\ Gen(d) \in Nat
        BY OwnerFacts, MaxGenFacts, SMT
      <4> QED
        BY <4>1, <1>1, MaxGenFacts, SMT DEF TypeInv, EnvType
    <3> QED
      BY <3>1, <3>2, SMT DEF Inv, CInv, ConnInv, GenInv, Stopped
  <2> QED
    BY <2>1, <2>2, <1>8 DEF Alone
<1>11. RelayInv'
  <2>1. SameRelayState
    BY <1>2, <1>5, <1>7 DEF SameRelayState, PumpsStay
  <2> QED
    BY <2>1, SameRelayInv DEF Inv
<1>12. pc'[Worker(c)] = "off" /\ pc[Reader(c)] = "off" /\ pc'[Reader(c)] = "off" /\ PairInv(c) /\ MapInv(c)
  BY <1>7, <1>8 DEF Inv, CInv, ConnInv, PairInv, PumpsStay
<1>13. PairInv(c)' /\ MapInv(c)' /\ SendInv(c)'
  <2>1. PairInv(c)'
    BY <1>2, <1>8, <1>12 DEF PairInv, Stopped
  <2>2. MapInv(c)'
    BY <1>2, <1>8, <1>12 DEF MapInv, Active, Retiring
  <2>3. SendInv(c)'
    BY <1>12 DEF SendInv, Active, Reading
  <2> QED
    BY <2>1, <2>2, <2>3
<1>14. RefuseInv'
  <2> SUFFICES ASSUME NEW d \in Conns, Refusing', sv'.c = d
               PROVE  (/\ Gen(d) = hc[Id(d)].gen /\ r.conns[Id(d)] = 0 /\ pc[Worker(d)] = "off"
                       /\ pc[Serve] = "refuse" => Fresh(Id(d))
                       /\ CanSend(Id(d), "CLOSE"))'
    BY DEF RefuseInv
  <2>1. d = c /\ pc[Serve] = "refuse" /\ pc'[Serve] = "refclose"
    BY <1>2, <1>4, <1>5 DEF Refusing
  <2>2. CanSend(Id(c), "CLOSE")'
    <3>1. "CLOSE" \in Allowed(PhaseOf(f.kind))
      BY <2>1, <1>6, AllowedFacts
    <3>2. view' = view /\ toHost' = Append(toHost, f) /\ CanSend(f.id, f.kind) /\ FlowInv
      BY <1>2, <1>6, <1>9 DEF SendsFor, Inv, CInv
    <3> QED
      BY <3>1, <3>2, <1>1, <1>6, <1>8, AppendFlow
  <2> QED
    BY <2>1, <2>2, <1>2, <1>8, <1>12
<1>15. ASSUME DataInv(c) PROVE DataInv(c)'
  <2>1. Written(c)' = Written(c) /\ (Reading(c)' => Reading(c))
    BY <1>2, <1>12 DEF Written, Reading
  <2>2. f.kind \notin {"DATA", "CLOSE_WRITE"} /\ Appends(f)
    BY <1>6, <1>9 DEF SendsFor
  <2> QED
    BY <2>1, <2>2, <1>1, <1>15, AppendOther
<1> QED
  BY <1>1, <1>9, <1>10, <1>11, <1>13, <1>14, <1>15, SendsForInv

(* What a pump sends, and where it goes.                                    *)
PumpSends(c, f) ==
  \/ /\ pc[Worker(c)] = "refused" /\ f.kind = "DIALREFUSED" /\ Fresh(Id(c))
     /\ pc'[Worker(c)] = "exit" /\ pc'[Reader(c)] = pc[Reader(c)]
  \/ /\ pc[Worker(c)] = "dialok" /\ f.kind = "DIALOK" /\ Fresh(Id(c))
     /\ pc'[Worker(c)] = "loop" /\ pc'[Reader(c)] = "read"
  \/ /\ pc[Worker(c)] = "retire" /\ f.kind = "CLOSE" /\ r.conns[Id(c)] # Gen(c)
     /\ pc'[Worker(c)] = "done" /\ pc'[Reader(c)] = pc[Reader(c)]
  \/ /\ pc[Reader(c)] = "data" /\ f.kind = "DATA" /\ f.n = cc[c].sent
     /\ pc'[Reader(c)] = "read" /\ pc'[Worker(c)] = pc[Worker(c)] /\ pc[Worker(c)] # "retire"
  \/ /\ pc[Reader(c)] = "closewrite" /\ f.kind = "CLOSE_WRITE"
     /\ pc'[Reader(c)] = "done" /\ pc'[Worker(c)] = pc[Worker(c)] /\ pc[Worker(c)] # "retire"

(* A pump's frame preserves the invariant.                                  *)
LEMMA PumpSendInv ==
  ASSUME Inv, TypeInv', NEW c \in Conns, Active(c), NEW f \in RelayFrames, f.id = Id(c),
         Appends(f), PumpSends(c, f), UNCHANGED <<host, hc, view, toRelay, sv>>,
         Kept(r') = Kept(r), r'.conns = r.conns, r'.writeMu = NoProc,
         r.writeMu \in {Worker(c), Reader(c)},
         \A q \in Procs \ {Worker(c), Reader(c)} : pc'[q] = pc[q]
  PROVE  Inv'
<1>1. /\ TypeInv /\ FlowInv /\ PairInv(c) /\ MapInv(c) /\ SendInv(c)
      /\ UNCHANGED <<rcvd, cc>> /\ toHost' = Append(toHost, f) /\ Id(c) \in Ids
  BY OwnerFacts DEF Inv, CInv, ConnInv, WriteInv, Appends
<1>2. /\ pc'[Serve] = pc[Serve] /\ pc'[Closer] = pc[Closer]
      /\ \A d \in Conns \ {c} : pc'[Worker(d)] = pc[Worker(d)] /\ pc'[Reader(d)] = pc[Reader(d)]
  BY ProcFacts
<1>3. /\ CanSend(Id(c), "CLOSE")
      /\ Reading(c) => CanSend(Id(c), "DATA") /\ CanSend(Id(c), "CLOSE_WRITE")
  BY <1>1, HalfCloseSends DEF SendInv
<1>4. CanSend(f.id, f.kind)
  BY <1>3, FreshSends DEF PumpSends, Reading
<1>5. SendsFor(c, f)
  BY <1>1, <1>2, <1>4, ProcFacts DEF SendsFor, Refusing
<1>6. /\ Gen(c) = hc[Id(c)].gen
      /\ \A d \in Conns : Id(d) = Id(c) => /\ ~Awaits(d) /\ ~(Refusing /\ sv.c = d)
                                           /\ d # c => Stopped(Worker(d)) /\ Stopped(Reader(d))
  BY ActiveFacts
<1>7. Alone(c)
  BY <1>6 DEF Alone
<1>8. RelayInv'
  <2>1. SameRelayState
    BY <1>2 DEF SameRelayState, Active, Stopped
  <2> QED
    BY <2>1, SameRelayInv DEF Inv
<1>9. PairInv(c)'
  BY <1>1 DEF PairInv, Stopped, PumpSends
<1>10. MapInv(c)'
  <2>1. r'.writeMu # Worker(c)
    BY ProcFacts
  <2>2. pc[Worker(c)] = "retire" => pc'[Worker(c)] = "done" /\ r.conns[Id(c)] # Gen(c)
    BY <1>1 DEF PumpSends, PairInv, Stopped
  <2>3. pc[Worker(c)] # "retire" => pc'[Worker(c)] \notin {"off", "done"} /\ r.conns[Id(c)] = Gen(c)
    BY <1>1 DEF PumpSends, MapInv, Active, Retiring
  <2> QED
    BY <2>1, <2>2, <2>3 DEF MapInv, Active, Retiring
<1>11. /\ \A k : CanSend(f.id, k) /\ k \in Allowed(PhaseOf(f.kind)) => CanSend(f.id, k)'
       /\ f.kind = "DIALOK" /\ Fresh(f.id) => CanSend(f.id, "DATA")'
  BY <1>1, <1>4, AppendFlow
<1>12. SendInv(c)'
  <2>1. pc'[Worker(c)] \notin {"dial", "setguest", "refused", "dialok"}
    BY <1>1 DEF PumpSends, PairInv, Active
  <2>2. f.kind # "CLOSE" => "CLOSE" \in Allowed(PhaseOf(f.kind))
    BY AllowedFacts DEF PumpSends
  <2>3. Active(c)' => CanSend(Id(c), "CLOSE")'
    <3>1. Active(c)' => f.kind # "CLOSE"
      BY DEF PumpSends, Active
    <3> QED
      BY <3>1, <2>2, <1>3, <1>11
  <2>4. Reading(c)' => CanSend(Id(c), "DATA")'
    <3>1. CASE f.kind = "DIALOK"
      BY <3>1, <1>11 DEF PumpSends
    <3>2. CASE f.kind = "DATA"
      BY <3>2, <1>3, <1>11, AllowedFacts DEF PumpSends, Reading
    <3>3. CASE f.kind \notin {"DIALOK", "DATA"}
      BY <3>3, <1>1 DEF PumpSends, Reading, PairInv, Stopped
    <3> QED
      BY <3>1, <3>2, <3>3
  <2> QED
    BY <2>1, <2>3, <2>4 DEF SendInv
<1>13. RefuseInv'
  <2> SUFFICES ASSUME NEW d \in Conns, Refusing', sv'.c = d
               PROVE  (/\ Gen(d) = hc[Id(d)].gen /\ r.conns[Id(d)] = 0 /\ pc[Worker(d)] = "off"
                       /\ pc[Serve] = "refuse" => Fresh(Id(d))
                       /\ CanSend(Id(d), "CLOSE"))'
    BY DEF RefuseInv
  <2>1. Refusing /\ sv.c = d /\ Id(d) # Id(c) /\ d # c /\ Id(d) \in Ids
    BY <1>2, <1>6, OwnerFacts DEF Refusing
  <2>2. (Fresh(Id(d))' <=> Fresh(Id(d))) /\ \A k : CanSend(Id(d), k)' <=> CanSend(Id(d), k)
    BY <2>1, <1>1, <1>4, AppendFlow
  <2> QED
    BY <2>1, <2>2, <1>2 DEF Inv, CInv, RefuseInv
<1>14. ASSUME DataInv(c) PROVE DataInv(c)'
  <2>1. CASE f.kind = "DATA"
    BY <2>1, <1>1, <1>3, <1>14, AppendData DEF PumpSends, Reading
  <2>2. CASE f.kind = "CLOSE_WRITE"
    BY <2>2, <1>1, <1>14, AppendCloseWrite DEF PumpSends
  <2>3. CASE f.kind \notin {"DATA", "CLOSE_WRITE"}
    <3>1. /\ pc[Reader(c)] \notin {"data", "closewrite"} /\ pc'[Reader(c)] # "data"
          /\ Reading(c)' => Reading(c) \/ (pc[Reader(c)] = "off" /\ cc[c].sent = 0)
      BY <2>3, <1>1 DEF PumpSends, PairInv, Reading, Stopped
    <3>2. Written(c) = cc[c].sent /\ Written(c)' = cc[c].sent
      BY <3>1, <1>1 DEF Written
    <3>3. Reading(c)' => Reading(c) \/ Written(c) = 0
      BY <3>1, <3>2
    <3> QED
      BY <2>3, <3>2, <3>3, <1>1, <1>14, AppendOther
  <2> QED
    BY <2>1, <2>2, <2>3
<1> QED
  BY <1>5, <1>7, <1>8, <1>9, <1>10, <1>12, <1>13, <1>14, SendsForInv

(* Every write preserves the invariant.                                     *)
LEMMA SendConnInv ==
  ASSUME Inv, NEW p \in Procs, WriteConn(p)
  PROVE  Inv'
<1>1. TypeInv /\ TypeInv'
  BY TypeWrite DEF Inv, Write
<1>2. /\ UNCHANGED <<plan, host, hc, view, rcvd, toRelay, sv, cc>>
      /\ Kept(r') = Kept(r) /\ r'.conns = r.conns /\ r'.writeMu = NoProc /\ r.writeMu = p
      /\ pc[p] \in WriteLabels /\ toHost' = Append(toHost, WriteFrame(p)) /\ Sent(p)
  BY <1>1, SendFacts
<1>3. PICK f \in RelayFrames :
        /\ f = WriteFrame(p) /\ f.kind = WriteCall[pc[p]].kind /\ f.id = Id(Owner(p))
        /\ p # Serve => f.n = cc[Owner(p)].sent
  BY <1>1, <1>2, WriteFrameType
<1>4. Appends(f)
  BY <1>2, <1>3 DEF Appends
<1>5. CASE p = Serve
  BY <1>5, ServeSendInv
<1>6. ASSUME NEW c \in Conns, p = Reader(c), pc[Reader(c)] \in {"data", "closewrite"},
             Active(c), pc[Worker(c)] # "retire"
      PROVE  Inv'
  <2>1. /\ f.id = Id(c) /\ f.n = cc[c].sent /\ \A q \in Procs \ {p} : pc'[q] = pc[q]
        /\ pc'[Reader(c)] = IF pc[Reader(c)] = "data" THEN "read" ELSE "done"
        /\ f.kind = IF pc[Reader(c)] = "data" THEN "DATA" ELSE "CLOSE_WRITE"
        /\ pc'[Worker(c)] = pc[Worker(c)]
    <3>1. Owner(p) = c /\ Worker(c) \in Procs \ {p} /\ p # Serve /\ pc[p] # "dialok"
      BY <1>6, OwnerFacts, ProcFacts
    <3>2. /\ pc'[p] = WriteCall[pc[p]].ok /\ \A q \in Procs \ {p} : pc'[q] = pc[q]
      BY <3>1, <1>2 DEF Sent
    <3> QED
      BY <3>1, <3>2, <1>3, <1>6, WriteFacts, SMT
  <2>2. PumpSends(c, f)
    BY <2>1, <1>6 DEF PumpSends
  <2> QED
    BY <2>1, <2>2, <1>1, <1>2, <1>4, <1>6, PumpSendInv
<1>7. ASSUME NEW c \in Conns, p = Worker(c), pc[Worker(c)] \in {"refused", "dialok", "retire"},
             Active(c)
      PROVE  Inv'
  <2>1. /\ f.id = Id(c) /\ \A q \in Procs \ {p, Reader(c)} : pc'[q] = pc[q]
        /\ pc'[Worker(c)] = WriteCall[pc[p]].ok
        /\ pc'[Reader(c)] = IF pc[p] = "dialok" THEN "read" ELSE pc[Reader(c)]
    <3>1. Owner(p) = c /\ Reader(c) \in Procs /\ Reader(c) # p
      BY <1>7, OwnerFacts, ProcFacts
    <3> QED
      BY <3>1, <1>2, <1>3, <1>7 DEF Sent
  <2>2. /\ pc[Worker(c)] = "retire" => r.conns[Id(c)] # Gen(c)
        /\ pc[Worker(c)] # "retire" => Fresh(Id(c))
    BY <1>2, <1>7 DEF Inv, CInv, ConnInv, WriteInv, MapInv, SendInv, Retiring
  <2>3. PumpSends(c, f)
    BY <2>1, <2>2, <1>3, <1>7, WriteFacts, SMT DEF PumpSends
  <2> QED
    BY <2>1, <2>3, <1>1, <1>2, <1>4, <1>7, PumpSendInv
<1> QED
  BY <1>2, <1>5, <1>6, <1>7, WriterFacts


-----------------------------------------------------------------------------
(* Init and Next.                                                           *)
LEMMA InitInv == Init => Inv
<1> SUFFICES ASSUME Init PROVE Inv
  OBVIOUS
<1>1. TypeInv
  BY TypeInit
<1>2. /\ pc[Serve] = "idle" /\ pc[Closer] = "idle"
      /\ \A c \in Conns : pc[Worker(c)] = "off" /\ pc[Reader(c)] = "off"
  BY ProcFacts DEF Init
<1>3. /\ \A id \in Ids : r.conns[id] = 0 /\ hc[id].gen = 0 /\ view[id] = "closed" /\ rcvd[id] = 0
      /\ \A c \in Conns : cc[c].guest = "none" /\ cc[c].sent = 0
      /\ r.open /\ ~r.done /\ r.once = "new" /\ r.err = "nil" /\ sv.err = "nil"
  BY DEF Init, NewRelay, NewCarried
<1>4. toRelay = <<>> /\ toHost = <<>> /\ DOMAIN toRelay = {} /\ DOMAIN toHost = {}
  BY SMT DEF Init
<1>5. \A c \in Conns : Id(c) \in Ids /\ Gen(c) \in 1 .. MaxGen
  BY OwnerFacts
<1>6. RelayInv /\ FaultInv
  BY <1>2, <1>3, <1>4 DEF RelayInv, FaultInv, ErrorsAreTheHosts
<1>7. ConnInv
  BY <1>2, <1>3, <1>5, SMT DEF ConnInv, PairInv, MapInv, GenInv, Active, Stopped
<1>8. FlowInv /\ WriteInv
  BY <1>2, <1>3, <1>4 DEF FlowInv, Views, WriteInv, SendInv, Active, Reading
<1>9. RefuseInv /\ OpenInv
  BY <1>2, <1>4 DEF RefuseInv, OpenInv, Refusing, Awaits
<1>10. PayloadInv
  BY <1>3, <1>5, SMT DEF PayloadInv
<1> QED
  BY <1>1, <1>6, <1>7, <1>8, <1>9, <1>10 DEF Inv, CInv

(* Nothing happens.                                                         *)
LEMMA StutterInv ==
  ASSUME Inv, UNCHANGED vars
  PROVE  Inv'
<1>1. UNCHANGED <<plan, host, hc, view, rcvd, toRelay, toHost, pc, sv, r, cc>>
  BY DEF vars, env
<1>2. TypeInv /\ TypeInv'
  BY <1>1, TypeKept DEF Inv, TypeInv, env
<1>3. SameConns /\ RefusingFrom /\ OpensFrom(0)
  BY <1>1, <1>2, SameSocket DEF SameConns, PumpsStay, RefusingFrom, Refusing
<1>4. CInv'
  BY <1>2, <1>3, SameInv DEF Inv
<1>5. RelayInv'
  <2>1. SameRelayState
    BY <1>1 DEF SameRelayState
  <2> QED
    BY <2>1, SameRelayInv DEF Inv
<1>6. FaultInv'
  BY <1>1, SameFaultInv DEF Inv, SameFaults
<1> QED
  BY <1>2, <1>4, <1>5, <1>6 DEF Inv

(* Every step preserves the invariant.                                      *)
LEMMA NextInv == Inv /\ [Next]_vars => Inv'
<1> SUFFICES ASSUME Inv, [Next]_vars PROVE Inv'
  OBVIOUS
<1>1. CASE UNCHANGED vars
  BY <1>1, StutterInv
<1>2. CASE Next
  <2>1. ASSUME NEW p \in Writers, Write(p) PROVE Inv'
    <3>1. p \in Procs
      BY ProcFacts DEF Writers
    <3> QED
      BY <2>1, <3>1, LockInv, SendConnInv, ErrorInv DEF Write
  <2>2. ASSUME NEW c \in Conns, LocalWorker(c) \/ LocalReader(c) PROVE Inv'
    BY <2>2, LocalWorkerInv, LocalReaderInv
  <2> QED
    BY <1>2, <2>1, <2>2, Steps, HostInv, ShutdownStepInv, BossInv, ServeReadInv, DeliverInv
<1> QED
  BY <1>1, <1>2

(* The inductive invariant holds for any IDs, bounds and plans.             *)
LEMMA Invariance == Safety => []Inv
<1> QED
  BY InitInv, NextInv, PTL DEF Safety

(* When the host has read the final CLOSE of an ID, the relay has no        *)
(* goroutine, guest connection, map entry or frame of that incarnation      *)
(* left: retire runs when both pumps have stopped and deletes the ID under  *)
(* the writeMu with which it writes CLOSE, so nothing can be written after  *)
(* it.                                                                      *)
THEOREM ReuseIsAlwaysSafe == Safety => []ReuseIsSafe
<1>1. Inv => ReuseIsSafe
  <2> SUFFICES ASSUME Inv, NEW id \in Ids, view[id] = "closed", hc[id].gen > 0
               PROVE  LET c == <<id, hc[id].gen>> IN
                        /\ Stopped(Worker(c)) /\ Stopped(Reader(c))
                        /\ cc[c].guest \in {"none", "closed"}
                        /\ r.conns[id] = 0
                        /\ \A i \in DOMAIN toHost : toHost[i].id # id
    BY DEF ReuseIsSafe
  <2>1. hc[id].gen \in 1 .. MaxGen
    BY MaxGenFacts, SMT DEF Inv, TypeInv, EnvType
  <2>2. PICK c \in Conns : c = <<id, hc[id].gen>> /\ Id(c) = id
    BY <2>1, ConnFacts
  <2>3. /\ NoFrames(id) /\ r.conns[id] = 0
        /\ Stopped(Worker(c)) /\ Stopped(Reader(c)) /\ cc[c].guest \in {"none", "closed"}
    BY <2>2, ClosedFacts
  <2> QED
    BY <2>2, <2>3 DEF NoFrames, Of
<1> QED
  BY <1>1, Invariance, PTL

(* Serve's error is the host's fault: shutdown keeps the first error only,  *)
(* and a write or a read of the socket fails before any shutdown only if    *)
(* the host closed its end; a "duplicate conn id" cannot happen to a host   *)
(* that waits for CLOSE.                                                    *)
THEOREM FaultsAreTheHosts == Safety => []ErrorsAreTheHosts
<1>1. Inv => ErrorsAreTheHosts
  BY DEF Inv, FaultInv
<1> QED
  BY <1>1, Invariance, PTL

(* Once Serve or Close has returned, no worker or reader runs and no guest  *)
(* connection is open (Serve's and Close's waits for the workers, each of   *)
(* which has joined its reader).                                            *)
THEOREM NothingSurvives == Safety => []QuietAfterReturn
<1>1. Inv => QuietAfterReturn
  <2> SUFFICES ASSUME Inv, "done" \in {pc[Serve], pc[Closer]} PROVE r.done /\ Quiet
    BY DEF QuietAfterReturn
  <2>1. r.done /\ \A c \in Conns : Stopped(Worker(c))
    BY DEF Inv, RelayInv
  <2>2. ASSUME NEW c \in Conns
        PROVE  Stopped(Reader(c)) /\ cc[c].guest \in {"none", "closed"}
    <3>1. PairInv(c)
      BY DEF Inv, CInv, ConnInv
    <3> QED
      BY <2>1, <3>1 DEF PairInv, Stopped
  <2> QED
    BY <2>1, <2>2 DEF Quiet
<1> QED
  BY <1>1, Invariance, PTL


-----------------------------------------------------------------------------
(* What the host has read.  Only its own steps change it.                   *)
LEMMA ViewSteps ==
  ASSUME TypeInv, [Next]_vars
  PROVE  \/ \E id \in Ids : HostOpen(id)
         \/ HostRecv
         \/ view' = view /\ rcvd' = rcvd /\ \A id \in Ids : hc'[id].gen = hc[id].gen
<1> DEFINE Same == view' = view /\ rcvd' = rcvd /\ \A id \in Ids : hc'[id].gen = hc[id].gen
<1>1. ASSUME UNCHANGED <<hc, view, rcvd>> PROVE Same
  BY <1>1
<1>2. CASE UNCHANGED vars
  BY <1>2 DEF vars, env
<1>3. ASSUME NEW id \in Ids, HostData(id) PROVE Same
  BY <1>3 DEF HostData, TypeInv, EnvType
<1>4. ASSUME NEW id \in Ids, NEW k, HostControl(id, k) PROVE Same
  BY <1>4 DEF HostControl, TypeInv, EnvType
<1>5. CASE HostBad \/ HostVanish
  BY <1>5 DEF HostBad, HostVanish
<1>6. ASSUME NEW p \in Writers, Write(p) PROVE Same
  BY <1>6 DEF Write, WriteLock, WriteConn, WriteError, env
<1>7. ASSUME NEW c \in Conns, LocalWorker(c) \/ LocalReader(c) PROVE Same
  <2>1. UNCHANGED env
    BY <1>7, LocalWorkerEffect, LocalReaderEffect DEF WorkerEffect, ReaderEffect
  <2> QED
    BY <2>1 DEF env
<1>8. CASE ShutdownStep \/ ServeRead \/ ServeDeliver
  BY <1>8 DEF ShutdownStep, ServeRead, ServeDeliver, env
<1>9. CASE BossStep
  BY <1>9, BossFacts DEF env
<1> HIDE DEF Same
<1>10. CASE Host
  BY <1>3, <1>4, <1>5, <1>10 DEF Host, Same
<1>11. CASE Next
  BY <1>6, <1>7, <1>8, <1>9, <1>10, <1>11, Steps DEF Same
<1> QED
  BY <1>2, <1>11 DEF Same

(* An ID that was never opened is closed.                                   *)
StartInv == \A id \in Ids : hc[id].gen = 0 => view[id] = "closed"

(* A step keeps it so: only HostOpen changes the phase of such an ID.       *)
LEMMA StartNext == Inv /\ StartInv /\ [Next]_vars => StartInv'
<1> SUFFICES ASSUME Inv, StartInv, [Next]_vars PROVE StartInv'
  OBVIOUS
<1>1. TypeInv /\ FlowInv
  BY DEF Inv, CInv
<1>2. ASSUME NEW id \in Ids, HostOpen(id) PROVE StartInv'
  <2>1. hc'[id].gen # 0 /\ \A d \in Ids \ {id} : hc'[d] = hc[d] /\ view'[d] = view[d]
    BY <1>1, <1>2, MaxGenFacts, SMT DEF HostOpen, TypeInv, EnvType
  <2> QED
    BY <2>1 DEF StartInv
<1>3. CASE HostRecv
  <2>1. PICK f : f = Head(toHost)
    OBVIOUS
  <2>2. /\ hc' = hc /\ f.id \in Ids /\ f.kind \in Allowed(view[f.id])
        /\ \A d \in Ids \ {f.id} : view'[d] = view[d]
    BY <1>1, <1>3, <2>1, RecvFacts
  <2>3. view[f.id] # "closed"
    BY <2>2, AllowedFacts
  <2> QED
    BY <2>2, <2>3 DEF StartInv
<1>4. CASE view' = view /\ \A id \in Ids : hc'[id].gen = hc[id].gen
  BY <1>4 DEF StartInv
<1> QED
  BY <1>1, <1>2, <1>3, <1>4, ViewSteps

(* It holds throughout.                                                     *)
LEMMA StartInvariance == Safety => [](Inv /\ StartInv)
<1>1. Init => StartInv
  BY DEF Init, StartInv
<1> QED
  BY <1>1, InitInv, NextInv, StartNext, PTL DEF Safety

(* The frame at the head of the socket: the next payload, or a half-close   *)
(* after the last one.                                                      *)
LEMMA HeadPayload ==
  ASSUME Inv, StartInv, HostRecv, NEW f, f = Head(toHost)
  PROVE  /\ f.kind = "DATA" => f.n = rcvd[f.id] + 1
         /\ f.kind = "CLOSE_WRITE" => rcvd[f.id] = cc[<<f.id, hc[f.id].gen>>].sent
<1>1. TypeInv /\ FlowInv
  BY DEF Inv, CInv
<1>2. /\ toHost # <<>> /\ f = toHost[1] /\ f.id \in Ids /\ f.n \in Nat
      /\ f.kind \in Allowed(view[f.id])
  BY <1>1, RecvFacts
<1>3. PICK c \in Conns : c = <<f.id, hc[f.id].gen>> /\ Id(c) = f.id /\ Gen(c) = hc[f.id].gen
  <2>1. hc[f.id].gen # 0
    BY <1>2, AllowedFacts DEF StartInv
  <2>2. hc[f.id].gen \in 1 .. MaxGen
    BY <1>1, <1>2, <2>1, MaxGenFacts, SMT DEF TypeInv, EnvType
  <2> QED
    BY <1>2, <2>2, ConnFacts
<1>4. DataInv(c)
  BY <1>3 DEF Inv, CInv, PayloadInv
<1>5. 1 \in DOMAIN toHost /\ rcvd[f.id] \in Nat /\ cc[c].sent \in Nat
  <2>1. toHost \in Seq(RelayFrames) /\ rcvd \in [Ids -> Nat] /\ cc[c] \in Carried
    BY <1>1 DEF TypeInv, EnvType, CarriedType
  <2> QED
    BY <1>2, <2>1, SMT DEF Carried
<1>6. ASSUME f.kind = "DATA" PROVE f.n = rcvd[f.id] + 1
  <2>1. IsData(Id(c), 1)
    BY <1>2, <1>3, <1>6 DEF IsData, Of
  <2>2. rcvd[f.id] < f.n /\ \A l \in rcvd[f.id] + 1 .. f.n : \E j \in 1 .. 1 : Payload(Id(c), j, l)
    BY <1>2, <1>3, <1>4, <1>5, <2>1 DEF DataInv
  <2>3. \A l \in rcvd[f.id] + 1 .. f.n : l = f.n
    <3>1. ASSUME NEW l \in rcvd[f.id] + 1 .. f.n PROVE l = f.n
      <4>1. PICK j \in 1 .. 1 : Payload(Id(c), j, l)
        BY <2>2
      <4>2. j = 1
        BY SMT
      <4> QED
        BY <4>1, <4>2, <1>2 DEF Payload
    <3> QED
      BY <3>1
  <2>4. rcvd[f.id] + 1 \in rcvd[f.id] + 1 .. f.n
    BY <2>2, <1>2, <1>5, SMT
  <2> QED
    BY <2>3, <2>4
<1>7. ASSUME f.kind = "CLOSE_WRITE" PROVE rcvd[f.id] = cc[c].sent
  <2>1. \A l \in rcvd[f.id] + 1 .. cc[c].sent : \E j \in 1 .. 1 - 1 : Payload(Id(c), j, l)
    BY <1>2, <1>3, <1>4, <1>5, <1>7 DEF DataInv, Of
  <2>2. ~(rcvd[f.id] < cc[c].sent)
    <3>1. SUFFICES ASSUME rcvd[f.id] < cc[c].sent PROVE FALSE
      OBVIOUS
    <3>2. cc[c].sent \in rcvd[f.id] + 1 .. cc[c].sent
      BY <3>1, <1>5, SMT
    <3>3. 1 .. 1 - 1 = {}
      BY SMT
    <3> QED
      BY <3>2, <3>3, <2>1
  <2>3. rcvd[f.id] <= Written(c)
    BY <1>3, <1>4 DEF DataInv
  <2> QED
    BY <2>2, <2>3, <1>5, SMT DEF Written
<1> QED
  BY <1>3, <1>6, <1>7

(* The refinement, step by step.                                            *)
LEMMA ProtocolStep ==
  ASSUME Inv, StartInv, [Next]_vars
  PROVE  [Protocol!Next]_<<view, rcvd>>
<1>1. TypeInv /\ FlowInv /\ view \in [Ids -> Views \cup {"violated"}] /\ rcvd \in [Ids -> Nat]
  BY DEF Inv, CInv, TypeInv, EnvType
<1>2. ASSUME NEW id \in Ids, HostOpen(id) PROVE Protocol!Open(id)
  BY <1>2 DEF HostOpen, Protocol!Open, Protocol!Move
<1>3. CASE HostRecv
  <2>1. PICK f : f = Head(toHost)
    OBVIOUS
  <2>2. /\ f.id \in Ids /\ f.kind \in Allowed(view[f.id]) /\ f.kind \in RelayKinds /\ f.n \in Nat
        /\ view[f.id] = "opening" => f.kind \notin {"DATA", "CLOSE_WRITE"}
        /\ view'[f.id] = PhaseOf(f.kind)
        /\ rcvd'[f.id] = IF f.kind = "DATA" THEN f.n ELSE rcvd[f.id]
        /\ \A d \in Ids \ {f.id} : view'[d] = view[d] /\ rcvd'[d] = rcvd[d]
    BY <1>1, <1>3, <2>1, RecvFacts
  <2>3. f.kind = "DATA" => f.n = rcvd[f.id] + 1
    BY <1>3, <2>1, HeadPayload
  <2>4. view' = [view EXCEPT ![f.id] = PhaseOf(f.kind)] /\ view[f.id] \in Views
    <3>1. DOMAIN view' = Ids /\ view' = [d \in Ids |-> view'[d]]
      BY <1>1, <1>3 DEF HostRecv
    <3> QED
      BY <3>1, <2>2, <1>1 DEF FlowInv
  <2>5. rcvd' = IF f.kind = "DATA" THEN [rcvd EXCEPT ![f.id] = rcvd[f.id] + 1] ELSE rcvd
    BY <1>3, <2>1, <2>3 DEF HostRecv
  <2>6. CASE f.kind = "DIALOK"
    <3>1. view[f.id] = "opening" /\ PhaseOf(f.kind) = "established"
      BY <2>2, <2>4, <2>6, AllowedFacts DEF Views
    <3>2. Protocol!DialOK(f.id)
      BY <2>4, <2>5, <2>6, <3>1 DEF Protocol!DialOK, Protocol!Move
    <3> QED
      BY <2>2, <3>2 DEF Protocol!Next
  <2>7. CASE f.kind = "DIALREFUSED"
    <3>1. view[f.id] = "opening" /\ PhaseOf(f.kind) = "refused"
      BY <2>2, <2>4, <2>7, AllowedFacts DEF Views
    <3>2. Protocol!Refused(f.id)
      BY <2>4, <2>5, <2>7, <3>1 DEF Protocol!Refused, Protocol!Move
    <3> QED
      BY <2>2, <3>2 DEF Protocol!Next
  <2>8. CASE f.kind = "DATA"
    <3>1. view[f.id] = "established" /\ PhaseOf(f.kind) = "established"
      BY <2>2, <2>4, <2>8, AllowedFacts DEF Views
    <3>2. view' = view
      BY <3>1, <2>4, <1>1
    <3>3. Protocol!Data(f.id)
      BY <2>5, <2>8, <3>1, <3>2 DEF Protocol!Data
    <3> QED
      BY <2>2, <3>3 DEF Protocol!Next
  <2>9. CASE f.kind = "CLOSE_WRITE"
    <3>1. view[f.id] = "established" /\ PhaseOf(f.kind) = "halfclosed"
      BY <2>2, <2>4, <2>9, AllowedFacts DEF Views
    <3>2. Protocol!CloseWrite(f.id)
      BY <2>4, <2>5, <2>9, <3>1 DEF Protocol!CloseWrite, Protocol!Move
    <3> QED
      BY <2>2, <3>2 DEF Protocol!Next
  <2>10. CASE f.kind = "CLOSE"
    <3>1. view[f.id] \in Protocol!Phases \ {"closed"} /\ PhaseOf(f.kind) = "closed"
      BY <2>2, <2>4, <2>10, AllowedFacts DEF Views, Protocol!Phases
    <3>2. Protocol!FinalClose(f.id)
      BY <2>4, <2>5, <2>10, <3>1 DEF Protocol!FinalClose, Protocol!Move
    <3> QED
      BY <2>2, <3>2 DEF Protocol!Next
  <2> QED
    BY <2>2, <2>6, <2>7, <2>8, <2>9, <2>10 DEF RelayKinds
<1> QED
  BY <1>1, <1>2, <1>3, ViewSteps DEF Protocol!Next

(* The relay implements IngressProtocol: on every ID the host reads at most *)
(* one DIAL_RESULT, then payloads in order without a gap, a CLOSE_WRITE     *)
(* only behind all of them, and a final CLOSE with nothing after it,        *)
(* whatever the goroutines of this and of other connections, failures and   *)
(* Close do meanwhile (writeLocked, retire, dialAndServe).                  *)
THEOREM RelayImplementsProtocol == Safety => ProtocolSpec
<1>1. Init => Protocol!Init
  BY DEF Init, Protocol!Init
<1> QED
  BY <1>1, StartInvariance, ProtocolStep, PTL DEF Safety, ProtocolSpec, Protocol!Spec

-----------------------------------------------------------------------------
(* The limits.  dispatch admits an OPEN only below MaxConnections; every    *)
(* other step leaves the map as it is or deletes from it.                   *)
INSTANCE FiniteSetTheorems

LimitInv ==
  /\ Cardinality(Live) <= MaxConnections
  /\ \A c \in Conns : Len(cc[c].outbound) <= QueueDepth

LiveMoves ==
  \/ Live' \subseteq Live
  \/ ~AtLimit /\ \E id \in Ids : Live' \subseteq Live \cup {id}

QueueMoves ==
  \A c \in Conns : \/ cc'[c].outbound = cc[c].outbound
                   \/ cc[c].outbound # <<>> /\ cc'[c].outbound = Tail(cc[c].outbound)
                   \/ /\ Len(cc[c].outbound) < QueueDepth
                      /\ Len(cc'[c].outbound) = Len(cc[c].outbound) + 1

(* Deleting from the map, and adding to it.                                 *)
LEMMA MapMoves ==
  ASSUME TypeInv
  PROVE  /\ r'.conns = r.conns => LiveMoves
         /\ \A id : r'.conns = [r.conns EXCEPT ![id] = 0] => LiveMoves
         /\ \A f : Registers(f) => LiveMoves
<1>1. r.conns \in [Ids -> 0 .. MaxGen]
  BY DEF TypeInv, RelayType
<1>2. ASSUME NEW id, r'.conns = [r.conns EXCEPT ![id] = 0] PROVE Live' \subseteq Live
  BY <1>1, <1>2 DEF Live
<1>3. ASSUME NEW f, Registers(f) PROVE ~AtLimit /\ f.id \in Ids /\ Live' \subseteq Live \cup {f.id}
  BY <1>1, <1>3 DEF Live, Registers, HostFrames
<1> QED
  BY <1>2, <1>3 DEF LiveMoves, Live

(* A step of a pump outside the writes.                                     *)
LEMMA PumpQueue ==
  ASSUME TypeInv, NEW c \in Conns, LocalWorker(c) \/ LocalReader(c)
  PROVE  LiveMoves /\ QueueMoves
<1>1. CarriedType
  BY DEF TypeInv
<1>2. PICK x \in Carried :
        /\ r' = r /\ cc' = [cc EXCEPT ![c] = x]
        /\ x.outbound = cc[c].outbound
             \/ (cc[c].outbound # <<>> /\ x.outbound = Tail(cc[c].outbound))
  BY LocalWorkerEffect, LocalReaderEffect DEF WorkerEffect, ReaderEffect
<1>3. cc'[c] = x /\ \A d \in Conns \ {c} : cc'[d] = cc[d]
  BY <1>1, <1>2, CarriedStep
<1> QED
  BY <1>2, <1>3, MapMoves DEF QueueMoves

(* serve reads a frame.                                                     *)
LEMMA ReadQueue ==
  ASSUME TypeInv, ServeRead
  PROVE  LiveMoves /\ QueueMoves
<1> DEFINE f == Head(toRelay)
<1>1. \/ UNCHANGED <<pc, sv, r, cc>>
      \/ Fails(f) \/ Refuses(f) \/ Registers(f) \/ Delivers(f)
  BY ReadFacts
<1> HIDE DEF f
<1>2. CASE UNCHANGED <<r, cc>>
  BY <1>2, MapMoves DEF QueueMoves
<1>3. CASE Registers(f)
  BY <1>3, MapMoves DEF QueueMoves, Registers
<1>4. CASE Delivers(f)
  <2>1. r' = r /\ LiveMoves
    BY <1>4, MapMoves DEF Delivers
  <2>2. CASE UNCHANGED cc
    BY <2>1, <2>2 DEF QueueMoves
  <2>3. CASE cc' = [cc EXCEPT ![sv'.c] = Closing(@)]
    <3>1. CarriedType
      BY DEF TypeInv
    <3>2. \A d \in Conns : cc[d] \in Carried /\ cc'[d] \in {cc[d], Closing(cc[d])}
      BY <3>1, <2>3 DEF CarriedType
    <3>3. \A x \in Carried : Closing(x).outbound = x.outbound
      BY DEF Closing, Cancelled, Carried
    <3> QED
      BY <2>1, <3>2, <3>3 DEF QueueMoves
  <2> QED
    BY <2>2, <2>3, <1>4 DEF Delivers
<1> QED
  BY <1>1, <1>2, <1>3, <1>4 DEF Fails, Refuses

(* A write; retire deletes the ID.                                          *)
LEMMA WriteQueue ==
  ASSUME TypeInv, NEW p \in Procs, Write(p)
  PROVE  LiveMoves /\ QueueMoves
<1>1. CASE WriteLock(p)
  <2>1. cc' = cc /\ r'.conns = ConnsAtWrite(p)
    BY <1>1, LockFacts
  <2> QED
    BY <2>1, MapMoves DEF ConnsAtWrite, QueueMoves
<1>2. CASE WriteConn(p)
  BY <1>2, SendFacts, MapMoves DEF QueueMoves
<1>3. CASE WriteError(p)
  BY <1>3, ErrorFacts, MapMoves DEF QueueMoves
<1> QED
  BY <1>1, <1>2, <1>3 DEF Write

(* Every step.                                                              *)
LEMMA LimitMoves ==
  ASSUME TypeInv, [Next]_vars
  PROVE  LiveMoves /\ QueueMoves
<1>1. CASE UNCHANGED <<r, cc>>
  BY <1>1, MapMoves DEF QueueMoves
<1>2. CASE ShutdownStep
  BY <1>2, ShutdownStepFacts, MapMoves DEF OnlyCloses, QueueMoves
<1>3. CASE BossStep
  <2>1. cc' = cc /\ RelayMoves
    BY <1>3, BossFacts
  <2>2. RelayType /\ sv.err \in {"nil", "proto", "read"}
    BY DEF TypeInv, ServeType
  <2>3. r'.conns = r.conns
    BY <2>1, <2>2, ShutdownFacts DEF RelayMoves
  <2> QED
    BY <2>1, <2>3, MapMoves DEF QueueMoves
<1>4. CASE ServeDeliver
  BY <1>4, DeliverFacts, MapMoves DEF Delivered, QueueMoves
<1>5. Host \/ UNCHANGED vars => UNCHANGED <<r, cc>>
  BY DEF Host, HostOpen, HostData, HostControl, HostBad, HostRecv, HostVanish, HostSend, vars
<1>6. Writers \subseteq Procs
  BY DEF Writers, Procs
<1>7. CASE Next
  BY <1>7, <1>1, <1>2, <1>3, <1>4, <1>5, <1>6, Steps, ReadQueue, WriteQueue, PumpQueue
<1> QED
  BY <1>1, <1>5, <1>7

(* The limits are kept: the OPEN that is admitted adds one to fewer than    *)
(* MaxConnections, and the frame that is queued one to fewer than the       *)
(* queue's depth.                                                           *)
LEMMA LimitNext ==
  ASSUME TypeInv, TypeInv', LimitInv, [Next]_vars
  PROVE  LimitInv'
<1>1. LiveMoves /\ QueueMoves
  BY LimitMoves
<1>2. MaxConnections \in Nat /\ QueueDepth \in Nat /\ IsFiniteSet(Ids)
  BY BoundsAssumption, SMT
<1>3. IsFiniteSet(Live) /\ Live \subseteq Ids
  <2>1. Live \in SUBSET Ids
    BY DEF Live
  <2> QED
    BY <1>2, <2>1, FS_Subset
<1>4. Cardinality(Live) \in Nat
  BY <1>3, FS_CardinalityType
<1>5. Cardinality(Live)' <= MaxConnections
  <2>1. CASE Live' \subseteq Live
    <3>1. Live' \in SUBSET Live
      BY <2>1
    <3>2. IsFiniteSet(Live') /\ Cardinality(Live') <= Cardinality(Live)
      BY <1>3, <3>1, FS_Subset
    <3>3. Cardinality(Live') \in Nat
      BY <3>2, FS_CardinalityType
    <3> QED
      BY <3>2, <3>3, <1>2, <1>4, SMT DEF LimitInv
  <2>2. ASSUME ~AtLimit, NEW id \in Ids, Live' \subseteq Live \cup {id}
        PROVE  Cardinality(Live)' <= MaxConnections
    <3> DEFINE A == Live \cup {id}
    <3>1. IsFiniteSet(A) /\ Cardinality(A) = IF id \in Live THEN Cardinality(Live) ELSE Cardinality(Live) + 1
      BY <1>3, FS_AddElement
    <3>2. Live' \in SUBSET A
      BY <2>2
    <3> HIDE DEF A
    <3>3. IsFiniteSet(Live') /\ Cardinality(Live') <= Cardinality(A)
      BY <3>1, <3>2, FS_Subset
    <3>4. Cardinality(Live') \in Nat
      BY <3>3, FS_CardinalityType
    <3>5. ~(Cardinality(Live) >= MaxConnections)
      BY <2>2 DEF AtLimit
    <3> QED
      BY <3>1, <3>3, <3>4, <3>5, <1>2, <1>4, SMT
  <2> QED
    BY <1>1, <2>1, <2>2 DEF LiveMoves
<1>6. ASSUME NEW c \in Conns PROVE Len(cc'[c].outbound) <= QueueDepth
  <2>1. cc[c].outbound \in Seq(HostFrames)
    BY DEF TypeInv, CarriedType, Carried
  <2>2. Len(cc[c].outbound) \in Nat /\ Len(cc[c].outbound) <= QueueDepth
    BY <2>1, SMT DEF LimitInv
  <2>3. cc[c].outbound # <<>> => Len(Tail(cc[c].outbound)) = Len(cc[c].outbound) - 1
    BY <2>1, SMT
  <2>4. \/ cc'[c].outbound = cc[c].outbound
        \/ cc[c].outbound # <<>> /\ cc'[c].outbound = Tail(cc[c].outbound)
        \/ /\ Len(cc[c].outbound) < QueueDepth
           /\ Len(cc'[c].outbound) = Len(cc[c].outbound) + 1
    BY <1>1 DEF QueueMoves
  <2>5. ASSUME NEW n \in Nat, NEW m, n <= QueueDepth, m = n - 1 \/ (n < QueueDepth /\ m = n + 1)
        PROVE  m <= QueueDepth
    BY <2>5, <1>2, SMT
  <2>6. CASE cc'[c].outbound = cc[c].outbound
    BY <2>6, <2>2
  <2>7. CASE cc[c].outbound # <<>> /\ cc'[c].outbound = Tail(cc[c].outbound)
    BY <2>7, <2>5, <2>2, <2>3
  <2>8. CASE /\ Len(cc[c].outbound) < QueueDepth
             /\ Len(cc'[c].outbound) = Len(cc[c].outbound) + 1
    BY <2>8, <2>5, <2>2
  <2> QED
    BY <2>4, <2>6, <2>7, <2>8
<1> QED
  BY <1>5, <1>6 DEF LimitInv

(* At first nothing is in the map or in a queue.                            *)
LEMMA LimitInit == Init => LimitInv
<1> SUFFICES ASSUME Init PROVE LimitInv
  OBVIOUS
<1>1. Live = {}
  BY DEF Init, NewRelay, Live
<1>2. Cardinality({}) = 0 /\ MaxConnections \in Nat /\ QueueDepth \in Nat
  BY FS_EmptySet, BoundsAssumption, SMT
<1>3. \A c \in Conns : cc[c].outbound = <<>>
  BY DEF Init, NewCarried
<1>4. Len(<<>>) = 0
  BY SMT
<1> QED
  BY <1>1, <1>2, <1>3, <1>4, SMT DEF LimitInv

(* A connection that counts is in the map under its own ID, so there are no *)
(* more of them than IDs in the map.                                        *)
LEMMA LimitBounds ==
  ASSUME Inv, LimitInv
  PROVE  LiveBounded
<1> DEFINE W == {c \in Conns : pc[Worker(c)] \notin {"off", "retire", "done"}
                    \/ cc[c].guest \in {"dialed", "open"}}
           f == [c \in W |-> Id(c)]
<1>1. ASSUME NEW c \in W PROVE c \in Conns /\ Id(c) \in Ids /\ Gen(c) # 0 /\ r.conns[Id(c)] = Gen(c)
  <2>1. c \in Conns /\ PairInv(c) /\ MapInv(c)
    BY DEF Inv, CInv, ConnInv
  <2>2. pc[Worker(c)] \notin {"off", "retire", "done"}
    BY <2>1 DEF PairInv
  <2>3. Id(c) \in Ids /\ Gen(c) \in 1 .. MaxGen
    BY <2>1, OwnerFacts
  <2>4. Gen(c) # 0
    BY <2>3, MaxGenFacts, SMT
  <2> QED
    BY <2>1, <2>2, <2>3, <2>4 DEF MapInv, Active, Retiring
<1>2. f \in Injection(W, Live)
  <2>1. f \in [W -> Live]
    BY <1>1 DEF Live
  <2>2. ASSUME NEW c \in W, NEW d \in W, f[c] = f[d] PROVE c = d
    BY <1>1, <2>2, SameConn
  <2> QED
    BY <2>1, <2>2 DEF Injection, IsInjective
<1>3. IsFiniteSet(Live)
  <2>1. IsFiniteSet(Ids) /\ Live \in SUBSET Ids
    BY BoundsAssumption DEF Live
  <2> QED
    BY <2>1, FS_Subset
<1> HIDE DEF f
<1>4. IsFiniteSet(W) /\ Cardinality(W) <= Cardinality(Live)
  <2> HIDE DEF W
  <2> QED
    BY <1>2, <1>3, FS_Injection
<1>5. Cardinality(W) \in Nat /\ Cardinality(Live) \in Nat
  BY <1>3, <1>4, FS_CardinalityType
<1>6. MaxConnections \in Nat
  BY BoundsAssumption, SMT
<1>7. Cardinality(W) <= MaxConnections
  <2> HIDE DEF W
  <2> QED
    BY <1>4, <1>5, <1>6, SMT DEF LimitInv
<1> QED
  BY <1>7 DEF LiveBounded, LimitInv

(* MaxConnections bounds the live connections, pending dials included, and  *)
(* queueDepth the frames each of them keeps, for any number of IDs          *)
(* (dispatch's look at len(r.conns), and its select on the queue).          *)
THEOREM ConnectionsAreBounded == Safety => []LiveBounded
<1>1. Init => LimitInv
  BY LimitInit
<1>2. Inv /\ Inv' /\ LimitInv /\ [Next]_vars => LimitInv'
  BY LimitNext DEF Inv
<1>3. Inv /\ LimitInv => LiveBounded
  BY LimitBounds
<1> QED
  BY <1>1, <1>2, <1>3, Invariance, PTL DEF Safety
====
