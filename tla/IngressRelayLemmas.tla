-------------------------- MODULE IngressRelayLemmas --------------------------
(***************************************************************************)
(* The inductive invariant of IngressRelay, for any IDs, queue depths,      *)
(* limits and plans, and its preservation by every step but one: the write  *)
(* of a frame, which is in IngressRelayProofs with the theorems.            *)
(*                                                                          *)
(* Types come first (TypeInv).  RelayInv and FaultInv speak of the relay    *)
(* and of its errors.  ConnInv ties each connection's two goroutines (its   *)
(* pumps), its guest connection and its entry in the map together.  FlowInv *)
(* says that the frames on their way fit the host's phases, WriteInv,       *)
(* RefuseInv and OpenInv that whoever is about to write one will write one  *)
(* that fits, PayloadInv that payloads have no gap.                         *)
(***************************************************************************)
EXTENDS IngressRelay, TLAPS

(* Leaves are for Zenon, except where they name another prover.             *)
USE Zenon

-----------------------------------------------------------------------------
(* Types.                                                                   *)

HostKinds   == {"OPEN", "DATA", "CLOSE_WRITE", "CLOSE"}
RelayKinds  == {"DIALOK", "DIALREFUSED", "DATA", "CLOSE_WRITE", "CLOSE"}
HostFrames  == [kind : HostKinds, id : Ids, gen : 1 .. MaxGen, n : Nat]
RelayFrames == [kind : RelayKinds, id : Ids, gen : 1 .. MaxGen, n : Nat]
BadFrame    == [kind |-> "BAD"]
Views       == {"closed", "opening", "refused", "established", "halfclosed"}

ServeLabels   == {"idle", "read", "sd", "join", "done", "refuse", "refclose",
                  "enqueue", "closeguest"}
WorkerLabels  == {"off", "dial", "setguest", "refused", "dialok", "loop", "gwrite",
                  "exit", "exitclose", "exitjoin", "retire", "done"}
ReaderLabels  == {"off", "read", "data", "closewrite", "rcancel", "rclose", "done"}

Labels == ServeLabels \cup WorkerLabels \cup ReaderLabels \cup {"run"}

(* The host, and the two directions of the socket.                          *)
EnvType ==
  /\ plan \in Plans
  /\ host \in [up : BOOLEAN, bad : BOOLEAN]
  /\ hc \in [Ids -> [gen : 0 .. MaxGen, sent : Nat, ctl : SUBSET {"CLOSE_WRITE", "CLOSE"}]]
  /\ view \in [Ids -> Views \cup {"violated"}] /\ rcvd \in [Ids -> Nat]
  /\ toRelay \in Seq(HostFrames \cup {BadFrame}) /\ toHost \in Seq(RelayFrames)

(* The Relay, with the lock and the progress of shutdown.                   *)
RelayType ==
  r \in [open : BOOLEAN, done : BOOLEAN, err : {"nil", "proto", "read", "write"},
         once : {"new", "conn", "carried", "done"}, todo : SUBSET Conns,
         writeMu : Procs \cup {NoProc}, conns : [Ids -> 0 .. MaxGen]]

(* serve's locals.                                                          *)
ServeType ==
  sv \in [c : Conns \cup {<<>>}, f : HostFrames \cup {<<>>}, err : {"nil", "proto", "read"}]

(* A carried connection and its pumps' locals.                              *)
Carried ==
  [cancelled : BOOLEAN, closing : BOOLEAN, outbound : Seq(HostFrames), cur : Nat,
   hostEOF : BOOLEAN, guestEOF : BOOLEAN,
   guest : {"none", "dialed", "open", "closed"}, sent : Nat, got : Nat]
CarriedType == cc \in [Conns -> Carried]

(* Where the goroutines are.                                                *)
PcType ==
  /\ pc \in [Procs -> Labels]
  /\ pc[Serve] \in ServeLabels
  /\ pc[Closer] \in {"idle", "sd", "join", "done"}
  /\ pc[Monitor] \in {"off", "run", "sd", "done"}
  /\ \A c \in Conns : pc[Worker(c)] \in WorkerLabels /\ pc[Reader(c)] \in ReaderLabels

(* serve's locals while it uses them; a holder of writeMu is in a write.    *)
LinkType ==
  /\ pc[Serve] \in {"enqueue", "closeguest", "refuse", "refclose"} => sv.c \in Conns
  /\ pc[Serve] = "enqueue" => sv.f \in HostFrames
  /\ r.writeMu # NoProc => pc[r.writeMu] \in DOMAIN WriteCall

(* Everything has its type.                                                 *)
TypeInv == EnvType /\ RelayType /\ ServeType /\ CarriedType /\ PcType /\ LinkType

-----------------------------------------------------------------------------
(* The relay as a whole: shutdown runs before the socket closes, and        *)
(* before Serve and Close return; then nothing runs.                        *)
RelayInv ==
  /\ r.done <=> r.once # "new"
  /\ ~r.open => r.done
  /\ pc[Serve] \in {"join", "done"} \/ pc[Closer] \in {"join", "done"} => r.done
  /\ pc[Serve] = "idle" => \A c \in Conns : pc[Worker(c)] = "off"
  /\ "done" \in {pc[Serve], pc[Closer]} => \A c \in Conns : Stopped(Worker(c))

(* Whose fault an error is.                                                 *)
FaultInv ==
  /\ \A i \in DOMAIN toRelay : toRelay[i] = BadFrame => host.bad
  /\ sv.err = "proto" => host.bad
  /\ sv.err = "read" => ~host.up
  /\ ErrorsAreTheHosts

(* Where a reader may still write, where a worker runs, and the parts of a  *)
(* connection.                                                              *)
Reading(c) == pc[Reader(c)] \in {"read", "data", "closewrite"}
Active(c)  == pc[Worker(c)] \notin {"off", "done"}
Id(c)      == c[1]
Gen(c)     == c[2]

(* A connection's two goroutines and its guest connection.                  *)
PairInv(c) ==
  /\ pc[Reader(c)] # "off" => pc[Worker(c)] \in {"loop", "gwrite", "exit", "exitclose",
                                                 "exitjoin", "retire", "done"}
  /\ pc[Reader(c)] = "off" => cc[c].sent = 0
  /\ pc[Worker(c)] \in {"retire", "done"} => Stopped(Reader(c))
  /\ pc[Worker(c)] \in {"off", "dial", "refused"} => cc[c].guest = "none"
  /\ cc[c].guest = "dialed" <=> pc[Worker(c)] = "setguest"
  /\ pc[Worker(c)] \in {"exitjoin", "retire", "done"} => cc[c].guest \in {"none", "closed"}

(* The map of the relay against the workers that run.  retire deletes the   *)
(* ID while its worker holds writeMu.                                       *)
Retiring(c) == pc[Worker(c)] = "retire" /\ r.writeMu = Worker(c)
MapInv(c) ==
  r.conns[Id(c)] = Gen(c) <=> Active(c) /\ ~Retiring(c)

(* Only the last incarnation of an ID runs; later ones are untouched.       *)
GenInv(c) ==
  /\ Gen(c) < hc[Id(c)].gen =>
       /\ Stopped(Worker(c)) /\ Stopped(Reader(c)) /\ cc[c].guest \in {"none", "closed"}
  /\ Gen(c) > hc[Id(c)].gen =>
       pc[Worker(c)] = "off" /\ pc[Reader(c)] = "off"

(* All connections.                                                         *)
ConnInv == \A c \in Conns : PairInv(c) /\ MapInv(c) /\ GenInv(c)

-----------------------------------------------------------------------------
(* The frames on their way to the host.  Allowed(v) is what may be read,    *)
(* now or later, of an ID the host sees in phase v.                         *)
Allowed(v) ==
  CASE v = "opening"     -> RelayKinds
    [] v = "established" -> {"DATA", "CLOSE_WRITE", "CLOSE"}
    [] v \in {"refused", "halfclosed"} -> {"CLOSE"}
    [] OTHER             -> {}

(* The phase after a frame of that kind.                                    *)
PhaseOf(k) ==
  CASE k \in {"DIALOK", "DATA"} -> "established"
    [] k = "DIALREFUSED"        -> "refused"
    [] k = "CLOSE_WRITE"        -> "halfclosed"
    [] OTHER                    -> "closed"

(* Frame i is of that ID.                                                   *)
Of(id, i) == toHost[i].id = id

(* The frames in the socket fit the host's phases one after the other.      *)
FlowInv ==
  /\ \A id \in Ids : view[id] \in Views
  /\ \A i \in DOMAIN toHost : toHost[i].kind \in Allowed(view[toHost[i].id])
  /\ \A i, j \in DOMAIN toHost :
       i < j /\ Of(toHost[i].id, j) => toHost[j].kind \in Allowed(PhaseOf(toHost[i].kind))
  /\ \A i \in DOMAIN toHost :
       toHost[i].kind \in {"DATA", "CLOSE_WRITE"} /\ view[toHost[i].id] = "opening" =>
         \E j \in 1 .. i - 1 : Of(toHost[i].id, j) /\ toHost[j].kind = "DIALOK"

(* Nothing of the ID is on its way.                                         *)
NoFrames(id) == \A i \in DOMAIN toHost : ~Of(id, i)

(* A frame of that kind may be added.                                       *)
CanSend(id, k) ==
  /\ k \in Allowed(view[id])
  /\ \A i \in DOMAIN toHost : Of(id, i) => k \in Allowed(PhaseOf(toHost[i].kind))
  /\ k \in {"DATA", "CLOSE_WRITE"} /\ view[id] = "opening" =>
       \E i \in DOMAIN toHost : Of(id, i) /\ toHost[i].kind = "DIALOK"

(* The host waits for the first answer and none is on its way.              *)
Fresh(id) == view[id] = "opening" /\ NoFrames(id)

(* Each goroutine that may write is about to write a frame that fits.       *)
SendInv(c) ==
  /\ pc[Worker(c)] \in {"dial", "setguest", "refused", "dialok"} => Fresh(Id(c))
  /\ Active(c) => CanSend(Id(c), "CLOSE")
  /\ Reading(c) => CanSend(Id(c), "DATA")

(* While Serve refuses c.                                                   *)
Refusing == pc[Serve] \in {"refuse", "refclose"}
RefuseInv ==
  \A c \in Conns : Refusing /\ sv.c = c =>
    /\ Gen(c) = hc[Id(c)].gen /\ r.conns[Id(c)] = 0 /\ pc[Worker(c)] = "off"
    /\ pc[Serve] = "refuse" => Fresh(Id(c))
    /\ CanSend(Id(c), "CLOSE")

(* While the OPEN of c is in the socket.                                    *)
Opens(i)  == toRelay[i].kind = "OPEN"
Awaits(c) == \E i \in DOMAIN toRelay :
               Opens(i) /\ toRelay[i].id = Id(c) /\ toRelay[i].gen = Gen(c)
OpenInv ==
  /\ \A c \in Conns : Awaits(c) =>
       /\ Gen(c) = hc[Id(c)].gen /\ r.conns[Id(c)] = 0 /\ pc[Worker(c)] = "off"
       /\ Fresh(Id(c)) /\ ~(Refusing /\ Id(sv.c) = Id(c))
  /\ \A i, j \in DOMAIN toRelay :
       Opens(i) /\ Opens(j) /\ toRelay[i].id = toRelay[j].id => i = j

(* All goroutines that may write.                                           *)
WriteInv == \A c \in Conns : SendInv(c)

(* The payloads on their way to the host, for the last incarnation c of an  *)
(* ID: in order and without a gap from the last one read, up to the last    *)
(* one the reader wrote, and all of them ahead of a CLOSE_WRITE.            *)
IsData(id, i)     == Of(id, i) /\ toHost[i].kind = "DATA"
Payload(id, i, k) == IsData(id, i) /\ toHost[i].n = k
Written(c) == IF pc[Reader(c)] = "data" THEN cc[c].sent - 1 ELSE cc[c].sent

DataInv(c) ==
  LET id == Id(c)
  IN  /\ rcvd[id] <= Written(c)
      /\ \A i \in DOMAIN toHost : IsData(id, i) =>
           /\ rcvd[id] < toHost[i].n /\ toHost[i].n <= Written(c)
           /\ \A l \in rcvd[id] + 1 .. toHost[i].n : \E j \in 1 .. i : Payload(id, j, l)
      /\ \A i, j \in DOMAIN toHost :
           IsData(id, i) /\ IsData(id, j) /\ i < j => toHost[i].n < toHost[j].n
      /\ Reading(c) => \A l \in rcvd[id] + 1 .. Written(c) :
                         \E j \in DOMAIN toHost : Payload(id, j, l)
      /\ \A i \in DOMAIN toHost :
           Of(id, i) /\ toHost[i].kind = "CLOSE_WRITE" =>
             \A l \in rcvd[id] + 1 .. cc[c].sent : \E j \in 1 .. i - 1 : Payload(id, j, l)

(* All connections the host still reads from.                               *)
PayloadInv == \A c \in Conns : Gen(c) = hc[Id(c)].gen => DataInv(c)

-----------------------------------------------------------------------------
(* The bound on incarnations.                                               *)
LEMMA MaxGenFacts == MaxGen \in Nat /\ \A p \in Plans : p.gens \in Nat /\ p.gens <= MaxGen
<1> DEFINE S == {p.gens : p \in Plans}
<1>1. \E n \in S : \A p \in Plans : p.gens <= n
  BY BoundsAssumption
<1>2. MaxGen \in S /\ \A p \in Plans : p.gens <= MaxGen
  BY <1>1 DEF MaxGen
<1> QED
  BY <1>2, BoundsAssumption

(* The goroutines are different ones.                                       *)
LEMMA ProcFacts ==
  /\ Serve \in Procs /\ Closer \in Procs /\ Monitor \in Procs /\ NoProc \notin Procs
  /\ Serve # Closer /\ Serve # Monitor /\ Closer # Monitor
  /\ \A c \in Conns :
       /\ Worker(c) \in Procs /\ Reader(c) \in Procs
       /\ Worker(c) \notin {Serve, Closer, Monitor, NoProc}
       /\ Reader(c) \notin {Serve, Closer, Monitor, NoProc}
       /\ \A d \in Conns : /\ Worker(c) # Reader(d)
                           /\ Worker(c) = Worker(d) => c = d
                           /\ Reader(c) = Reader(d) => c = d
<1>1. ASSUME NEW c \in Conns PROVE Worker(c) \in Procs /\ Reader(c) \in Procs
  BY DEF Procs
<1>2. ASSUME NEW c \in Conns, NEW d \in Conns
      PROVE  /\ Worker(c) # Reader(d)
             /\ Worker(c) = Worker(d) => c = d
             /\ Reader(c) = Reader(d) => c = d
  BY SMT DEF Worker, Reader, Conns
<1>3. ASSUME NEW c \in Conns
      PROVE  /\ Worker(c) \notin {Serve, Closer, Monitor, NoProc}
             /\ Reader(c) \notin {Serve, Closer, Monitor, NoProc}
  BY DEF Worker, Reader, Serve, Closer, Monitor, NoProc
<1>4. /\ Serve # Closer /\ Serve # Monitor /\ Closer # Monitor
      /\ NoProc \notin {Serve, Closer, Monitor}
  BY DEF Serve, Closer, Monitor, NoProc
<1>5. Serve \in Procs /\ Closer \in Procs /\ Monitor \in Procs /\ NoProc \notin Procs
  BY <1>3, <1>4 DEF Procs
<1> QED
  BY <1>1, <1>2, <1>3, <1>4, <1>5

(* A connection, its goroutines and whose they are.                         *)
LEMMA OwnerFacts ==
  ASSUME NEW c \in Conns
  PROVE  /\ c = <<Id(c), Gen(c)>> /\ Id(c) \in Ids /\ Gen(c) \in 1 .. MaxGen
         /\ Owner(Worker(c)) = c /\ Owner(Reader(c)) = c /\ Owner(Serve) = sv.c
         /\ Worker(c)[2] = Id(c) /\ Worker(c)[3] = Gen(c)
<1>1. Worker(c) # Serve /\ Reader(c) # Serve
  BY ProcFacts
<1> QED
  BY <1>1, SMT DEF Owner, Worker, Reader, Conns, Id, Gen

(* The connection of an ID and an incarnation.                              *)
LEMMA ConnFacts ==
  ASSUME NEW id \in Ids, NEW g \in 1 .. MaxGen
  PROVE  <<id, g>> \in Conns /\ Id(<<id, g>>) = id /\ Gen(<<id, g>>) = g
  BY DEF Conns, Id, Gen

(* A connection is its ID and its incarnation.                              *)
LEMMA SameConn ==
  ASSUME NEW c \in Conns, NEW d \in Conns, Id(c) = Id(d), Gen(c) = Gen(d)
  PROVE  c = d
  BY OwnerFacts

WriteLabels == {"refuse", "refclose", "refused", "dialok", "retire", "data", "closewrite"}

(* The seven writes: the frame, and where the writer goes.                  *)
LEMMA WriteFacts ==
  /\ DOMAIN WriteCall = WriteLabels
  /\ WriteCall["refuse"].kind = "DIALREFUSED" /\ WriteCall["refclose"].kind = "CLOSE"
  /\ WriteCall["refused"].kind = "DIALREFUSED" /\ WriteCall["dialok"].kind = "DIALOK"
  /\ WriteCall["retire"].kind = "CLOSE" /\ WriteCall["data"].kind = "DATA"
  /\ WriteCall["closewrite"].kind = "CLOSE_WRITE"
  /\ WriteCall["refuse"].ok = "refclose" /\ WriteCall["refuse"].err = "sd"
  /\ WriteCall["refclose"].ok = "read" /\ WriteCall["refclose"].err = "sd"
  /\ WriteCall["refused"].ok = "exit" /\ WriteCall["refused"].err = "exit"
  /\ WriteCall["dialok"].ok = "loop" /\ WriteCall["dialok"].err = "exit"
  /\ WriteCall["retire"].ok = "done" /\ WriteCall["retire"].err = "done"
  /\ WriteCall["data"].ok = "read" /\ WriteCall["data"].err = "rcancel"
  /\ WriteCall["closewrite"].ok = "done" /\ WriteCall["closewrite"].err = "rcancel"
  BY DEF WriteCall, WriteLabels

-----------------------------------------------------------------------------
(* What a goroutine's move leaves of the others'.                           *)
LEMMA GotoFacts ==
  ASSUME pc \in [Procs -> Labels], NEW p \in Procs, NEW l \in Labels, Goto(p, l)
  PROVE  /\ pc' \in [Procs -> Labels] /\ pc'[p] = l
         /\ \A q \in Procs \ {p} : pc'[q] = pc[q]
  BY DEF Goto

(* A move of a worker.                                                      *)
LEMMA WorkerMoves ==
  ASSUME pc \in [Procs -> Labels], NEW c \in Conns, NEW l \in Labels, Goto(Worker(c), l)
  PROVE  /\ pc' \in [Procs -> Labels] /\ pc'[Worker(c)] = l
         /\ pc'[Serve] = pc[Serve] /\ pc'[Closer] = pc[Closer] /\ pc'[Monitor] = pc[Monitor]
         /\ \A d \in Conns : pc'[Reader(d)] = pc[Reader(d)]
         /\ \A d \in Conns \ {c} : pc'[Worker(d)] = pc[Worker(d)]
<1>1. Worker(c) \in Procs
  BY ProcFacts
<1>2. /\ pc' \in [Procs -> Labels] /\ pc'[Worker(c)] = l
      /\ \A q \in Procs \ {Worker(c)} : pc'[q] = pc[q]
  BY <1>1, GotoFacts
<1> QED
  BY <1>2, ProcFacts

(* A move of a reader.                                                      *)
LEMMA ReaderMoves ==
  ASSUME pc \in [Procs -> Labels], NEW c \in Conns, NEW l \in Labels, Goto(Reader(c), l)
  PROVE  /\ pc' \in [Procs -> Labels] /\ pc'[Reader(c)] = l
         /\ pc'[Serve] = pc[Serve] /\ pc'[Closer] = pc[Closer] /\ pc'[Monitor] = pc[Monitor]
         /\ \A d \in Conns : pc'[Worker(d)] = pc[Worker(d)]
         /\ \A d \in Conns \ {c} : pc'[Reader(d)] = pc[Reader(d)]
<1>1. Reader(c) \in Procs
  BY ProcFacts
<1>2. /\ pc' \in [Procs -> Labels] /\ pc'[Reader(c)] = l
      /\ \A q \in Procs \ {Reader(c)} : pc'[q] = pc[q]
  BY <1>1, GotoFacts
<1> QED
  BY <1>2, ProcFacts

(* A move of Serve, of Close or of the monitor.                             *)
LEMMA OtherMoves ==
  ASSUME pc \in [Procs -> Labels], NEW p \in {Serve, Closer, Monitor}, NEW l \in Labels,
         Goto(p, l)
  PROVE  /\ pc' \in [Procs -> Labels] /\ pc'[p] = l
         /\ \A q \in {Serve, Closer, Monitor} \ {p} : pc'[q] = pc[q]
         /\ \A d \in Conns : pc'[Worker(d)] = pc[Worker(d)] /\ pc'[Reader(d)] = pc[Reader(d)]
<1>1. p \in Procs
  BY ProcFacts
<1>2. /\ pc' \in [Procs -> Labels] /\ pc'[p] = l
      /\ \A q \in Procs \ {p} : pc'[q] = pc[q]
  BY <1>1, GotoFacts
<1> QED
  BY <1>2, ProcFacts


-----------------------------------------------------------------------------
(* Type correctness.                                                        *)
LEMMA TypeInit == Init => TypeInv
<1> SUFFICES ASSUME Init PROVE TypeInv
  OBVIOUS
<1> USE MaxGenFacts DEF Init
<1>1. EnvType
  BY SMT DEF EnvType, Views
<1>2. RelayType /\ ServeType
  BY SMT DEF RelayType, ServeType, NewRelay
<1>3. CarriedType
  BY SMT DEF CarriedType, Carried, NewCarried
<1>4. pc[Serve] = "idle" /\ pc[Closer] = "idle" /\ pc[Monitor] = "off"
  BY ProcFacts
<1>5. \A c \in Conns : pc[Worker(c)] = "off" /\ pc[Reader(c)] = "off"
  BY ProcFacts
<1>6. pc \in [Procs -> Labels]
  BY DEF Labels, ServeLabels, WorkerLabels
<1>7. PcType
  BY <1>4, <1>5, <1>6 DEF PcType, ServeLabels, WorkerLabels, ReaderLabels
<1>8. LinkType
  BY <1>4 DEF LinkType, NewRelay
<1> QED
  BY <1>1, <1>2, <1>3, <1>7, <1>8 DEF TypeInv

(* The parts of the type that a step leaves alone.                          *)
LEMMA TypeKept ==
  ASSUME TypeInv
  PROVE  /\ UNCHANGED r => RelayType'
         /\ UNCHANGED sv => ServeType'
         /\ UNCHANGED cc => CarriedType'
         /\ UNCHANGED pc => PcType'
         /\ UNCHANGED <<pc, sv, r>> => LinkType'
         /\ UNCHANGED env => EnvType'
<1>1. UNCHANGED r => RelayType'
  BY DEF TypeInv, RelayType
<1>2. UNCHANGED sv => ServeType'
  BY DEF TypeInv, ServeType
<1>3. UNCHANGED cc => CarriedType'
  BY DEF TypeInv, CarriedType
<1>4. UNCHANGED pc => PcType'
  BY DEF TypeInv, PcType
<1>5. UNCHANGED <<pc, sv, r>> => LinkType'
  BY DEF TypeInv, LinkType
<1>6. UNCHANGED env => EnvType'
  BY DEF TypeInv, EnvType, env
<1> QED
  BY <1>1, <1>2, <1>3, <1>4, <1>5, <1>6

(* A frame the host appends.                                                *)
LEMMA HostFrameType ==
  ASSUME TypeInv, NEW f \in HostFrames \cup {BadFrame}, HostSend(f),
         host' \in [up : BOOLEAN, bad : BOOLEAN],
         hc' \in [Ids -> [gen : 0 .. MaxGen, sent : Nat, ctl : SUBSET {"CLOSE_WRITE", "CLOSE"}]],
         view' \in [Ids -> Views \cup {"violated"}], rcvd' \in [Ids -> Nat]
  PROVE  TypeInv'
<1>1. toRelay' \in Seq(HostFrames \cup {BadFrame})
  BY SMT DEF HostSend, TypeInv, EnvType
<1>2. EnvType'
  BY <1>1 DEF HostSend, TypeInv, EnvType
<1>3. RelayType' /\ ServeType' /\ CarriedType' /\ PcType' /\ LinkType'
  BY TypeKept DEF HostSend
<1> QED
  BY <1>2, <1>3 DEF TypeInv

(* The host's steps preserve the types.                                     *)
LEMMA TypeHost == TypeInv /\ Host => TypeInv'
<1> SUFFICES ASSUME TypeInv, Host PROVE TypeInv'
  OBVIOUS
<1> USE MaxGenFacts
<1>1. EnvType
  BY DEF TypeInv
<1>2. ASSUME NEW id \in Ids, HostOpen(id) PROVE TypeInv'
  <2>1. hc[id].gen + 1 \in 1 .. MaxGen
    BY <1>1, <1>2, SMT DEF EnvType, HostOpen
  <2>2. Frame("OPEN", <<id, hc[id].gen + 1>>, 0) \in HostFrames
    BY <2>1 DEF Frame, HostFrames, HostKinds
  <2>3. hc' \in [Ids -> [gen : 0 .. MaxGen, sent : Nat, ctl : SUBSET {"CLOSE_WRITE", "CLOSE"}]]
    BY <2>1, <1>1, <1>2, SMT DEF EnvType, HostOpen
  <2>4. view' \in [Ids -> Views \cup {"violated"}] /\ rcvd' \in [Ids -> Nat] /\ host' = host
    BY <1>1, <1>2 DEF EnvType, HostOpen, Views
  <2> QED
    BY <2>2, <2>3, <2>4, <1>1, <1>2, HostFrameType DEF HostOpen, EnvType
<1>3. ASSUME NEW id \in Ids, HostData(id) PROVE TypeInv'
  <2>1. hc[id].gen \in 1 .. MaxGen /\ hc[id].sent + 1 \in Nat
    BY <1>1, <1>3, SMT DEF EnvType, HostData, MaySend
  <2>2. Frame("DATA", <<id, hc[id].gen>>, hc[id].sent + 1) \in HostFrames
    BY <2>1 DEF Frame, HostFrames, HostKinds
  <2>3. hc' \in [Ids -> [gen : 0 .. MaxGen, sent : Nat, ctl : SUBSET {"CLOSE_WRITE", "CLOSE"}]]
    <3>1. hc[id] \in [gen : 0 .. MaxGen, sent : Nat, ctl : SUBSET {"CLOSE_WRITE", "CLOSE"}]
      BY <1>1 DEF EnvType
    <3>2. [hc[id] EXCEPT !.sent = @ + 1] \in [gen : 0 .. MaxGen, sent : Nat, ctl : SUBSET {"CLOSE_WRITE", "CLOSE"}]
      BY <3>1, <2>1
    <3> QED
      BY <3>2, <1>1, <1>3 DEF EnvType, HostData
  <2>4. view' = view /\ rcvd' = rcvd /\ host' = host
    BY <1>3 DEF HostData
  <2> QED
    BY <2>2, <2>3, <2>4, <1>1, <1>3, HostFrameType DEF HostData, EnvType
<1>4. ASSUME NEW id \in Ids, NEW k \in {"CLOSE_WRITE", "CLOSE"}, HostControl(id, k)
      PROVE  TypeInv'
  <2>1. hc[id].gen \in 1 .. MaxGen /\ hc[id].sent \in Nat
    BY <1>1, <1>4, SMT DEF EnvType, HostControl, MaySend
  <2>2. Frame(k, <<id, hc[id].gen>>, hc[id].sent) \in HostFrames
    BY <2>1 DEF Frame, HostFrames, HostKinds
  <2>3. hc' \in [Ids -> [gen : 0 .. MaxGen, sent : Nat, ctl : SUBSET {"CLOSE_WRITE", "CLOSE"}]]
    <3>1. hc[id] \in [gen : 0 .. MaxGen, sent : Nat, ctl : SUBSET {"CLOSE_WRITE", "CLOSE"}]
      BY <1>1 DEF EnvType
    <3>2. [hc[id] EXCEPT !.ctl = @ \cup {k}] \in [gen : 0 .. MaxGen, sent : Nat, ctl : SUBSET {"CLOSE_WRITE", "CLOSE"}]
      BY <3>1, <2>1
    <3> QED
      BY <3>2, <1>1, <1>4 DEF EnvType, HostControl
  <2>4. view' = view /\ rcvd' = rcvd /\ host' = host
    BY <1>4 DEF HostControl
  <2> QED
    BY <2>2, <2>3, <2>4, <1>1, <1>4, HostFrameType DEF HostControl, EnvType
<1>5. CASE HostBad
  <2>1. host' \in [up : BOOLEAN, bad : BOOLEAN] /\ hc' = hc /\ view' = view /\ rcvd' = rcvd
    BY <1>1, <1>5 DEF EnvType, HostBad
  <2>2. BadFrame \in HostFrames \cup {BadFrame} /\ HostSend(BadFrame)
    BY <1>5 DEF HostBad, BadFrame
  <2> QED
    BY <2>1, <2>2, <1>1, HostFrameType DEF EnvType
<1>6. CASE HostRecv \/ HostVanish
  <2>1. /\ UNCHANGED <<plan, hc, toRelay, pc, sv, r, cc>>
    BY <1>6 DEF HostRecv, HostVanish
  <2>2. host' \in [up : BOOLEAN, bad : BOOLEAN] /\ toHost' \in Seq(RelayFrames)
    <3>1. CASE HostRecv
      <4>1. host' = host /\ toHost # <<>> /\ toHost' = Tail(toHost)
        BY <3>1 DEF HostRecv
      <4> QED
        BY <4>1, <1>1, SMT DEF EnvType
    <3>2. CASE HostVanish
      BY <3>2, <1>1 DEF HostVanish, EnvType
    <3> QED
      BY <3>1, <3>2, <1>6
  <2>3. /\ rcvd' \in [Ids -> Nat] /\ view' \in [Ids -> Views \cup {"violated"}]
    <3>1. CASE HostRecv
      <4> DEFINE f == Head(toHost)
      <4>1. f \in RelayFrames
        BY <3>1, <1>1, SMT DEF HostRecv, EnvType
      <4>2. f.n \in Nat
        BY <4>1 DEF RelayFrames
      <4>3. rcvd' \in [Ids -> Nat]
        BY <4>2, <3>1, <1>1 DEF HostRecv, EnvType
      <4>4. \A v, k : PhaseAfter(v, k) \in Views \cup {"violated"}
        BY DEF PhaseAfter, Views
      <4>5. view' = [view EXCEPT ![f.id] = PhaseAfter(@, f.kind)]
        BY <3>1 DEF HostRecv
      <4> HIDE DEF f
      <4>6. view' \in [Ids -> Views \cup {"violated"}]
        BY <4>4, <4>5, <1>1 DEF EnvType
      <4> QED
        BY <4>3, <4>6
    <3>2. CASE HostVanish
      BY <3>2, <1>1 DEF HostVanish, EnvType
    <3> QED
      BY <3>1, <3>2, <1>6
  <2>4. EnvType'
    BY <2>1, <2>2, <2>3, <1>1 DEF EnvType
  <2>5. RelayType' /\ ServeType' /\ CarriedType' /\ PcType' /\ LinkType'
    BY <2>1, TypeKept
  <2> QED
    BY <2>4, <2>5 DEF TypeInv
<1> QED
  BY <1>2, <1>3, <1>4, <1>5, <1>6, Zenon DEF Host


(* The updates of a carried connection.                                     *)
LEMMA CarriedFacts ==
  ASSUME NEW x \in Carried
  PROVE  /\ Cancelled(x) \in Carried /\ Cancelled(x).cancelled
         /\ Cancelled(x).guest = x.guest /\ Cancelled(x).outbound = x.outbound
         /\ Cancelled(x).sent = x.sent
         /\ GuestClosed(x) \in Carried
         /\ GuestClosed(x).guest = IF x.guest = "open" THEN "closed" ELSE x.guest
         /\ GuestClosed(x).outbound = x.outbound /\ GuestClosed(x).sent = x.sent
         /\ Closing(x) \in Carried /\ Closing(x).guest = x.guest
         /\ Closing(x).outbound = x.outbound /\ Closing(x).sent = x.sent
<1>1. /\ Cancelled(x) \in Carried /\ Cancelled(x).cancelled
      /\ Cancelled(x).guest = x.guest /\ Cancelled(x).outbound = x.outbound
      /\ Cancelled(x).sent = x.sent
  BY DEF Carried, Cancelled
<1>2. /\ GuestClosed(x) \in Carried
      /\ GuestClosed(x).guest = IF x.guest = "open" THEN "closed" ELSE x.guest
      /\ GuestClosed(x).outbound = x.outbound /\ GuestClosed(x).sent = x.sent
  BY DEF Carried, GuestClosed
<1>3. /\ Closing(x) \in Carried /\ Closing(x).guest = x.guest
      /\ Closing(x).outbound = x.outbound /\ Closing(x).sent = x.sent
  <2> DEFINE y == Cancelled(x)
  <2>1. Closing(x) = [y EXCEPT !.closing = TRUE]
    BY DEF Closing
  <2>2. y \in Carried
    BY <1>1
  <2> HIDE DEF y
  <2>3. /\ Closing(x) \in Carried /\ Closing(x).guest = y.guest
        /\ Closing(x).outbound = y.outbound /\ Closing(x).sent = y.sent
    BY <2>1, <2>2 DEF Carried
  <2> QED
    BY <2>3, <1>1 DEF y
<1> QED
  BY <1>1, <1>2, <1>3

(* The worker takes the head of its queue (the select in dialAndServe).     *)
LEMMA TakenFacts ==
  ASSUME NEW x \in Carried, x.outbound # <<>>
  PROVE  /\ Taken(x) \in Carried /\ Taken(x).guest = x.guest
         /\ Taken(x).outbound = Tail(x.outbound) /\ Taken(x).sent = x.sent
<1>1. x.outbound \in Seq(HostFrames)
  BY DEF Carried
<1>2. Head(x.outbound) \in HostFrames /\ Tail(x.outbound) \in Seq(HostFrames)
  BY <1>1, SMT
<1>3. Head(x.outbound).n \in Nat
  BY <1>2 DEF HostFrames
<1>4. Taken(x) = [x EXCEPT !.outbound = Tail(x.outbound), !.cur = Head(x.outbound).n]
  BY DEF Taken
<1> QED
  BY <1>2, <1>3, <1>4 DEF Carried

(* A step that changes one carried connection.                              *)
LEMMA CarriedStep ==
  ASSUME CarriedType, NEW c \in Conns, NEW x \in Carried, cc' = [cc EXCEPT ![c] = x]
  PROVE  CarriedType' /\ cc'[c] = x /\ \A d \in Conns \ {c} : cc'[d] = cc[d]
  BY DEF CarriedType

(* A move of a worker or a reader outside the writes.                       *)
LEMMA TypeWorkerMove ==
  ASSUME TypeInv, NEW c \in Conns, NEW l \in WorkerLabels, pc[Worker(c)] \notin WriteLabels,
         Goto(Worker(c), l), UNCHANGED <<env, sv, r>>, CarriedType'
  PROVE  TypeInv'
<1>1. l \in Labels /\ pc \in [Procs -> Labels] /\ PcType /\ LinkType
  BY DEF Labels, TypeInv, PcType
<1>2. /\ pc' \in [Procs -> Labels] /\ pc'[Worker(c)] = l
      /\ pc'[Serve] = pc[Serve] /\ pc'[Closer] = pc[Closer] /\ pc'[Monitor] = pc[Monitor]
      /\ \A d \in Conns : pc'[Reader(d)] = pc[Reader(d)]
      /\ \A d \in Conns \ {c} : pc'[Worker(d)] = pc[Worker(d)]
  BY <1>1, WorkerMoves
<1>3. PcType'
  BY <1>1, <1>2 DEF PcType
<1>4. \A q \in Procs \ {Worker(c)} : pc'[q] = pc[q]
  BY <1>1, ProcFacts, GotoFacts
<1>5. r.writeMu # NoProc => r.writeMu # Worker(c) /\ r.writeMu \in Procs
  BY <1>1, WriteFacts DEF LinkType, TypeInv, RelayType
<1>6. LinkType'
  BY <1>1, <1>2, <1>4, <1>5 DEF LinkType
<1> QED
  BY <1>3, <1>6, TypeKept DEF TypeInv

(* The same for a reader.                                                   *)
LEMMA TypeReaderMove ==
  ASSUME TypeInv, NEW c \in Conns, NEW l \in ReaderLabels, pc[Reader(c)] \notin WriteLabels,
         Goto(Reader(c), l), UNCHANGED <<env, sv, r>>, CarriedType'
  PROVE  TypeInv'
<1>1. l \in Labels /\ pc \in [Procs -> Labels] /\ PcType /\ LinkType
  BY DEF Labels, TypeInv, PcType
<1>2. /\ pc' \in [Procs -> Labels] /\ pc'[Reader(c)] = l
      /\ pc'[Serve] = pc[Serve] /\ pc'[Closer] = pc[Closer] /\ pc'[Monitor] = pc[Monitor]
      /\ \A d \in Conns : pc'[Worker(d)] = pc[Worker(d)]
      /\ \A d \in Conns \ {c} : pc'[Reader(d)] = pc[Reader(d)]
  BY <1>1, ReaderMoves
<1>3. PcType'
  BY <1>1, <1>2 DEF PcType
<1>4. \A q \in Procs \ {Reader(c)} : pc'[q] = pc[q]
  BY <1>1, ProcFacts, GotoFacts
<1>5. r.writeMu # NoProc => r.writeMu # Reader(c) /\ r.writeMu \in Procs
  BY <1>1, WriteFacts DEF LinkType, TypeInv, RelayType
<1>6. LinkType'
  BY <1>1, <1>2, <1>4, <1>5 DEF LinkType
<1> QED
  BY <1>3, <1>6, TypeKept DEF TypeInv

(* What a worker's steps outside the writes do: it moves, and changes its   *)
(* own carried connection at most.                                          *)
LocalWorker(c) ==
  \/ DialReturn(c) \/ SetGuest(c) \/ WorkerCtxDone(c) \/ WorkerReaderDone(c)
  \/ WorkerTakeData(c) \/ WorkerTakeCloseWrite(c) \/ GuestWriteClosed(c)
  \/ WorkerExit(c) \/ GuestAccepts(c)

LocalReader(c) == ReaderEnd(c) \/ GuestSends(c)

(* From where to where, and the guest connection before and after.          *)
WorkerEdge(a, l, g, h) ==
  \/ a = "dial" /\ l = "setguest" /\ h = "dialed"
  \/ a = "dial" /\ l \in {"exit", "refused"} /\ h = g
  \/ a = "setguest" /\ l = "exit" /\ h = "closed"
  \/ a = "setguest" /\ l = "dialok" /\ h = "open"
  \/ a \in {"loop", "gwrite"} /\ l \in {"loop", "gwrite", "exit"} /\ h = g
  \/ a = "exit" /\ l = "exitclose" /\ h = g
  \/ a = "exitclose" /\ l = "exitjoin" /\ h = IF g = "open" THEN "closed" ELSE g
  \/ a = "exitjoin" /\ l = "retire" /\ h = g

ReaderEdge(a, l, s, t, g, h) ==
  \/ a = "read" /\ l = "data" /\ t = s + 1 /\ h = g
  \/ a = "read" /\ l \in {"closewrite", "rcancel"} /\ t = s /\ h = g
  \/ a = "rcancel" /\ l = "rclose" /\ t = s /\ h = g
  \/ a = "rclose" /\ l = "done" /\ t = s /\ h = IF g = "open" THEN "closed" ELSE g

WorkerEffect(c, l, x) ==
  /\ UNCHANGED <<env, sv, r>> /\ Goto(Worker(c), l) /\ cc' = [cc EXCEPT ![c] = x]
  /\ WorkerEdge(pc[Worker(c)], l, cc[c].guest, x.guest)
  /\ x.sent = cc[c].sent
  /\ x.outbound = cc[c].outbound
       \/ (cc[c].outbound # <<>> /\ x.outbound = Tail(cc[c].outbound))
  /\ l = "retire" => Stopped(Reader(c))

(* Every such step of a worker is along one of its edges.                   *)
LEMMA LocalWorkerEffect ==
  ASSUME TypeInv, NEW c \in Conns, LocalWorker(c)
  PROVE  \E l \in WorkerLabels, x \in Carried : WorkerEffect(c, l, x)
<1>1. cc \in [Conns -> Carried] /\ cc[c] \in Carried
  BY DEF TypeInv, CarriedType
<1>2. cc = [cc EXCEPT ![c] = cc[c]]
  BY <1>1
<1>3. ASSUME NEW l \in WorkerLabels, WorkerTo(c, l), UNCHANGED <<env, sv, r, cc>>,
             WorkerEdge(pc[Worker(c)], l, cc[c].guest, cc[c].guest),
             l = "retire" => Stopped(Reader(c))
      PROVE  WorkerEffect(c, l, cc[c])
  BY <1>2, <1>3 DEF WorkerEffect, WorkerTo
<1>4. CASE DialReturn(c)
  <2>1. CASE cc' = [cc EXCEPT ![c].guest = "dialed"] /\ WorkerTo(c, "setguest")
    <3> DEFINE x == [cc[c] EXCEPT !.guest = "dialed"]
    <3>1. /\ x \in Carried /\ x.guest = "dialed" /\ x.sent = cc[c].sent
          /\ x.outbound = cc[c].outbound
      BY <1>1 DEF Carried
    <3>2. cc' = [cc EXCEPT ![c] = x]
      BY <2>1, <1>1
    <3> HIDE DEF x
    <3>3. WorkerEffect(c, "setguest", x)
      BY <3>1, <3>2, <2>1, <1>4 DEF WorkerEffect, WorkerEdge, WorkerTo, DialReturn, WorkerAt
    <3> QED
      BY <3>1, <3>3 DEF WorkerLabels
  <2>2. CASE UNCHANGED cc /\ (WorkerTo(c, "exit") \/ WorkerTo(c, "refused"))
    <3>1. WorkerEffect(c, "exit", cc[c]) \/ WorkerEffect(c, "refused", cc[c])
      BY <2>2, <1>3, <1>4 DEF DialReturn, WorkerAt, WorkerEdge, WorkerLabels
    <3> QED
      BY <3>1, <1>1 DEF WorkerLabels
  <2> QED
    BY <2>1, <2>2, <1>4 DEF DialReturn
<1>5. CASE SetGuest(c)
  <2> DEFINE h == IF CtxErr(c) THEN "closed" ELSE "open"
             l == IF CtxErr(c) THEN "exit" ELSE "dialok"
             x == [cc[c] EXCEPT !.guest = h]
  <2>1. h \in {"closed", "open"} /\ l \in WorkerLabels /\ (h = "closed" <=> l = "exit")
        /\ (h = "open" <=> l = "dialok")
    BY DEF WorkerLabels
  <2>2. cc' = [cc EXCEPT ![c] = x] /\ WorkerTo(c, l)
    BY <1>5, <1>1 DEF SetGuest
  <2> HIDE DEF h, l
  <2>3. /\ x \in Carried /\ x.guest = h /\ x.sent = cc[c].sent
        /\ x.outbound = cc[c].outbound
    BY <2>1, <1>1 DEF Carried
  <2> HIDE DEF x
  <2>4. WorkerEffect(c, l, x)
    BY <2>1, <2>2, <2>3, <1>5 DEF WorkerEffect, WorkerEdge, WorkerTo, SetGuest, WorkerAt
  <2> QED
    BY <2>1, <2>3, <2>4
<1>6. CASE WorkerCtxDone(c) \/ GuestWriteClosed(c)
  <2>1. WorkerEffect(c, "exit", cc[c])
    BY <1>3, <1>6 DEF WorkerCtxDone, GuestWriteClosed, WorkerAt, WorkerEdge, WorkerLabels
  <2> QED
    BY <2>1, <1>1 DEF WorkerLabels
<1>7. CASE WorkerReaderDone(c)
  <2> DEFINE x == [cc[c] EXCEPT !.guestEOF = TRUE]
             l == AfterGuestEOF(c)
  <2>1. cc' = [cc EXCEPT ![c] = x] /\ WorkerTo(c, l) /\ l \in {"exit", "loop"}
    BY <1>7, <1>1 DEF WorkerReaderDone, AfterGuestEOF
  <2>2. /\ x \in Carried /\ x.guest = cc[c].guest /\ x.sent = cc[c].sent
        /\ x.outbound = cc[c].outbound
    BY <1>1 DEF Carried
  <2> HIDE DEF x, l
  <2>3. WorkerEffect(c, l, x)
    BY <2>1, <2>2, <1>7 DEF WorkerEffect, WorkerEdge, WorkerTo, WorkerReaderDone, WorkerAt
  <2> QED
    BY <2>1, <2>2, <2>3 DEF WorkerLabels
<1>8. CASE WorkerTakeData(c)
  <2> DEFINE l == IF cc[c].hostEOF THEN "exit" ELSE "gwrite"
             x == Taken(cc[c])
  <2>1. cc' = [cc EXCEPT ![c] = x] /\ WorkerTo(c, l) /\ l \in {"exit", "gwrite"}
    BY <1>8, <1>1 DEF WorkerTakeData
  <2>2. /\ cc[c].outbound # <<>> /\ x \in Carried /\ x.guest = cc[c].guest
        /\ x.sent = cc[c].sent /\ x.outbound = Tail(cc[c].outbound)
    BY <1>1, <1>8, TakenFacts DEF WorkerTakeData
  <2> HIDE DEF x, l
  <2>3. WorkerEffect(c, l, x)
    BY <2>1, <2>2, <1>8 DEF WorkerEffect, WorkerEdge, WorkerTo, WorkerTakeData, WorkerAt
  <2> QED
    BY <2>1, <2>2, <2>3 DEF WorkerLabels
<1>9. CASE WorkerTakeCloseWrite(c)
  <2>1. /\ cc[c].outbound # <<>> /\ Taken(cc[c]) \in Carried
        /\ Taken(cc[c]).guest = cc[c].guest /\ Taken(cc[c]).sent = cc[c].sent
        /\ Taken(cc[c]).outbound = Tail(cc[c].outbound)
    BY <1>1, <1>9, TakenFacts DEF WorkerTakeCloseWrite
  <2> DEFINE y == Taken(cc[c])
             z == [y EXCEPT !.hostEOF = TRUE]
  <2>2. \/ cc' = [cc EXCEPT ![c] = z] /\ (WorkerTo(c, "exit") \/ WorkerTo(c, "loop"))
        \/ cc' = [cc EXCEPT ![c] = y] /\ WorkerTo(c, "exit")
    BY <1>1, <1>9 DEF WorkerTakeCloseWrite
  <2> HIDE DEF y
  <2>3. /\ z \in Carried /\ z.guest = y.guest /\ z.sent = y.sent /\ z.outbound = y.outbound
    BY <2>1 DEF Carried, y
  <2> HIDE DEF z
  <2>4. \/ WorkerEffect(c, "exit", z) \/ WorkerEffect(c, "loop", z) \/ WorkerEffect(c, "exit", y)
    BY <2>1, <2>2, <2>3, <1>9
       DEF WorkerEffect, WorkerEdge, WorkerTo, WorkerTakeCloseWrite, WorkerAt, y
  <2> QED
    BY <2>1, <2>3, <2>4 DEF WorkerLabels, y
<1>10. CASE WorkerExit(c)
  <2>1. CASE WorkerAt(c, "exit") /\ Cancel(c) /\ WorkerTo(c, "exitclose")
    <3>1. WorkerEffect(c, "exitclose", Cancelled(cc[c])) /\ Cancelled(cc[c]) \in Carried
      BY <2>1, <1>1, CarriedFacts DEF WorkerEffect, WorkerEdge, WorkerTo, WorkerAt, Cancel
    <3> QED
      BY <3>1 DEF WorkerLabels
  <2>2. CASE WorkerAt(c, "exitclose") /\ CloseGuest(c) /\ WorkerTo(c, "exitjoin")
    <3>1. WorkerEffect(c, "exitjoin", GuestClosed(cc[c])) /\ GuestClosed(cc[c]) \in Carried
      BY <2>2, <1>1, CarriedFacts DEF WorkerEffect, WorkerEdge, WorkerTo, WorkerAt, CloseGuest
    <3> QED
      BY <3>1 DEF WorkerLabels
  <2>3. CASE WorkerAt(c, "exitjoin") /\ ReaderJoined(c) /\ WorkerTo(c, "retire") /\ UNCHANGED cc
    <3>1. WorkerEffect(c, "retire", cc[c])
      BY <2>3, <1>3 DEF WorkerAt, WorkerEdge, WorkerLabels, ReaderJoined
    <3> QED
      BY <3>1, <1>1 DEF WorkerLabels
  <2> QED
    BY <2>1, <2>2, <2>3, <1>10 DEF WorkerExit
<1>11. CASE GuestAccepts(c)
  <2>1. CASE cc' = [cc EXCEPT ![c].got = cc[c].cur] /\ WorkerTo(c, "loop")
    <3> DEFINE x == [cc[c] EXCEPT !.got = cc[c].cur]
    <3>1. /\ x \in Carried /\ x.guest = cc[c].guest /\ x.sent = cc[c].sent
          /\ x.outbound = cc[c].outbound
      BY <1>1 DEF Carried
    <3>2. cc' = [cc EXCEPT ![c] = x]
      BY <2>1, <1>1
    <3> HIDE DEF x
    <3>3. WorkerEffect(c, "loop", x)
      BY <3>1, <3>2, <2>1, <1>11 DEF WorkerEffect, WorkerEdge, WorkerTo, GuestAccepts, WorkerAt
    <3> QED
      BY <3>1, <3>3 DEF WorkerLabels
  <2>2. CASE WorkerTo(c, "exit") /\ UNCHANGED cc
    <3>1. WorkerEffect(c, "exit", cc[c])
      BY <2>2, <1>3, <1>11 DEF GuestAccepts, WorkerAt, WorkerEdge, WorkerLabels
    <3> QED
      BY <3>1, <1>1 DEF WorkerLabels
  <2> QED
    BY <2>1, <2>2, <1>11 DEF GuestAccepts
<1> QED
  BY <1>4, <1>5, <1>6, <1>7, <1>8, <1>9, <1>10, <1>11 DEF LocalWorker


ReaderEffect(c, l, x) ==
  /\ UNCHANGED <<env, sv, r>> /\ Goto(Reader(c), l) /\ cc' = [cc EXCEPT ![c] = x]
  /\ ReaderEdge(pc[Reader(c)], l, cc[c].sent, x.sent, cc[c].guest, x.guest)
  /\ x.outbound = cc[c].outbound

(* Every such step of a reader is along one of its edges.                   *)
LEMMA LocalReaderEffect ==
  ASSUME TypeInv, NEW c \in Conns, LocalReader(c)
  PROVE  \E l \in ReaderLabels, x \in Carried : ReaderEffect(c, l, x)
<1>1. cc \in [Conns -> Carried] /\ cc[c] \in Carried
  BY DEF TypeInv, CarriedType
<1>2. cc = [cc EXCEPT ![c] = cc[c]]
  BY <1>1
<1>3. CASE GuestSends(c)
  <2>1. CASE cc' = [cc EXCEPT ![c].sent = @ + 1] /\ ReaderTo(c, "data")
    <3> DEFINE n == cc[c].sent + 1
               x == [cc[c] EXCEPT !.sent = n]
    <3>1. n \in Nat
      BY <1>1, SMT DEF Carried
    <3>2. cc' = [cc EXCEPT ![c] = x]
      BY <2>1, <1>1
    <3> HIDE DEF n
    <3>3. /\ x \in Carried /\ x.guest = cc[c].guest /\ x.sent = n
          /\ x.outbound = cc[c].outbound
      BY <3>1, <1>1 DEF Carried
    <3> HIDE DEF x
    <3>4. ReaderEffect(c, "data", x)
      BY <3>2, <3>3, <2>1, <1>3 DEF ReaderEffect, ReaderEdge, ReaderTo, GuestSends, ReaderAt, n
    <3> QED
      BY <3>3, <3>4 DEF ReaderLabels
  <2>2. CASE UNCHANGED cc /\ (ReaderTo(c, "rcancel") \/ ReaderTo(c, "closewrite"))
    <3>1. ReaderEffect(c, "rcancel", cc[c]) \/ ReaderEffect(c, "closewrite", cc[c])
      BY <2>2, <1>2, <1>3 DEF ReaderEffect, ReaderEdge, ReaderTo, GuestSends, ReaderAt
    <3> QED
      BY <3>1, <1>1 DEF ReaderLabels
  <2> QED
    BY <2>1, <2>2, <1>3 DEF GuestSends
<1>4. CASE ReaderEnd(c)
  <2>1. CASE ReaderAt(c, "read") /\ ReaderTo(c, "rcancel") /\ UNCHANGED cc
    <3>1. ReaderEffect(c, "rcancel", cc[c])
      BY <2>1, <1>2 DEF ReaderEffect, ReaderEdge, ReaderTo, ReaderAt
    <3> QED
      BY <3>1, <1>1 DEF ReaderLabels
  <2>2. CASE ReaderAt(c, "rcancel") /\ Cancel(c) /\ ReaderTo(c, "rclose")
    <3>1. ReaderEffect(c, "rclose", Cancelled(cc[c])) /\ Cancelled(cc[c]) \in Carried
      BY <2>2, <1>1, CarriedFacts DEF ReaderEffect, ReaderEdge, ReaderTo, ReaderAt, Cancel
    <3> QED
      BY <3>1 DEF ReaderLabels
  <2>3. CASE ReaderAt(c, "rclose") /\ CloseGuest(c) /\ ReaderTo(c, "done")
    <3>1. ReaderEffect(c, "done", GuestClosed(cc[c])) /\ GuestClosed(cc[c]) \in Carried
      BY <2>3, <1>1, CarriedFacts DEF ReaderEffect, ReaderEdge, ReaderTo, ReaderAt, CloseGuest
    <3> QED
      BY <3>1 DEF ReaderLabels
  <2> QED
    BY <2>1, <2>2, <2>3, <1>4 DEF ReaderEnd
<1> QED
  BY <1>3, <1>4 DEF LocalReader

(* Steps of a pump outside the writes preserve the types.                   *)
LEMMA TypeLocal ==
  ASSUME TypeInv, NEW c \in Conns, LocalWorker(c) \/ LocalReader(c)
  PROVE  TypeInv'
<1>1. CarriedType
  BY DEF TypeInv
<1>2. CASE LocalWorker(c)
  <2>1. PICK l \in WorkerLabels, x \in Carried : WorkerEffect(c, l, x)
    BY <1>2, LocalWorkerEffect
  <2>2. CarriedType'
    BY <2>1, <1>1, CarriedStep DEF WorkerEffect
  <2>3. pc[Worker(c)] \notin WriteLabels
    BY <2>1 DEF WorkerEffect, WorkerEdge, WriteLabels
  <2> QED
    BY <2>1, <2>2, <2>3, TypeWorkerMove DEF WorkerEffect
<1>3. CASE LocalReader(c)
  <2>1. PICK l \in ReaderLabels, x \in Carried : ReaderEffect(c, l, x)
    BY <1>3, LocalReaderEffect
  <2>2. CarriedType'
    BY <2>1, <1>1, CarriedStep DEF ReaderEffect
  <2>3. pc[Reader(c)] \notin WriteLabels
    BY <2>1 DEF ReaderEffect, ReaderEdge, WriteLabels
  <2> QED
    BY <2>1, <2>2, <2>3, TypeReaderMove DEF ReaderEffect
<1> QED
  BY <1>2, <1>3

(* shutdown.                                                                *)
LEMMA ShutdownFacts ==
  ASSUME RelayType, NEW e \in {"nil", "proto", "read", "write"}, Shutdown(e)
  PROVE  /\ RelayType' /\ r.once = "new" /\ r'.once = "conn" /\ r'.done /\ r'.err = e
         /\ r'.open = r.open /\ r'.writeMu = r.writeMu /\ r'.conns = r.conns
<1>1. ToClose \in SUBSET Conns
  BY DEF ToClose
<1>2. r' = [r EXCEPT !.once = "conn", !.err = e, !.done = TRUE, !.todo = ToClose]
      /\ r.once = "new"
  BY DEF Shutdown
<1> QED
  BY <1>1, <1>2 DEF RelayType

(* Guest connections that are open may be closed; nothing else changes that *)
(* the other goroutines see.                                                *)
OnlyCloses ==
  \A c \in Conns : /\ cc'[c].guest \in {cc[c].guest, "closed"}
                   /\ cc'[c].guest # cc[c].guest => cc[c].guest = "open"
                   /\ cc'[c].sent = cc[c].sent
                   /\ cc'[c].outbound = cc[c].outbound

(* Steps that run shutdown's body.                                          *)
LEMMA ShutdownStepFacts ==
  ASSUME TypeInv, ShutdownStep
  PROVE  /\ TypeInv' /\ UNCHANGED <<env, pc, sv>>
         /\ r.once # "new" /\ r'.once # "new" /\ r'.done = r.done /\ r'.err = r.err
         /\ r'.writeMu = r.writeMu /\ r'.conns = r.conns
         /\ OnlyCloses
<1>1. RelayType /\ CarriedType
  BY DEF TypeInv
<1>2. UNCHANGED <<env, pc, sv>>
  BY DEF ShutdownStep
<1>3. /\ RelayType' /\ r.once # "new" /\ r'.once # "new" /\ r'.done = r.done /\ r'.err = r.err
      /\ r'.writeMu = r.writeMu /\ r'.conns = r.conns
  <2>1. CASE r.once = "conn" /\ r' = [r EXCEPT !.once = "carried", !.open = FALSE]
    BY <2>1, <1>1 DEF RelayType
  <2>2. CASE r.once = "carried" /\ r' = [r EXCEPT !.once = "done"]
    BY <2>2, <1>1 DEF RelayType
  <2>3. CASE r.once = "carried" /\ \E c \in r.todo : r' = [r EXCEPT !.todo = @ \ {c}]
    BY <2>3, <1>1 DEF RelayType
  <2> QED
    BY <2>1, <2>2, <2>3 DEF ShutdownStep
<1>4. CarriedType' /\ OnlyCloses
  <2>1. CASE UNCHANGED cc
    BY <2>1, <1>1 DEF CarriedType, OnlyCloses
  <2>2. ASSUME NEW c \in Conns, cc' = [cc EXCEPT ![c] = GuestClosed(Cancelled(@))]
        PROVE  CarriedType' /\ OnlyCloses
    <3> DEFINE x == GuestClosed(Cancelled(cc[c]))
    <3>1. cc[c] \in Carried
      BY <1>1 DEF CarriedType
    <3>2. /\ x \in Carried /\ x.guest = IF cc[c].guest = "open" THEN "closed" ELSE cc[c].guest
          /\ x.outbound = cc[c].outbound /\ x.sent = cc[c].sent
      BY <3>1, CarriedFacts, SMT
    <3>3. cc' = [cc EXCEPT ![c] = x]
      BY <2>2, <1>1 DEF CarriedType
    <3> HIDE DEF x
    <3>4. CarriedType' /\ cc'[c] = x /\ \A d \in Conns \ {c} : cc'[d] = cc[d]
      BY <3>2, <3>3, <1>1, CarriedStep
    <3> QED
      BY <3>2, <3>4 DEF OnlyCloses
  <2>3. ASSUME NEW c \in r.todo PROVE c \in Conns
    BY <1>1 DEF RelayType
  <2> QED
    BY <2>1, <2>2, <2>3 DEF ShutdownStep
<1>5. LinkType'
  BY <1>2, <1>3 DEF TypeInv, LinkType
<1> QED
  BY <1>2, <1>3, <1>4, <1>5, TypeKept DEF TypeInv


-----------------------------------------------------------------------------
(* A label that the goroutine has.                                          *)
Fits(p, l) ==
  /\ p = Serve => l \in ServeLabels
  /\ p = Closer => l \in {"idle", "sd", "join", "done"}
  /\ p = Monitor => l \in {"off", "run", "sd", "done"}
  /\ \A c \in Conns : /\ p = Worker(c) => l \in WorkerLabels
                      /\ p = Reader(c) => l \in ReaderLabels

(* One goroutine moves to a label of its own.                               *)
LEMMA PcMove ==
  ASSUME PcType, NEW p \in Procs, NEW l \in Labels, Goto(p, l), Fits(p, l)
  PROVE  PcType' /\ pc'[p] = l /\ \A q \in Procs \ {p} : pc'[q] = pc[q]
<1>1. /\ pc' \in [Procs -> Labels] /\ pc'[p] = l
      /\ \A q \in Procs \ {p} : pc'[q] = pc[q]
  BY GotoFacts DEF PcType
<1>2. \A c \in Conns : pc'[Worker(c)] \in WorkerLabels /\ pc'[Reader(c)] \in ReaderLabels
  BY <1>1, ProcFacts DEF PcType, Fits
<1>3. /\ pc'[Serve] \in ServeLabels /\ pc'[Closer] \in {"idle", "sd", "join", "done"}
      /\ pc'[Monitor] \in {"off", "run", "sd", "done"}
  BY <1>1, ProcFacts DEF PcType, Fits
<1> QED
  BY <1>1, <1>2, <1>3 DEF PcType

(* A write takes a goroutine to labels it has.                              *)
LEMMA WriteTargets ==
  ASSUME PcType, NEW p \in Procs, pc[p] \in WriteLabels
  PROVE  /\ WriteCall[pc[p]].ok \in Labels /\ Fits(p, WriteCall[pc[p]].ok)
         /\ WriteCall[pc[p]].err \in Labels /\ Fits(p, WriteCall[pc[p]].err)
         /\ WriteCall[pc[p]].kind \in RelayKinds
<1>1. /\ WriteCall[pc[p]].ok \in Labels /\ WriteCall[pc[p]].err \in Labels
      /\ WriteCall[pc[p]].kind \in RelayKinds
  BY WriteFacts, SMT DEF WriteLabels, Labels, ServeLabels, WorkerLabels, ReaderLabels, RelayKinds
<1>2. ASSUME p = Serve
      PROVE  WriteCall[pc[p]].ok \in ServeLabels /\ WriteCall[pc[p]].err \in ServeLabels
  BY <1>2, WriteFacts, SMT DEF PcType, WriteLabels, ServeLabels
<1>3. p # Closer /\ p # Monitor
  BY DEF PcType, WriteLabels
<1>4. ASSUME NEW c \in Conns, p = Worker(c)
      PROVE  WriteCall[pc[p]].ok \in WorkerLabels /\ WriteCall[pc[p]].err \in WorkerLabels
  <2>1. pc[p] \in {"refused", "dialok", "retire"}
    BY <1>4 DEF PcType, WriteLabels, WorkerLabels
  <2> QED
    BY <2>1, WriteFacts DEF WorkerLabels
<1>5. ASSUME NEW c \in Conns, p = Reader(c)
      PROVE  WriteCall[pc[p]].ok \in ReaderLabels /\ WriteCall[pc[p]].err \in ReaderLabels
  <2>1. pc[p] \in {"data", "closewrite"}
    BY <1>5 DEF PcType, WriteLabels, ReaderLabels
  <2> QED
    BY <2>1, WriteFacts DEF ReaderLabels
<1> QED
  BY <1>1, <1>2, <1>3, <1>4, <1>5 DEF Fits

(* The goroutines that write, and where.                                    *)
WriterAt(p, c) ==
  \/ p = Serve /\ c = sv.c /\ pc[Serve] \in {"refuse", "refclose"}
  \/ p = Worker(c) /\ pc[Worker(c)] \in {"refused", "dialok", "retire"}
  \/ p = Reader(c) /\ pc[Reader(c)] \in {"data", "closewrite"}

(* Who writes: Serve for the connection it refuses, or a pump for its own.  *)
LEMMA WriterCases ==
  ASSUME TypeInv, NEW p \in Procs, pc[p] \in WriteLabels
  PROVE  Owner(p) \in Conns /\ WriterAt(p, Owner(p))
<1>1. PcType /\ LinkType
  BY DEF TypeInv
<1>2. CASE p = Serve
  <2>1. pc[Serve] \in {"refuse", "refclose"}
    BY <1>1, <1>2 DEF PcType, WriteLabels, ServeLabels
  <2>2. sv.c \in Conns
    BY <1>1, <2>1 DEF LinkType
  <2> QED
    BY <1>2, <2>1, <2>2 DEF Owner, WriterAt
<1>3. p # Closer /\ p # Monitor
  BY <1>1 DEF PcType, WriteLabels
<1>4. ASSUME NEW c \in Conns, p = Worker(c) PROVE Owner(p) \in Conns /\ WriterAt(p, Owner(p))
  <2>1. pc[Worker(c)] \in {"refused", "dialok", "retire"}
    BY <1>1, <1>4 DEF PcType, WriteLabels, WorkerLabels
  <2> QED
    BY <2>1, <1>4, OwnerFacts DEF WriterAt
<1>5. ASSUME NEW c \in Conns, p = Reader(c) PROVE Owner(p) \in Conns /\ WriterAt(p, Owner(p))
  <2>1. pc[Reader(c)] \in {"data", "closewrite"}
    BY <1>1, <1>5 DEF PcType, WriteLabels, ReaderLabels
  <2> QED
    BY <2>1, <1>5, OwnerFacts DEF WriterAt
<1> QED
  BY <1>2, <1>3, <1>4, <1>5 DEF Procs

(* A move of a goroutine that leaves Serve's locals alone and at most lets  *)
(* go of writeMu.                                                           *)
LEMMA LinkMove ==
  ASSUME TypeInv, NEW p \in Procs, NEW l \in Labels, pc[p] \in WriteLabels,
         pc'[p] = l, p # Serve => pc'[Serve] = pc[Serve],
         p = Serve => l \notin {"enqueue", "closeguest"},
         sv' = sv, r'.writeMu = NoProc
  PROVE  LinkType'
<1>1. LinkType /\ PcType
  BY DEF TypeInv
<1>2. CASE p = Serve
  <2>1. pc[Serve] \in {"refuse", "refclose"}
    BY <1>1, <1>2 DEF PcType, WriteLabels, ServeLabels
  <2> QED
    BY <1>1, <1>2, <2>1 DEF LinkType
<1>3. CASE p # Serve
  <2>1. pc'[Serve] = pc[Serve]
    BY <1>3
  <2> QED
    BY <1>1, <2>1 DEF LinkType
<1> QED
  BY <1>2, <1>3


(* The three steps of a write.                                              *)
Kept(x) == [open |-> x.open, done |-> x.done, err |-> x.err, once |-> x.once]

LockSkips(p) ==
  /\ r.done \/ (pc[p] = "retire" /\ ~Mine(p))
  /\ r'.writeMu = NoProc /\ Goto(p, WriteCall[pc[p]].err)

LockTakes(p) ==
  /\ ~r.done /\ (pc[p] = "retire" => Mine(p))
  /\ r'.writeMu = p /\ UNCHANGED pc

(* writeLocked up to its look at done: the lock is taken, or the write is   *)
(* given up; retire has deleted the ID by then.                             *)
LEMMA LockFacts ==
  ASSUME TypeInv, NEW p \in Procs, WriteLock(p)
  PROVE  /\ RelayType' /\ UNCHANGED <<env, sv, cc>> /\ Kept(r') = Kept(r)
         /\ pc[p] \in WriteLabels /\ r.writeMu = NoProc /\ r'.conns = ConnsAtWrite(p)
         /\ LockSkips(p) \/ LockTakes(p)
<1>1. RelayType
  BY DEF TypeInv
<1>2. ConnsAtWrite(p) \in [Ids -> 0 .. MaxGen]
  <2>1. r.conns \in [Ids -> 0 .. MaxGen] /\ 0 \in 0 .. MaxGen
    BY <1>1, MaxGenFacts, SMT DEF RelayType
  <2>2. \A x : [r.conns EXCEPT ![x] = 0] \in [Ids -> 0 .. MaxGen]
    BY <2>1
  <2> QED
    BY <2>1, <2>2 DEF ConnsAtWrite
<1>3. UNCHANGED <<env, sv, cc>> /\ pc[p] \in WriteLabels /\ r.writeMu = NoProc
  BY WriteFacts DEF WriteLock
<1>4. CASE r.done \/ (pc[p] = "retire" /\ ~Mine(p))
  <2>1. r' = [r EXCEPT !.conns = ConnsAtWrite(p)] /\ Goto(p, WriteCall[pc[p]].err)
    BY <1>4 DEF WriteLock
  <2>2. /\ RelayType' /\ Kept(r') = Kept(r) /\ r'.writeMu = NoProc
        /\ r'.conns = ConnsAtWrite(p)
    BY <2>1, <1>1, <1>2, <1>3 DEF RelayType, Kept
  <2> QED
    BY <2>1, <2>2, <1>3, <1>4 DEF LockSkips
<1>5. CASE ~r.done /\ ~(pc[p] = "retire" /\ ~Mine(p))
  <2>1. r' = [r EXCEPT !.conns = ConnsAtWrite(p), !.writeMu = p] /\ UNCHANGED pc
    BY <1>5 DEF WriteLock
  <2>2. /\ RelayType' /\ Kept(r') = Kept(r) /\ r'.writeMu = p
        /\ r'.conns = ConnsAtWrite(p)
    BY <2>1, <1>1, <1>2, <1>3 DEF RelayType, Kept
  <2> QED
    BY <2>1, <2>2, <1>3, <1>5 DEF LockTakes
<1> QED
  BY <1>4, <1>5

(* Where a sender goes; a dial worker that reported success starts the      *)
(* guest reader.                                                            *)
Sent(p) ==
  /\ pc'[p] = WriteCall[pc[p]].ok
  /\ pc[p] = "dialok" => pc'[Reader(Owner(p))] = "read"
  /\ \A q \in Procs : q # p /\ ~(pc[p] = "dialok" /\ q = Reader(Owner(p))) => pc'[q] = pc[q]

(* conn.Write succeeds: one frame is appended and writeMu is free.          *)
LEMMA SendFacts ==
  ASSUME TypeInv, NEW p \in Procs, WriteConn(p)
  PROVE  /\ RelayType' /\ PcType' /\ UNCHANGED <<plan, host, hc, view, rcvd, toRelay, sv, cc>>
         /\ Kept(r') = Kept(r) /\ r'.conns = r.conns /\ r'.writeMu = NoProc /\ r.writeMu = p
         /\ pc[p] \in WriteLabels /\ toHost' = Append(toHost, WriteFrame(p)) /\ Sent(p)
<1>1. RelayType /\ PcType /\ LinkType
  BY DEF TypeInv
<1>2. r.writeMu = p /\ p # NoProc
  BY ProcFacts DEF WriteConn
<1>3. pc[p] \in WriteLabels
  BY <1>1, <1>2, WriteFacts DEF LinkType
<1>4. r' = [r EXCEPT !.writeMu = NoProc]
  BY DEF WriteConn
<1>5. RelayType' /\ Kept(r') = Kept(r) /\ r'.conns = r.conns /\ r'.writeMu = NoProc
  BY <1>1, <1>4 DEF RelayType, Kept
<1>6. PcType' /\ Sent(p)
  <2>1. CASE pc[p] # "dialok"
    <3>1. Goto(p, WriteCall[pc[p]].ok)
      BY <2>1 DEF WriteConn, Goto
    <3> QED
      BY <3>1, <2>1, <1>1, <1>3, WriteTargets, PcMove DEF Sent
  <2>2. CASE pc[p] = "dialok"
    <3>1. Owner(p) \in Conns /\ p = Worker(Owner(p))
      <4>1. Owner(p) \in Conns /\ WriterAt(p, Owner(p))
        BY <1>3, WriterCases
      <4> QED
        BY <4>1, <2>2 DEF WriterAt
    <3> DEFINE q == Reader(Owner(p))
    <3>2. q \in Procs /\ q # p /\ \A c \in Conns : q = Reader(c) => c = Owner(p)
      BY <3>1, ProcFacts
    <3>3. pc' = [pc EXCEPT ![p] = "loop", ![q] = "read"]
      BY <2>2 DEF WriteConn
    <3>4. pc \in [Procs -> Labels] /\ "loop" \in Labels /\ "read" \in Labels
      BY <1>1 DEF PcType, Labels, WorkerLabels, ReaderLabels
    <3> HIDE DEF q
    <3>5. /\ pc' \in [Procs -> Labels] /\ pc'[p] = "loop" /\ pc'[q] = "read"
          /\ \A s \in Procs \ {p, q} : pc'[s] = pc[s]
      BY <3>2, <3>3, <3>4
    <3>6. Sent(p)
      BY <3>5, <2>2, WriteFacts DEF Sent, q
    <3>7. /\ pc'[Serve] = pc[Serve] /\ pc'[Closer] = pc[Closer] /\ pc'[Monitor] = pc[Monitor]
      BY <3>5, <3>1, ProcFacts DEF q
    <3>8. \A c \in Conns : pc'[Worker(c)] \in WorkerLabels /\ pc'[Reader(c)] \in ReaderLabels
      <4> TAKE c \in Conns
      <4>1. Worker(c) \in Procs /\ Reader(c) \in Procs /\ Worker(c) # q /\ Reader(c) # p
        BY <3>1, ProcFacts DEF q
      <4> QED
        BY <4>1, <3>5, <1>1 DEF PcType, WorkerLabels, ReaderLabels
    <3> QED
      BY <3>5, <3>6, <3>7, <3>8, <1>1 DEF PcType
  <2> QED
    BY <2>1, <2>2
<1> QED
  BY <1>2, <1>3, <1>5, <1>6 DEF WriteConn

(* conn.Write fails: writeLocked calls shutdown, and returns when it has    *)
(* run.                                                                     *)
LEMMA ErrorFacts ==
  ASSUME TypeInv, NEW p \in Procs, WriteError(p)
  PROVE  /\ RelayType' /\ UNCHANGED <<env, sv, cc>> /\ pc[p] \in WriteLabels
         /\ r.writeMu = p /\ r'.conns = r.conns /\ ~(r.open /\ host.up)
         /\ \/ r.once = "new" /\ Shutdown("write") /\ UNCHANGED pc /\ r'.writeMu = p
            \/ /\ r.once = "done" /\ Kept(r') = Kept(r) /\ r'.writeMu = NoProc
               /\ Goto(p, WriteCall[pc[p]].err)
<1>1. RelayType /\ PcType /\ LinkType
  BY DEF TypeInv
<1>2. r.writeMu = p /\ p # NoProc
  BY ProcFacts DEF WriteError
<1>3. pc[p] \in WriteLabels
  BY <1>1, <1>2, WriteFacts DEF LinkType
<1>4. CASE Shutdown("write") /\ UNCHANGED pc
  <2>1. r.once = "new" /\ RelayType' /\ r'.conns = r.conns /\ r'.writeMu = r.writeMu
    BY <1>1, <1>4, ShutdownFacts
  <2> QED
    BY <2>1, <1>2, <1>3, <1>4 DEF WriteError
<1>5. CASE r.once = "done" /\ r' = [r EXCEPT !.writeMu = NoProc] /\ Goto(p, WriteCall[pc[p]].err)
  <2>1. RelayType' /\ Kept(r') = Kept(r) /\ r'.conns = r.conns /\ r'.writeMu = NoProc
    BY <1>1, <1>5 DEF RelayType, Kept
  <2> QED
    BY <2>1, <1>2, <1>3, <1>5 DEF WriteError
<1> QED
  BY <1>4, <1>5 DEF WriteError

(* What is written is a frame of the writer's connection.                   *)
LEMMA WriteFrameType ==
  ASSUME TypeInv, NEW p \in Procs, pc[p] \in WriteLabels
  PROVE  /\ WriteFrame(p) \in RelayFrames
         /\ WriteFrame(p).kind = WriteCall[pc[p]].kind /\ WriteFrame(p).id = Id(Owner(p))
         /\ p # Serve => WriteFrame(p).n = cc[Owner(p)].sent
<1> DEFINE c == Owner(p)
           k == WriteCall[pc[p]].kind
           n == IF p = Serve THEN 0 ELSE cc[c].sent
<1>1. c \in Conns /\ k \in RelayKinds
  BY WriterCases, WriteTargets DEF TypeInv
<1>2. n \in Nat
  BY <1>1 DEF TypeInv, CarriedType, Carried
<1>3. Id(c) \in Ids /\ Gen(c) \in 1 .. MaxGen /\ c[1] = Id(c) /\ c[2] = Gen(c)
  BY <1>1, OwnerFacts DEF Id, Gen
<1>4. WriteFrame(p) = [kind |-> k, id |-> Id(c), gen |-> Gen(c), n |-> n]
  BY <1>3 DEF WriteFrame, Frame
<1>5. n = IF p = Serve THEN 0 ELSE cc[c].sent
  OBVIOUS
<1> HIDE DEF c, k, n
<1> QED
  BY <1>1, <1>2, <1>3, <1>4, <1>5, SMT DEF RelayFrames, c, k

(* The steps of a write preserve the types.                                 *)
LEMMA TypeWrite ==
  ASSUME TypeInv, NEW p \in Procs, Write(p)
  PROVE  TypeInv'
<1>1. RelayType /\ PcType /\ LinkType /\ EnvType
  BY DEF TypeInv
<1>2. ASSUME pc[p] \in WriteLabels PROVE p = Serve => WriteCall[pc[p]].ok \notin {"enqueue", "closeguest"} /\ WriteCall[pc[p]].err \notin {"enqueue", "closeguest"}
  BY <1>2, WriteFacts DEF WriteLabels
<1>3. ASSUME Goto(p, WriteCall[pc[p]].err), pc[p] \in WriteLabels, sv' = sv, r'.writeMu = NoProc
      PROVE  PcType' /\ LinkType'
  <2>1. /\ PcType' /\ pc'[p] = WriteCall[pc[p]].err
        /\ \A q \in Procs \ {p} : pc'[q] = pc[q]
    BY <1>1, <1>3, WriteTargets, PcMove
  <2> QED
    BY <2>1, <1>1, <1>2, <1>3, LinkMove, WriteTargets, ProcFacts
<1>4. CASE WriteLock(p)
  <2>1. /\ RelayType' /\ UNCHANGED <<env, sv, cc>> /\ pc[p] \in WriteLabels
        /\ LockSkips(p) \/ LockTakes(p)
    BY <1>4, LockFacts
  <2>2. CASE LockSkips(p)
    BY <2>1, <2>2, <1>3, TypeKept DEF TypeInv, LockSkips
  <2>3. CASE LockTakes(p)
    <3>1. LinkType'
      BY <2>1, <2>3, <1>1, WriteFacts DEF LinkType, LockTakes
    <3> QED
      BY <2>1, <2>3, <3>1, TypeKept DEF TypeInv, LockTakes
  <2> QED
    BY <2>1, <2>2, <2>3
<1>5. CASE WriteConn(p)
  <2>1. /\ RelayType' /\ PcType' /\ UNCHANGED <<plan, host, hc, view, rcvd, toRelay, sv, cc>>
        /\ r'.writeMu = NoProc /\ pc[p] \in WriteLabels
        /\ toHost' = Append(toHost, WriteFrame(p)) /\ Sent(p)
    BY <1>5, SendFacts
  <2>2. WriteFrame(p) \in RelayFrames
    BY <2>1, WriteFrameType
  <2>3. EnvType'
    BY <2>1, <2>2, <1>1, SMT DEF EnvType
  <2>4. p # Serve => pc'[Serve] = pc[Serve]
    <3>1. Owner(p) \in Conns
      BY <2>1, WriterCases
    <3> QED
      BY <2>1, <3>1, ProcFacts DEF Sent
  <2>5. LinkType'
    BY <2>1, <2>4, <1>1, <1>2, LinkMove, WriteTargets DEF Sent
  <2> QED
    BY <2>1, <2>3, <2>5, TypeKept DEF TypeInv
<1>6. CASE WriteError(p)
  <2>1. /\ RelayType' /\ UNCHANGED <<env, sv, cc>> /\ pc[p] \in WriteLabels /\ r.writeMu = p
        /\ \/ UNCHANGED pc /\ r'.writeMu = p
           \/ r'.writeMu = NoProc /\ Goto(p, WriteCall[pc[p]].err)
    BY <1>6, ErrorFacts
  <2>2. CASE UNCHANGED pc /\ r'.writeMu = p
    <3>1. LinkType'
      BY <2>1, <2>2, <1>1, WriteFacts DEF LinkType
    <3> QED
      BY <2>1, <2>2, <3>1, TypeKept DEF TypeInv
  <2>3. CASE r'.writeMu = NoProc /\ Goto(p, WriteCall[pc[p]].err)
    BY <2>1, <2>3, <1>3, TypeKept DEF TypeInv
  <2> QED
    BY <2>1, <2>2, <2>3
<1> QED
  BY <1>4, <1>5, <1>6 DEF Write


-----------------------------------------------------------------------------
(* The calls of shutdown, the joins, and the steps of Serve, Close and the  *)
(* monitor that do not touch a connection.                                  *)
BossStep ==
  \/ CallShutdown(Serve, sv.err, "join") \/ Join(Serve)
  \/ CallShutdown(Closer, "nil", "join") \/ Join(Closer)
  \/ CallShutdown(Monitor, "nil", "done") \/ MonitorTick
  \/ CloseCall \/ ServeStart \/ ServeReadFail

(* Such a step moves one of the three and preserves the types.              *)
LEMMA TypeBossMove ==
  ASSUME TypeInv, NEW p \in {Serve, Closer, Monitor}, NEW l \in {"sd", "join", "done"},
         pc[p] \notin WriteLabels, Fits(p, l), Goto(p, l), UNCHANGED <<env, r, cc>>, ServeType',
         p # Serve => sv' = sv
  PROVE  /\ TypeInv' /\ pc'[p] = l
         /\ \A q \in {Serve, Closer, Monitor} \ {p} : pc'[q] = pc[q]
         /\ \A c \in Conns : pc'[Worker(c)] = pc[Worker(c)] /\ pc'[Reader(c)] = pc[Reader(c)]
<1>1. p \in Procs /\ l \in Labels
  BY ProcFacts DEF Labels, ServeLabels
<1>2. RelayType /\ PcType /\ LinkType
  BY DEF TypeInv
<1>3. PcType' /\ pc'[p] = l /\ \A q \in Procs \ {p} : pc'[q] = pc[q]
  BY <1>1, <1>2, PcMove
<1>4. r.writeMu # NoProc => r.writeMu # p /\ r.writeMu \in Procs
  BY <1>2, WriteFacts DEF LinkType, RelayType
<1>5. LinkType'
  <2>1. r'.writeMu # NoProc => pc'[r'.writeMu] \in DOMAIN WriteCall
    BY <1>2, <1>3, <1>4 DEF LinkType
  <2>2. pc'[Serve] \notin {"enqueue", "closeguest", "refuse", "refclose"} \/ p # Serve
    BY <1>3
  <2>3. CASE p = Serve
    BY <2>1, <2>2, <2>3 DEF LinkType
  <2>4. CASE p # Serve
    <3>1. pc'[Serve] = pc[Serve]
      BY <2>4, <1>3, ProcFacts
    <3> QED
      BY <2>1, <2>4, <3>1, <1>2 DEF LinkType
  <2> QED
    BY <2>3, <2>4
<1> QED
  BY <1>3, <1>5, TypeKept, ProcFacts DEF TypeInv

(* What such a step does to Serve, Close and the relay.                     *)
ServeMoves ==
  \/ pc'[Serve] = pc[Serve] /\ sv' = sv
  \/ pc[Serve] = "sd" /\ pc'[Serve] = "join" /\ r.once = "done" /\ sv' = sv
  \/ pc[Serve] = "join" /\ pc'[Serve] = "done" /\ WorkersDone /\ sv' = sv
  \/ pc[Serve] = "idle" /\ pc'[Serve] = "done" /\ r.done /\ sv' = sv
  \/ pc[Serve] = "idle" /\ pc'[Serve] = "read" /\ ~r.done /\ sv' = sv
  \/ /\ pc[Serve] = "read" /\ pc'[Serve] = "sd" /\ (r.open => ~host.up)
     /\ sv'.c = sv.c /\ sv'.err = (IF r.done \/ toHost = <<>> THEN "nil" ELSE "read")

CloserMoves ==
  \/ pc'[Closer] = pc[Closer]
  \/ pc[Closer] = "idle" /\ pc'[Closer] = "sd"
  \/ pc[Closer] = "sd" /\ pc'[Closer] = "join" /\ r.once = "done"
  \/ pc[Closer] = "join" /\ pc'[Closer] = "done" /\ WorkersDone

RelayMoves == UNCHANGED r \/ \E e \in {"nil", sv.err} : Shutdown(e)

PumpsStay ==
  \A c \in Conns : pc'[Worker(c)] = pc[Worker(c)] /\ pc'[Reader(c)] = pc[Reader(c)]

(* What these steps do.                                                     *)
LEMMA BossFacts ==
  ASSUME TypeInv, BossStep
  PROVE  /\ TypeInv' /\ UNCHANGED <<env, cc>> /\ PumpsStay
         /\ ServeMoves /\ CloserMoves /\ RelayMoves
<1>1. PcType /\ ServeType /\ RelayType /\ LinkType
  BY DEF TypeInv
<1>2. ASSUME NEW e \in {"nil", sv.err}, Shutdown(e), UNCHANGED <<env, pc, sv, cc>>
      PROVE  /\ TypeInv' /\ UNCHANGED <<env, cc>> /\ PumpsStay
             /\ ServeMoves /\ CloserMoves /\ RelayMoves
  <2>1. e \in {"nil", "proto", "read", "write"}
    BY <1>1, <1>2 DEF ServeType
  <2>2. RelayType' /\ r'.writeMu = r.writeMu
    BY <1>1, <1>2, <2>1, ShutdownFacts
  <2>3. LinkType'
    BY <1>1, <1>2, <2>2 DEF LinkType
  <2>4. TypeInv'
    BY <1>2, <2>2, <2>3, TypeKept DEF TypeInv
  <2> QED
    BY <1>2, <2>4 DEF PumpsStay, ServeMoves, CloserMoves, RelayMoves
<1>3. CASE \E e \in {"nil", sv.err} : Shutdown(e) /\ UNCHANGED <<env, pc, sv, cc>>
  BY <1>2, <1>3
<1>4. CASE /\ pc[Serve] = "sd" /\ r.once = "done" /\ Goto(Serve, "join")
           /\ UNCHANGED <<env, sv, r, cc>>
  <2>1. Fits(Serve, "join") /\ pc[Serve] \notin WriteLabels
    BY <1>4, ProcFacts DEF Fits, ServeLabels, WriteLabels
  <2>2. /\ TypeInv' /\ pc'[Serve] = "join" /\ pc'[Closer] = pc[Closer] /\ PumpsStay
    BY <2>1, <1>1, <1>4, TypeBossMove, TypeKept, ProcFacts DEF PumpsStay
  <2> QED
    BY <2>2, <1>4 DEF ServeMoves, CloserMoves, RelayMoves
<1>5. CASE Join(Serve)
  <2>1. Fits(Serve, "done") /\ pc[Serve] \notin WriteLabels
    BY <1>5, ProcFacts DEF Fits, ServeLabels, WriteLabels, Join
  <2>2. /\ TypeInv' /\ pc'[Serve] = "done" /\ pc'[Closer] = pc[Closer] /\ PumpsStay
    BY <2>1, <1>1, <1>5, TypeBossMove, TypeKept, ProcFacts DEF PumpsStay, Join
  <2> QED
    BY <2>2, <1>5 DEF ServeMoves, CloserMoves, RelayMoves, Join
<1>6. ASSUME NEW l \in {"sd", "join", "done"}, Goto(Closer, l), pc[Closer] \in {"idle", "sd", "join"},
             UNCHANGED <<env, sv, r, cc>>
      PROVE  TypeInv' /\ pc'[Closer] = l /\ pc'[Serve] = pc[Serve] /\ PumpsStay
  <2>1. Fits(Closer, l) /\ pc[Closer] \notin WriteLabels
    BY <1>6, ProcFacts DEF Fits, WriteLabels
  <2> QED
    BY <2>1, <1>1, <1>6, TypeBossMove, TypeKept, ProcFacts DEF PumpsStay
<1>7. CASE /\ pc[Closer] = "sd" /\ r.once = "done" /\ Goto(Closer, "join")
           /\ UNCHANGED <<env, sv, r, cc>>
  BY <1>6, <1>7 DEF ServeMoves, CloserMoves, RelayMoves
<1>8. CASE Join(Closer)
  BY <1>6, <1>8 DEF ServeMoves, CloserMoves, RelayMoves, Join
<1>9. CASE CloseCall
  BY <1>6, <1>9 DEF ServeMoves, CloserMoves, RelayMoves, CloseCall
<1>10. ASSUME NEW l \in {"sd", "done"}, Goto(Monitor, l), pc[Monitor] \in {"run", "sd"},
              UNCHANGED <<env, sv, r, cc>>
       PROVE  /\ TypeInv' /\ UNCHANGED <<env, cc>> /\ PumpsStay
              /\ ServeMoves /\ CloserMoves /\ RelayMoves
  <2>1. Fits(Monitor, l) /\ pc[Monitor] \notin WriteLabels
    BY <1>10, ProcFacts DEF Fits, WriteLabels
  <2>2. TypeInv' /\ pc'[Closer] = pc[Closer] /\ pc'[Serve] = pc[Serve] /\ PumpsStay
    BY <2>1, <1>1, <1>10, TypeBossMove, TypeKept, ProcFacts DEF PumpsStay
  <2> QED
    BY <2>2, <1>10 DEF ServeMoves, CloserMoves, RelayMoves
<1>11. CASE MonitorTick
  BY <1>10, <1>11 DEF MonitorTick
<1>12. CASE /\ pc[Monitor] = "sd" /\ Goto(Monitor, "done") /\ UNCHANGED <<env, sv, r, cc>>
  BY <1>10, <1>12
<1>13. CASE ServeReadFail
  <2> DEFINE e == IF r.done \/ toHost = <<>> THEN "nil" ELSE "read"
  <2>1. sv' = [sv EXCEPT !.err = e] /\ e \in {"nil", "read"} /\ UNCHANGED <<env, r, cc>>
    BY <1>13 DEF ServeReadFail
  <2>2. ServeType' /\ sv'.c = sv.c /\ sv'.err = e
    <3> HIDE DEF e
    <3> QED
      BY <2>1, <1>1 DEF ServeType
  <2>3. Fits(Serve, "sd") /\ pc[Serve] \notin WriteLabels
    BY <1>13, ProcFacts DEF Fits, ServeLabels, WriteLabels, ServeReadFail
  <2>4. /\ TypeInv' /\ pc'[Serve] = "sd" /\ pc'[Closer] = pc[Closer] /\ PumpsStay
    BY <2>1, <2>2, <2>3, <1>13, TypeBossMove, ProcFacts DEF PumpsStay, ServeReadFail
  <2> QED
    BY <2>1, <2>2, <2>4, <1>13 DEF ServeMoves, CloserMoves, RelayMoves, ServeReadFail
<1>14. CASE ServeStart /\ r.done
  <2>1. Fits(Serve, "done") /\ pc[Serve] \notin WriteLabels
    BY <1>14, ProcFacts DEF Fits, ServeLabels, WriteLabels, ServeStart
  <2>2. /\ TypeInv' /\ pc'[Serve] = "done" /\ pc'[Closer] = pc[Closer] /\ PumpsStay
    BY <2>1, <1>1, <1>14, TypeBossMove, TypeKept, ProcFacts DEF PumpsStay, ServeStart
  <2> QED
    BY <2>2, <1>14 DEF ServeMoves, CloserMoves, RelayMoves, ServeStart
<1>15. CASE ServeStart /\ ~r.done
  <2>1. /\ pc' = [pc EXCEPT ![Serve] = "read", ![Monitor] = "run"] /\ pc[Serve] = "idle"
        /\ UNCHANGED <<env, sv, r, cc>>
    BY <1>15 DEF ServeStart
  <2>2. pc \in [Procs -> Labels] /\ "read" \in Labels /\ "run" \in Labels
    BY <1>1 DEF PcType, Labels, ServeLabels
  <2>3. /\ pc' \in [Procs -> Labels] /\ pc'[Serve] = "read" /\ pc'[Monitor] = "run"
        /\ \A q \in Procs \ {Serve, Monitor} : pc'[q] = pc[q]
    BY <2>1, <2>2, ProcFacts
  <2>4. pc'[Closer] = pc[Closer] /\ PumpsStay
    BY <2>3, ProcFacts DEF PumpsStay
  <2>5. PcType'
    BY <2>3, <2>4, <1>1 DEF PcType, PumpsStay, ServeLabels
  <2>6. r.writeMu # NoProc => r.writeMu \in Procs \ {Serve, Monitor}
    BY <2>1, <1>1, WriteFacts DEF LinkType, RelayType, PcType, WriteLabels
  <2>7. LinkType'
    BY <2>1, <2>3, <2>6, <1>1 DEF LinkType
  <2> QED
    BY <2>1, <2>3, <2>4, <2>5, <2>7, <1>15, TypeKept
       DEF TypeInv, ServeMoves, CloserMoves, RelayMoves
<1>16. QED
  BY <1>3, <1>4, <1>5, <1>7, <1>8, <1>9, <1>11, <1>12, <1>13, <1>14, <1>15
     DEF BossStep, CallShutdown


-----------------------------------------------------------------------------
(* What Serve does with a frame.                                            *)
Fails(f) ==
  /\ f = BadFrame \/ (f \in HostFrames /\ f.kind = "OPEN" /\ ~r.done /\ f.id \in Live)
  /\ ServeType' /\ sv'.err = "proto" /\ sv'.c = sv.c /\ sv'.f = sv.f
  /\ Goto(Serve, "sd") /\ UNCHANGED <<r, cc>>

Refuses(f) ==
  /\ f \in HostFrames /\ f.kind = "OPEN" /\ f.id \notin Live
  /\ ServeType' /\ sv'.c = <<f.id, f.gen>> /\ sv'.err = sv.err
  /\ Goto(Serve, "refuse") /\ UNCHANGED <<r, cc>>

Registers(f) ==
  /\ f \in HostFrames /\ f.kind = "OPEN" /\ f.id \notin Live /\ ~r.done /\ ~AtLimit
  /\ RelayType' /\ r'.conns = [r.conns EXCEPT ![f.id] = f.gen]
  /\ Kept(r') = Kept(r) /\ r'.writeMu = r.writeMu
  /\ Goto(Worker(<<f.id, f.gen>>), "dial") /\ UNCHANGED <<sv, cc>>

Delivers(f) ==
  /\ f \in HostFrames /\ f.id \in Live
  /\ ServeType' /\ sv'.c = <<f.id, r.conns[f.id]>> /\ sv'.f = f /\ sv'.err = sv.err
  /\ \/ Goto(Serve, "enqueue") /\ UNCHANGED cc
     \/ Goto(Serve, "closeguest") /\ cc' = [cc EXCEPT ![sv'.c] = Closing(@)]
  /\ UNCHANGED r

(* An entry of the map names a connection.                                  *)
LEMMA LiveFacts ==
  ASSUME TypeInv, NEW id \in Ids, id \in Live
  PROVE  <<id, r.conns[id]>> \in Conns
<1>1. r.conns[id] \in 1 .. MaxGen
  BY MaxGenFacts, SMT DEF TypeInv, RelayType, Live
<1> QED
  BY <1>1, ConnFacts

(* The frame it reads is the head of the queue, and the others move up.     *)
LEMMA TailFacts ==
  ASSUME NEW S, NEW q \in Seq(S), q # <<>>
  PROVE  /\ Head(q) \in S /\ Head(q) = q[1] /\ 1 \in DOMAIN q /\ Tail(q) \in Seq(S)
         /\ \A i \in DOMAIN Tail(q) : i + 1 \in DOMAIN q /\ i + 1 > 1 /\ Tail(q)[i] = q[i + 1]
         /\ \A i \in DOMAIN q : i # 1 => i - 1 \in DOMAIN Tail(q) /\ q[i] = Tail(q)[i - 1]
  BY SMT

(* serve reads a frame: it fails, refuses, registers, delivers or ignores   *)
(* it.                                                                      *)
LEMMA ReadFacts ==
  ASSUME TypeInv, ServeRead, NEW f, f = Head(toRelay)
  PROVE  /\ UNCHANGED <<plan, host, hc, view, rcvd, toHost>> /\ pc[Serve] = "read"
         /\ toRelay # <<>> /\ toRelay' = Tail(toRelay) /\ EnvType'
         /\ f \in HostFrames \cup {BadFrame}
         /\ \/ UNCHANGED <<pc, sv, r, cc>>
            \/ Fails(f) \/ Refuses(f) \/ Registers(f) \/ Delivers(f)
<1>1. EnvType /\ ServeType /\ RelayType
  BY DEF TypeInv
<1>2. /\ UNCHANGED <<plan, host, hc, view, rcvd, toHost>> /\ pc[Serve] = "read"
      /\ toRelay # <<>> /\ toRelay' = Tail(toRelay)
  BY DEF ServeRead
<1>3. f \in HostFrames \cup {BadFrame} /\ toRelay' \in Seq(HostFrames \cup {BadFrame})
  BY <1>1, <1>2, TailFacts DEF EnvType
<1>4. EnvType'
  BY <1>1, <1>2, <1>3 DEF EnvType
<1>5. f.kind # "BAD" => f \in HostFrames
  BY <1>3, SMT DEF BadFrame
<1>6. f \in HostFrames => f.kind # "BAD" /\ f.id \in Ids /\ f.gen \in 1 .. MaxGen
  BY DEF HostFrames, HostKinds
<1>7. ASSUME ProtocolError PROVE ServeType' /\ sv'.err = "proto" /\ sv'.c = sv.c /\ sv'.f = sv.f
  BY <1>1, <1>7 DEF ProtocolError, ServeType
<1>8. ASSUME NEW c \in Conns, NEW l, f \in HostFrames, Dispatching(c, f, l)
      PROVE  ServeType' /\ sv'.c = c /\ sv'.f = f /\ sv'.err = sv.err /\ Goto(Serve, l)
  BY <1>1, <1>8 DEF Dispatching, ServeType
<1>9. CASE DispatchOpen(f)
  <2>1. f \in HostFrames /\ f.kind = "OPEN" /\ UNCHANGED cc
    BY <1>9, <1>5 DEF DispatchOpen
  <2>2. CASE UNCHANGED <<pc, sv, r>>
    BY <2>1, <2>2, <1>2, <1>3, <1>4
  <2>3. CASE ~r.done /\ f.id \in Live /\ ProtocolError /\ UNCHANGED r
    <3>1. Fails(f)
      BY <2>1, <2>3, <1>7 DEF Fails, ProtocolError
    <3> QED
      BY <3>1, <1>2, <1>3, <1>4
  <2>4. CASE f.id \notin Live /\ Dispatching(<<f.id, f.gen>>, f, "refuse") /\ UNCHANGED r
    <3>1. <<f.id, f.gen>> \in Conns
      BY <2>1, <1>6, ConnFacts
    <3>2. Refuses(f)
      BY <2>1, <2>4, <3>1, <1>8 DEF Refuses
    <3> QED
      BY <3>2, <1>2, <1>3, <1>4
  <2>5. CASE /\ ~r.done /\ f.id \notin Live /\ ~AtLimit /\ UNCHANGED sv
             /\ r' = [r EXCEPT !.conns[f.id] = f.gen]
             /\ Goto(Worker(<<f.id, f.gen>>), "dial")
    <3> DEFINE m == [r.conns EXCEPT ![f.id] = f.gen]
    <3>a. m \in [Ids -> 0 .. MaxGen] /\ r' = [r EXCEPT !.conns = m]
      BY <2>1, <2>5, <1>1, <1>6, MaxGenFacts, SMT DEF RelayType
    <3> HIDE DEF m
    <3>b. RelayType' /\ r'.conns = m /\ Kept(r') = Kept(r) /\ r'.writeMu = r.writeMu
      BY <3>a, <1>1 DEF RelayType, Kept
    <3>1. /\ RelayType' /\ r'.conns = [r.conns EXCEPT ![f.id] = f.gen]
          /\ Kept(r') = Kept(r) /\ r'.writeMu = r.writeMu
      BY <3>b DEF m
    <3>2. Registers(f)
      BY <2>1, <2>5, <3>1 DEF Registers
    <3> QED
      BY <3>2, <1>2, <1>3, <1>4
  <2> QED
    BY <2>2, <2>3, <2>4, <2>5, <1>9 DEF DispatchOpen
<1>10. CASE DispatchFrame(f)
  <2> DEFINE c == <<f.id, r.conns[f.id]>>
  <2>1. f \in HostFrames /\ UNCHANGED r
    BY <1>10, <1>5 DEF DispatchFrame
  <2>2. CASE UNCHANGED <<pc, sv, cc>>
    BY <2>1, <2>2, <1>2, <1>3, <1>4
  <2>3. CASE f.id \in Live /\ cc' = [cc EXCEPT ![c] = Closing(@)] /\ Dispatching(c, f, "closeguest")
    <3>1. ServeType' /\ sv'.c = c /\ sv'.f = f /\ sv'.err = sv.err /\ Goto(Serve, "closeguest")
      BY <2>1, <2>3, <1>6, <1>8, LiveFacts
    <3>2. Delivers(f)
      BY <2>1, <2>3, <3>1 DEF Delivers
    <3> QED
      BY <3>2, <1>2, <1>3, <1>4
  <2>4. CASE f.id \in Live /\ Dispatching(c, f, "enqueue") /\ UNCHANGED cc
    <3>1. ServeType' /\ sv'.c = c /\ sv'.f = f /\ sv'.err = sv.err /\ Goto(Serve, "enqueue")
      BY <2>1, <2>4, <1>6, <1>8, LiveFacts
    <3>2. Delivers(f)
      BY <2>1, <2>4, <3>1 DEF Delivers
    <3> QED
      BY <3>2, <1>2, <1>3, <1>4
  <2> QED
    BY <2>2, <2>3, <2>4, <1>10 DEF DispatchFrame
<1>11. CASE f.kind = "BAD" /\ ProtocolError /\ UNCHANGED <<r, cc>>
  <2>1. f = BadFrame
    BY <1>3, <1>6, <1>11
  <2>2. Fails(f)
    BY <2>1, <1>7, <1>11 DEF Fails, ProtocolError
  <2> QED
    BY <2>2, <1>2, <1>3, <1>4
<1> QED
  BY <1>9, <1>10, <1>11 DEF ServeRead


(* A move of Serve from "read" or out of a delivery.                        *)
LEMMA TypeServeMove ==
  ASSUME TypeInv, NEW l \in ServeLabels, pc[Serve] \notin WriteLabels, Goto(Serve, l),
         r' = r, EnvType', ServeType', CarriedType',
         l \in {"enqueue", "closeguest", "refuse", "refclose"} => sv'.c \in Conns,
         l = "enqueue" => sv'.f \in HostFrames
  PROVE  TypeInv' /\ pc'[Serve] = l /\ pc'[Closer] = pc[Closer] /\ PumpsStay
<1>1. Serve \in Procs /\ l \in Labels /\ Fits(Serve, l)
  BY ProcFacts DEF Labels, Fits
<1>2. RelayType /\ PcType /\ LinkType
  BY DEF TypeInv
<1>3. PcType' /\ pc'[Serve] = l /\ \A q \in Procs \ {Serve} : pc'[q] = pc[q]
  BY <1>1, <1>2, PcMove
<1>4. r.writeMu # NoProc => r.writeMu # Serve /\ r.writeMu \in Procs
  BY <1>2, WriteFacts DEF LinkType, RelayType
<1>5. LinkType'
  BY <1>2, <1>3, <1>4 DEF LinkType
<1> QED
  BY <1>2, <1>3, <1>5, TypeKept, ProcFacts DEF TypeInv, PumpsStay

(* A delivery: the guest connection is closed or a frame queued.            *)
Delivered ==
  /\ pc[Serve] \in {"closeguest", "enqueue"} /\ pc'[Serve] = "read" /\ sv'.err = sv.err
  /\ UNCHANGED <<env, r>> /\ PumpsStay /\ pc'[Closer] = pc[Closer]
  /\ \A c \in Conns : /\ cc'[c].guest \in {cc[c].guest, "closed"}
                      /\ cc'[c].guest # cc[c].guest => cc[c].guest = "open"
                      /\ cc'[c].sent = cc[c].sent
                      /\ \/ cc'[c].outbound = cc[c].outbound
                         \/ /\ Len(cc[c].outbound) < QueueDepth
                            /\ Len(cc'[c].outbound) = Len(cc[c].outbound) + 1

(* What the end of dispatch does, and that it preserves the types.          *)
LEMMA DeliverFacts ==
  ASSUME TypeInv, ServeDeliver
  PROVE  TypeInv' /\ Delivered
<1>1. CarriedType /\ ServeType /\ LinkType /\ PcType
  BY DEF TypeInv
<1>2. pc[Serve] \in {"closeguest", "enqueue"} /\ UNCHANGED <<env, r>>
      /\ Dispatching(<<>>, <<>>, "read")
  BY DEF ServeDeliver
<1>3. sv.c \in Conns /\ cc[sv.c] \in Carried
  BY <1>1, <1>2 DEF LinkType, CarriedType
<1>4. ServeType' /\ sv'.err = sv.err /\ Goto(Serve, "read")
  BY <1>1, <1>2 DEF Dispatching, ServeType
<1> DEFINE Fine == \A c \in Conns :
                      /\ cc'[c].guest \in {cc[c].guest, "closed"}
                      /\ cc'[c].guest # cc[c].guest => cc[c].guest = "open"
                      /\ cc'[c].sent = cc[c].sent
                      /\ \/ cc'[c].outbound = cc[c].outbound
                         \/ /\ Len(cc[c].outbound) < QueueDepth
                            /\ Len(cc'[c].outbound) = Len(cc[c].outbound) + 1
<1>5. CarriedType' /\ Fine
  <2>1. CASE UNCHANGED cc
    BY <2>1, <1>1 DEF CarriedType
  <2>2. CASE CloseGuest(sv.c)
    <3> DEFINE x == GuestClosed(cc[sv.c])
    <3>1. /\ x \in Carried /\ x.sent = cc[sv.c].sent /\ x.outbound = cc[sv.c].outbound
          /\ x.guest = IF cc[sv.c].guest = "open" THEN "closed" ELSE cc[sv.c].guest
      BY <1>3, CarriedFacts
    <3>2. cc' = [cc EXCEPT ![sv.c] = x]
      BY <2>2, <1>1, <1>3 DEF CloseGuest, CarriedType
    <3> HIDE DEF x
    <3>3. CarriedType' /\ cc'[sv.c] = x /\ \A d \in Conns \ {sv.c} : cc'[d] = cc[d]
      BY <3>1, <3>2, <1>1, <1>3, CarriedStep
    <3> QED
      BY <3>1, <3>3
  <2>3. CASE /\ pc[Serve] = "enqueue" /\ QueueRoom(sv.c)
             /\ cc' = [cc EXCEPT ![sv.c].outbound = Append(@, sv.f)]
    <3> DEFINE q == Append(cc[sv.c].outbound, sv.f)
               x == [cc[sv.c] EXCEPT !.outbound = q]
    <3>1. sv.f \in HostFrames /\ cc[sv.c].outbound \in Seq(HostFrames)
      BY <2>3, <1>1, <1>3 DEF LinkType, Carried
    <3>2. q \in Seq(HostFrames) /\ Len(q) = Len(cc[sv.c].outbound) + 1
      BY <3>1, SMT
    <3>3. cc' = [cc EXCEPT ![sv.c] = x]
      BY <2>3, <1>1, <1>3 DEF CarriedType
    <3> HIDE DEF q
    <3>4. x \in Carried /\ x.sent = cc[sv.c].sent /\ x.outbound = q /\ x.guest = cc[sv.c].guest
      BY <3>2, <1>3 DEF Carried
    <3> HIDE DEF x
    <3>5. CarriedType' /\ cc'[sv.c] = x /\ \A d \in Conns \ {sv.c} : cc'[d] = cc[d]
      BY <3>4, <3>3, <1>1, <1>3, CarriedStep
    <3> QED
      BY <2>3, <3>2, <3>4, <3>5 DEF QueueRoom
  <2> QED
    BY <2>1, <2>2, <2>3 DEF ServeDeliver
<1>6. EnvType' /\ r' = r
  BY <1>2, TypeKept
<1>7. "read" \in ServeLabels /\ pc[Serve] \notin WriteLabels
  BY <1>2 DEF ServeLabels, WriteLabels
<1>8. TypeInv' /\ pc'[Serve] = "read" /\ pc'[Closer] = pc[Closer] /\ PumpsStay
  BY <1>4, <1>5, <1>6, <1>7, TypeServeMove
<1> QED
  BY <1>2, <1>4, <1>5, <1>8 DEF Delivered

(* An OPEN that Serve reads is the last one of its ID, and nothing of that  *)
(* incarnation has started.                                                 *)
LEMMA HeadOpen ==
  ASSUME TypeInv, OpenInv, toRelay # <<>>, NEW f \in HostFrames, f = Head(toRelay),
         f.kind = "OPEN"
  PROVE  /\ f.gen = hc[f.id].gen /\ Fresh(f.id) /\ r.conns[f.id] = 0
         /\ pc[Worker(<<f.id, f.gen>>)] = "off" /\ ~(Refusing /\ Id(sv.c) = f.id)
         /\ \A i \in DOMAIN toRelay : Opens(i) /\ toRelay[i].id = f.id => i = 1
<1>1. f = toRelay[1] /\ 1 \in DOMAIN toRelay
  BY TailFacts DEF TypeInv, EnvType
<1>2. f.id \in Ids /\ f.gen \in 1 .. MaxGen
  BY DEF HostFrames
<1> DEFINE c == <<f.id, f.gen>>
<1>3. c \in Conns /\ Id(c) = f.id /\ Gen(c) = f.gen
  BY <1>2, ConnFacts
<1>4. Awaits(c)
  BY <1>1, <1>3 DEF Awaits, Opens
<1> HIDE DEF c
<1>5. /\ Gen(c) = hc[Id(c)].gen /\ r.conns[Id(c)] = 0 /\ pc[Worker(c)] = "off"
      /\ Fresh(Id(c)) /\ ~(Refusing /\ Id(sv.c) = Id(c))
  BY <1>3, <1>4 DEF OpenInv
<1>6. \A i \in DOMAIN toRelay : Opens(i) /\ toRelay[i].id = f.id => i = 1
  BY <1>1 DEF OpenInv, Opens
<1> QED
  BY <1>3, <1>5, <1>6 DEF c

(* serve's reading of a frame preserves the types.                          *)
LEMMA TypeServeRead == TypeInv /\ OpenInv /\ ServeRead => TypeInv'
<1> SUFFICES ASSUME TypeInv, OpenInv, ServeRead PROVE TypeInv'
  OBVIOUS
<1> DEFINE f == Head(toRelay)
<1>1. /\ pc[Serve] = "read" /\ toRelay # <<>> /\ EnvType' /\ f \in HostFrames \cup {BadFrame}
      /\ \/ UNCHANGED <<pc, sv, r, cc>>
         \/ Fails(f) \/ Refuses(f) \/ Registers(f) \/ Delivers(f)
  BY ReadFacts
<1> HIDE DEF f
<1>2. pc[Serve] \notin WriteLabels
  BY <1>1 DEF WriteLabels
<1>3. CASE UNCHANGED <<pc, sv, r, cc>>
  BY <1>1, <1>3, TypeKept DEF TypeInv
<1>4. CASE Fails(f)
  BY <1>1, <1>2, <1>4, TypeServeMove, TypeKept DEF Fails, ServeLabels
<1>5. f \in HostFrames => f.id \in Ids /\ f.gen \in 1 .. MaxGen /\ <<f.id, f.gen>> \in Conns
  BY ConnFacts DEF HostFrames
<1>6. CASE Refuses(f)
  BY <1>1, <1>2, <1>5, <1>6, TypeServeMove, TypeKept DEF Refuses, ServeLabels
<1>7. CASE Registers(f)
  <2> DEFINE c == <<f.id, f.gen>>
  <2>1. c \in Conns /\ "dial" \in Labels /\ Worker(c) \in Procs
    BY <1>5, <1>7, ProcFacts DEF Registers, Labels, WorkerLabels
  <2>a. pc[Worker(c)] = "off"
    BY <1>1, <1>7, HeadOpen DEF Registers, f
  <2>2. Goto(Worker(c), "dial") /\ Fits(Worker(c), "dial")
    BY <1>7, <2>1, ProcFacts DEF Registers, Fits, WorkerLabels
  <2> HIDE DEF c
  <2>3. PcType' /\ pc'[Worker(c)] = "dial" /\ \A q \in Procs \ {Worker(c)} : pc'[q] = pc[q]
    BY <2>1, <2>2, PcMove DEF TypeInv
  <2>4. pc'[Serve] = pc[Serve]
    BY <2>1, <2>3, ProcFacts
  <2>5. /\ RelayType' /\ UNCHANGED <<sv, cc>> /\ r'.writeMu = r.writeMu
    BY <1>7 DEF Registers
  <2>6. r.writeMu # NoProc => r.writeMu # Worker(c) /\ r.writeMu \in Procs
    BY <2>a, WriteFacts DEF TypeInv, LinkType, RelayType, WriteLabels
  <2>7. LinkType'
    BY <2>3, <2>4, <2>5, <2>6 DEF TypeInv, LinkType
  <2> QED
    BY <1>1, <2>3, <2>5, <2>7, TypeKept DEF TypeInv
<1>8. CASE Delivers(f)
  <2>1. <<f.id, r.conns[f.id]>> \in Conns
    BY <1>5, <1>8, LiveFacts DEF Delivers
  <2>2. CASE Goto(Serve, "enqueue") /\ UNCHANGED cc
    BY <2>1, <2>2, <1>1, <1>2, <1>8, TypeServeMove, TypeKept DEF Delivers, ServeLabels
  <2>3. CASE Goto(Serve, "closeguest") /\ cc' = [cc EXCEPT ![sv'.c] = Closing(@)]
    <3>1. sv'.c \in Conns /\ cc[sv'.c] \in Carried
      BY <2>1, <1>8 DEF Delivers, TypeInv, CarriedType
    <3>2. cc' = [cc EXCEPT ![sv'.c] = Closing(cc[sv'.c])]
      BY <2>3, <3>1 DEF TypeInv, CarriedType
    <3>3. CarriedType'
      BY <3>1, <3>2, CarriedFacts, CarriedStep DEF TypeInv
    <3> QED
      BY <2>3, <3>1, <3>3, <1>1, <1>2, <1>8, TypeServeMove DEF Delivers, ServeLabels
  <2> QED
    BY <2>2, <2>3, <1>8 DEF Delivers
<1> QED
  BY <1>1, <1>3, <1>4, <1>6, <1>7, <1>8

(* Every step is one of these.                                              *)
Writers == {Serve} \cup {Worker(c) : c \in Conns} \cup {Reader(c) : c \in Conns}

(* Next is one of the kinds of steps the lemmas are about.                  *)
LEMMA Steps ==
  ASSUME Next
  PROVE  \/ Host \/ ShutdownStep \/ BossStep \/ ServeRead \/ ServeDeliver
         \/ \E p \in Writers : Write(p)
         \/ \E c \in Conns : LocalWorker(c) \/ LocalReader(c)
<1>1. CASE ServeStep
  BY <1>1 DEF ServeStep, BossStep, Writers
<1>2. CASE CloseStep \/ MonitorStep \/ CloseCall
  BY <1>2 DEF CloseStep, MonitorStep, BossStep
<1>3. ASSUME NEW c \in Conns, WorkerStep(c) PROVE LocalWorker(c) \/ Write(Worker(c))
  BY <1>3 DEF WorkerStep, LocalWorker
<1>4. ASSUME NEW c \in Conns, ReaderStep(c) PROVE LocalReader(c) \/ Write(Reader(c))
  BY <1>4 DEF ReaderStep, LocalReader
<1>5. ASSUME NEW c \in Conns, GuestAccepts(c) \/ GuestSends(c) PROVE LocalWorker(c) \/ LocalReader(c)
  BY <1>5 DEF LocalWorker, LocalReader
<1>6. \A c \in Conns : Worker(c) \in Writers /\ Reader(c) \in Writers
  BY DEF Writers
<1> QED
  BY <1>1, <1>2, <1>3, <1>4, <1>5, <1>6 DEF Next, Goroutines

(* Every step preserves the types.                                          *)
LEMMA TypeNext == TypeInv /\ OpenInv /\ Next => TypeInv'
<1> SUFFICES ASSUME TypeInv, OpenInv, Next PROVE TypeInv'
  OBVIOUS
<1>1. Writers \subseteq Procs
  BY ProcFacts DEF Writers
<1> QED
  BY <1>1, Steps, TypeHost, ShutdownStepFacts, BossFacts, TypeServeRead, DeliverFacts,
     TypeWrite, TypeLocal


-----------------------------------------------------------------------------
(* Steps that leave the connections as they are, but for guest connections  *)
(* that are closed.                                                         *)
SameConns ==
  /\ view' = view /\ rcvd' = rcvd /\ toHost' = toHost
  /\ \A id \in Ids : hc'[id].gen = hc[id].gen
  /\ PumpsStay
  /\ r'.conns = r.conns
  /\ \A c \in Conns : r'.writeMu = Worker(c) <=> r.writeMu = Worker(c)
  /\ \A c \in Conns : /\ cc'[c].guest \in {cc[c].guest, "closed"}
                      /\ cc'[c].guest # cc[c].guest => cc[c].guest = "open"
                      /\ cc'[c].sent = cc[c].sent

(* The OPENs that remain in the socket, s places further on.                *)
OpensFrom(s) ==
  \A i \in DOMAIN toRelay' : toRelay'[i].kind = "OPEN" =>
     i + s \in DOMAIN toRelay /\ toRelay'[i] = toRelay[i + s]

RefusingFrom == Refusing' => pc'[Serve] = pc[Serve] /\ sv'.c = sv.c

CInv == ConnInv /\ FlowInv /\ WriteInv /\ RefuseInv /\ OpenInv /\ PayloadInv

(* What may be sent depends only on what the host has read and will read.   *)
LEMMA SameCanSend ==
  ASSUME SameConns
  PROVE  /\ \A id : Fresh(id)' <=> Fresh(id)
         /\ \A id, k : CanSend(id, k)' <=> CanSend(id, k)
<1>1. view' = view /\ toHost' = toHost
  BY DEF SameConns
<1> QED
  BY <1>1 DEF Fresh, NoFrames, CanSend, Of

(* Such a step preserves what is known of the goroutines ...                *)
LEMMA SameConnInv ==
  ASSUME SameConns, ConnInv
  PROVE  ConnInv'
<1> SUFFICES ASSUME NEW c \in Conns PROVE (PairInv(c) /\ MapInv(c) /\ GenInv(c))'
  BY DEF ConnInv
<1>1. PairInv(c) /\ MapInv(c) /\ GenInv(c) /\ Id(c) \in Ids
  BY OwnerFacts DEF ConnInv
<1>2. /\ pc'[Worker(c)] = pc[Worker(c)] /\ pc'[Reader(c)] = pc[Reader(c)]
      /\ r'.conns = r.conns /\ (r'.writeMu = Worker(c) <=> r.writeMu = Worker(c))
      /\ hc'[Id(c)].gen = hc[Id(c)].gen
      /\ cc'[c].guest \in {cc[c].guest, "closed"}
      /\ cc'[c].guest # cc[c].guest => cc[c].guest = "open"
      /\ cc'[c].sent = cc[c].sent
  BY <1>1 DEF SameConns, PumpsStay
<1>3. PairInv(c)'
  BY <1>1, <1>2 DEF PairInv, Stopped
<1>4. MapInv(c)'
  BY <1>1, <1>2 DEF MapInv, Active, Retiring
<1>5. GenInv(c)'
  BY <1>1, <1>2 DEF GenInv, Stopped
<1> QED
  BY <1>3, <1>4, <1>5

(* The four that do not depend on Serve or on the frames from the host.     *)
LEMMA SameRest ==
  ASSUME SameConns, CInv
  PROVE  ConnInv' /\ FlowInv' /\ WriteInv' /\ PayloadInv'
<1>1. ConnInv'
  BY SameConnInv DEF CInv
<1>2. view' = view /\ rcvd' = rcvd /\ toHost' = toHost /\ r'.conns = r.conns /\ PumpsStay
  BY DEF SameConns
<1>3. FlowInv'
  BY <1>2 DEF CInv, FlowInv, Of
<1>4. WriteInv'
  BY <1>2, SameCanSend DEF CInv, WriteInv, SendInv, Active, Reading, PumpsStay
<1>5. PayloadInv'
  <2> SUFFICES ASSUME NEW c \in Conns, Gen(c) = hc'[Id(c)].gen PROVE DataInv(c)'
    BY DEF PayloadInv
  <2>1. Id(c) \in Ids
    BY OwnerFacts
  <2>2. Gen(c) = hc[Id(c)].gen /\ pc'[Reader(c)] = pc[Reader(c)] /\ cc'[c].sent = cc[c].sent
    BY <2>1 DEF SameConns, PumpsStay
  <2>3. DataInv(c)
    BY <2>2 DEF CInv, PayloadInv
  <2>4. Written(c)' = Written(c) /\ (Reading(c)' <=> Reading(c))
    BY <2>2 DEF Written, Reading
  <2> QED
    BY <2>2, <2>3, <2>4, <1>2, SMT DEF DataInv, IsData, Payload, Of
<1> QED
  BY <1>1, <1>3, <1>4, <1>5

(* No ID is opened twice in the socket.                                     *)
LEMMA TailOpens ==
  ASSUME TypeInv, TypeInv', OpenInv, NEW s \in {0, 1}, OpensFrom(s),
         NEW i \in DOMAIN toRelay', NEW j \in DOMAIN toRelay', Opens(i)', Opens(j)',
         toRelay'[i].id = toRelay'[j].id
  PROVE  i = j
<1>1. /\ i + s \in DOMAIN toRelay /\ toRelay'[i] = toRelay[i + s] /\ Opens(i + s)
      /\ j + s \in DOMAIN toRelay /\ toRelay'[j] = toRelay[j + s] /\ Opens(j + s)
  BY DEF OpensFrom, Opens
<1>2. i + s = j + s
  BY <1>1 DEF OpenInv
<1>3. toRelay' \in Seq(HostFrames \cup {BadFrame})
  BY DEF TypeInv, EnvType
<1>4. i \in Nat /\ j \in Nat
  BY <1>3, SMT
<1> QED
  BY <1>2, <1>4, SMT

(* ... and all that is known of connections and frames.                     *)
LEMMA SameInv ==
  ASSUME TypeInv, TypeInv', SameConns, CInv, RefusingFrom, NEW s \in {0, 1}, OpensFrom(s)
  PROVE  CInv'
<1>1. ConnInv' /\ FlowInv' /\ WriteInv' /\ PayloadInv'
  BY SameRest
<1>2. view' = view /\ rcvd' = rcvd /\ toHost' = toHost /\ r'.conns = r.conns /\ PumpsStay
  BY DEF SameConns
<1>3. RefuseInv'
  <2> SUFFICES ASSUME NEW c \in Conns, Refusing', sv'.c = c
               PROVE  (/\ Gen(c) = hc[Id(c)].gen /\ r.conns[Id(c)] = 0 /\ pc[Worker(c)] = "off"
                       /\ pc[Serve] = "refuse" => Fresh(Id(c))
                       /\ CanSend(Id(c), "CLOSE"))'
    BY DEF RefuseInv
  <2>1. pc'[Serve] = pc[Serve] /\ sv.c = c /\ Refusing /\ Id(c) \in Ids
    BY OwnerFacts DEF RefusingFrom, Refusing
  <2>2. hc'[Id(c)].gen = hc[Id(c)].gen /\ pc'[Worker(c)] = pc[Worker(c)]
    BY <2>1 DEF SameConns, PumpsStay
  <2> QED
    BY <1>2, <2>1, <2>2, SameCanSend DEF CInv, RefuseInv
<1>4. OpenInv'
  <2>1. ASSUME NEW c \in Conns, Awaits(c)'
        PROVE  (/\ Gen(c) = hc[Id(c)].gen /\ r.conns[Id(c)] = 0 /\ pc[Worker(c)] = "off"
                /\ Fresh(Id(c)) /\ ~(Refusing /\ Id(sv.c) = Id(c)))'
    <3>1. Awaits(c) /\ Id(c) \in Ids
      BY <2>1, OwnerFacts DEF OpensFrom, Awaits, Opens
    <3>2. /\ Gen(c) = hc[Id(c)].gen /\ r.conns[Id(c)] = 0 /\ pc[Worker(c)] = "off"
          /\ Fresh(Id(c)) /\ ~(Refusing /\ Id(sv.c) = Id(c))
      BY <3>1 DEF CInv, OpenInv
    <3>3. hc'[Id(c)].gen = hc[Id(c)].gen /\ pc'[Worker(c)] = pc[Worker(c)]
      BY <3>1 DEF SameConns, PumpsStay
    <3>4. Refusing' => Refusing /\ sv'.c = sv.c
      BY DEF RefusingFrom, Refusing
    <3> QED
      BY <3>2, <3>3, <3>4, <1>2, SameCanSend
  <2>2. ASSUME NEW i \in DOMAIN toRelay', NEW j \in DOMAIN toRelay', Opens(i)', Opens(j)',
               toRelay'[i].id = toRelay'[j].id
        PROVE  i = j
    BY <2>2, TailOpens DEF CInv
  <2> QED
    BY <2>1, <2>2 DEF OpenInv
<1> QED
  BY <1>1, <1>3, <1>4 DEF CInv


(* Steps that leave the shutdown, Serve's place and the errors as they are. *)
SameRelayState ==
  /\ Kept(r') = Kept(r) /\ pc'[Closer] = pc[Closer]
  /\ pc'[Serve] = pc[Serve] \/ pc'[Serve] \notin {"idle", "join", "done"}
  /\ \A c \in Conns : Stopped(Worker(c)) => pc'[Worker(c)] = pc[Worker(c)]

SameFaults ==
  /\ host' = host /\ sv'.err = sv.err /\ r'.err = r.err
  /\ \A i \in DOMAIN toRelay' : toRelay'[i] = BadFrame =>
       \E j \in DOMAIN toRelay : toRelay[j] = BadFrame

(* A step that changes nothing of the shutdown.                             *)
LEMMA SameRelayInv ==
  ASSUME RelayInv, SameRelayState
  PROVE  RelayInv'
<1>1. r'.open = r.open /\ r'.done = r.done /\ r'.once = r.once
  BY DEF SameRelayState, Kept
<1>2. \A c \in Conns : pc[Worker(c)] \in {"off", "done"} => pc'[Worker(c)] = pc[Worker(c)]
  BY DEF SameRelayState, Stopped
<1> QED
  BY <1>1, <1>2 DEF RelayInv, SameRelayState, Stopped

(* A step that adds no error.                                               *)
LEMMA SameFaultInv ==
  ASSUME FaultInv, SameFaults
  PROVE  FaultInv'
  BY DEF FaultInv, SameFaults, ErrorsAreTheHosts

(* The fields of the relay that a write does not touch.                     *)
LEMMA KeptFacts ==
  ASSUME Kept(r') = Kept(r)
  PROVE  r'.open = r.open /\ r'.done = r.done /\ r'.once = r.once /\ r'.err = r.err
  BY DEF Kept

-----------------------------------------------------------------------------
(* Preservation: the whole inductive invariant.                             *)
Inv == TypeInv /\ RelayInv /\ FaultInv /\ CInv

(* Nothing of the socket from the host has changed.                         *)
LEMMA SameSocket ==
  ASSUME TypeInv, toRelay' = toRelay
  PROVE  OpensFrom(0)
<1>1. toRelay \in Seq(HostFrames \cup {BadFrame})
  BY DEF TypeInv, EnvType
<1> QED
  BY <1>1, SMT DEF OpensFrom

(* shutdown's body preserves the invariant.                                 *)
LEMMA ShutdownStepInv ==
  ASSUME Inv, ShutdownStep
  PROVE  Inv'
<1>1. /\ TypeInv' /\ UNCHANGED <<env, pc, sv>>
      /\ r.once # "new" /\ r'.once # "new" /\ r'.done = r.done /\ r'.err = r.err
      /\ r'.writeMu = r.writeMu /\ r'.conns = r.conns
      /\ OnlyCloses
  BY ShutdownStepFacts DEF Inv
<1>2. /\ UNCHANGED <<host, hc, view, rcvd, toRelay, toHost, pc, sv>>
  BY <1>1 DEF env
<1>3. RelayInv'
  BY <1>1, <1>2 DEF Inv, RelayInv, Stopped
<1>4. FaultInv'
  BY <1>1, <1>2, SameFaultInv DEF Inv, SameFaults
<1>5. SameConns
  BY <1>1, <1>2 DEF SameConns, PumpsStay, OnlyCloses
<1>6. RefusingFrom
  BY <1>2 DEF RefusingFrom
<1>7. CInv'
  BY <1>1, <1>2, <1>5, <1>6, SameSocket, SameInv DEF Inv
<1> QED
  BY <1>1, <1>3, <1>4, <1>7 DEF Inv

(* The steps of Serve, Close and the monitor around it preserve the         *)
(* invariant.                                                               *)
LEMMA BossInv ==
  ASSUME Inv, BossStep
  PROVE  Inv'
<1>1. /\ TypeInv' /\ UNCHANGED <<env, cc>> /\ PumpsStay
      /\ ServeMoves /\ CloserMoves /\ RelayMoves
  BY BossFacts DEF Inv
<1>2. UNCHANGED <<host, hc, view, rcvd, toRelay, toHost, cc>>
  BY <1>1 DEF env
<1>3. /\ r'.open = r.open /\ r'.writeMu = r.writeMu /\ r'.conns = r.conns
      /\ \/ r' = r
         \/ r'.once = "conn" /\ r'.done /\ r'.err \in {"nil", sv.err}
  <2>1. ASSUME NEW e \in {"nil", sv.err}, Shutdown(e)
        PROVE  /\ r'.open = r.open /\ r'.writeMu = r.writeMu /\ r'.conns = r.conns
               /\ r'.once = "conn" /\ r'.done /\ r'.err = e
    <3>1. RelayType /\ e \in {"nil", "proto", "read", "write"}
      BY <2>1 DEF Inv, TypeInv, ServeType
    <3> QED
      BY <2>1, <3>1, ShutdownFacts
  <2> QED
    BY <2>1, <1>1 DEF RelayMoves
<1>4. RelayInv /\ RelayType /\ PcType
  BY DEF Inv, TypeInv
<1>5. RelayInv'
  <2>1. (r'.done <=> r'.once # "new") /\ (~r'.open => r'.done) /\ (r.done => r'.done)
    BY <1>3, <1>4 DEF RelayInv
  <2>2. pc'[Serve] \in {"join", "done"} => r'.done
    BY <1>1, <1>4, <2>1 DEF RelayInv, ServeMoves
  <2>3. pc'[Closer] \in {"join", "done"} => r'.done
    BY <1>1, <1>4, <2>1 DEF RelayInv, CloserMoves
  <2>4. pc'[Serve] = "idle" => \A c \in Conns : pc'[Worker(c)] = "off"
    BY <1>1, <1>4 DEF RelayInv, ServeMoves, PumpsStay
  <2>5. pc'[Serve] = "done" => \A c \in Conns : pc'[Worker(c)] \in {"off", "done"}
    BY <1>1, <1>4 DEF RelayInv, ServeMoves, PumpsStay, Stopped, WorkersDone
  <2>6. pc'[Closer] = "done" => \A c \in Conns : pc'[Worker(c)] \in {"off", "done"}
    BY <1>1, <1>4 DEF RelayInv, CloserMoves, PumpsStay, Stopped, WorkersDone
  <2> QED
    BY <2>1, <2>2, <2>3, <2>4, <2>5, <2>6 DEF RelayInv, Stopped
<1>6. FaultInv'
  <2>1. FaultInv
    BY DEF Inv
  <2>2. sv'.err = sv.err \/ sv'.err = "nil" \/ (sv'.err = "read" /\ ~host.up)
    BY <1>1, <1>4 DEF ServeMoves, RelayInv
  <2>3. sv.err # "write"
    BY DEF Inv, TypeInv, ServeType
  <2> QED
    BY <1>2, <1>3, <2>1, <2>2, <2>3 DEF FaultInv, ErrorsAreTheHosts
<1>7. SameConns
  BY <1>1, <1>2, <1>3 DEF SameConns
<1>8. RefusingFrom
  BY <1>1 DEF RefusingFrom, Refusing, ServeMoves
<1>9. CInv'
  BY <1>1, <1>2, <1>7, <1>8, SameSocket, SameInv DEF Inv
<1> QED
  BY <1>1, <1>5, <1>6, <1>9 DEF Inv

(* Delivering a frame to a queue or closing a guest preserves the           *)
(* invariant.                                                               *)
LEMMA DeliverInv ==
  ASSUME Inv, ServeDeliver
  PROVE  Inv'
<1>1. TypeInv' /\ Delivered
  BY DeliverFacts DEF Inv
<1>2. UNCHANGED <<host, hc, view, rcvd, toRelay, toHost, r>>
  BY <1>1 DEF Delivered, env
<1>3. RelayInv'
  BY <1>1, <1>2, SameRelayInv DEF Inv, SameRelayState, Delivered, PumpsStay
<1>4. FaultInv'
  BY <1>1, <1>2, SameFaultInv DEF Inv, SameFaults, Delivered
<1>5. SameConns /\ RefusingFrom
  BY <1>1, <1>2 DEF SameConns, Delivered, RefusingFrom, Refusing
<1>6. CInv'
  BY <1>1, <1>2, <1>5, SameSocket, SameInv DEF Inv
<1> QED
  BY <1>1, <1>3, <1>4, <1>6 DEF Inv


(* A frame that is not an OPEN, appended by the host; or the host going.    *)
LEMMA AppendedFrame ==
  ASSUME NEW S, NEW q \in Seq(S), NEW f \in S, NEW t, t = Append(q, f)
  PROVE  /\ DOMAIN t = 1 .. Len(q) + 1 /\ DOMAIN q = 1 .. Len(q) /\ Len(q) \in Nat
         /\ t[Len(q) + 1] = f /\ Len(q) + 1 \notin DOMAIN q
         /\ \A i \in DOMAIN q : i \in DOMAIN t /\ t[i] = q[i]
         /\ \A i \in DOMAIN t : (i \in DOMAIN q /\ t[i] = q[i]) \/ (i = Len(q) + 1 /\ t[i] = f)
  BY SMT

(* Such a step preserves the invariant.                                     *)
LEMMA HostQuietInv ==
  ASSUME Inv, TypeInv', UNCHANGED <<view, rcvd, toHost, pc, sv, r, cc>>,
         \A id \in Ids : hc'[id].gen = hc[id].gen,
         host'.bad = host.bad \/ host'.bad, ~host.up => ~host'.up,
         \/ toRelay' = toRelay
         \/ \E f \in HostFrames \cup {BadFrame} :
              /\ toRelay' = Append(toRelay, f) /\ f.kind # "OPEN"
              /\ f = BadFrame => host'.bad
  PROVE  Inv'
<1>1. toRelay \in Seq(HostFrames \cup {BadFrame})
  BY DEF Inv, TypeInv, EnvType
<1>2. SameConns /\ RefusingFrom
  BY DEF SameConns, PumpsStay, RefusingFrom
<1>3. RelayInv'
  BY SameRelayInv DEF Inv, SameRelayState
<1>4. OpensFrom(0) /\ FaultInv'
  <2>0. FaultInv
    BY DEF Inv
  <2>1. CASE toRelay' = toRelay
    BY <2>0, <2>1, SameSocket DEF Inv, FaultInv, ErrorsAreTheHosts
  <2>2. ASSUME NEW f \in HostFrames \cup {BadFrame}, toRelay' = Append(toRelay, f),
               f.kind # "OPEN", f = BadFrame => host'.bad
        PROVE  OpensFrom(0) /\ FaultInv'
    <3>1. \A i \in DOMAIN toRelay' : \/ i \in DOMAIN toRelay /\ toRelay'[i] = toRelay[i]
                                     \/ toRelay'[i] = f
      BY <1>1, <2>2, AppendedFrame, SMT
    <3>2. \A i \in DOMAIN toRelay : i \in Nat
      BY <1>1, SMT
    <3>3. OpensFrom(0)
      BY <2>2, <3>1, <3>2, SMT DEF OpensFrom
    <3>4. FaultInv'
      BY <2>0, <2>2, <3>1 DEF FaultInv, ErrorsAreTheHosts
    <3> QED
      BY <3>3, <3>4
  <2> QED
    BY <2>1, <2>2
<1>5. CInv'
  BY <1>2, <1>4, SameInv DEF Inv
<1> QED
  BY <1>3, <1>4, <1>5 DEF Inv

(* DATA, CLOSE_WRITE, CLOSE and malformed frames of the host, and its going *)
(* away, preserve the invariant.                                            *)
LEMMA HostSendInv ==
  ASSUME Inv, TypeInv',
         \/ HostBad \/ HostVanish
         \/ \E id \in Ids : \/ HostData(id)
                           \/ \E k \in {"CLOSE_WRITE", "CLOSE"} : HostControl(id, k)
  PROVE  Inv'
<1>1. EnvType /\ EnvType'
  BY DEF Inv, TypeInv
<1>2. UNCHANGED <<view, rcvd, toHost, pc, sv, r, cc>>
  BY DEF HostData, HostControl, HostBad, HostVanish, HostSend
<1>3. ASSUME NEW id \in Ids, HostData(id) PROVE Inv'
  <2> DEFINE f == Frame("DATA", <<id, hc[id].gen>>, hc[id].sent + 1)
  <2>1. hc[id].gen \in 1 .. MaxGen /\ hc[id].sent + 1 \in Nat
    BY <1>1, <1>3, MaxGenFacts, SMT DEF EnvType, HostData, MaySend
  <2>2. f \in HostFrames /\ f.kind # "OPEN" /\ f # BadFrame
    BY <2>1 DEF Frame, HostFrames, HostKinds, BadFrame
  <2>3. toRelay' = Append(toRelay, f) /\ host' = host
    BY <1>3 DEF HostData, HostSend
  <2>4. \A d \in Ids : hc'[d].gen = hc[d].gen
    BY <1>1, <1>3, SMT DEF EnvType, HostData
  <2> HIDE DEF f
  <2> QED
    BY <1>2, <2>2, <2>3, <2>4, HostQuietInv
<1>4. ASSUME NEW id \in Ids, NEW k \in {"CLOSE_WRITE", "CLOSE"}, HostControl(id, k) PROVE Inv'
  <2> DEFINE f == Frame(k, <<id, hc[id].gen>>, hc[id].sent)
  <2>1. hc[id].gen \in 1 .. MaxGen /\ hc[id].sent \in Nat
    BY <1>1, <1>4, MaxGenFacts, SMT DEF EnvType, HostControl, MaySend
  <2>2. f \in HostFrames /\ f.kind # "OPEN" /\ f # BadFrame
    BY <2>1 DEF Frame, HostFrames, HostKinds, BadFrame
  <2>3. toRelay' = Append(toRelay, f) /\ host' = host
    BY <1>4 DEF HostControl, HostSend
  <2>4. \A d \in Ids : hc'[d].gen = hc[d].gen
    BY <1>1, <1>4, SMT DEF EnvType, HostControl
  <2> HIDE DEF f
  <2> QED
    BY <1>2, <2>2, <2>3, <2>4, HostQuietInv
<1>5. CASE HostBad
  <2>1. /\ toRelay' = Append(toRelay, BadFrame) /\ hc' = hc
        /\ host' = [host EXCEPT !.bad = TRUE] /\ BadFrame.kind # "OPEN"
    BY <1>5 DEF HostBad, HostSend, BadFrame
  <2>2. host'.bad /\ host'.up = host.up
    BY <2>1, <1>1 DEF EnvType
  <2> QED
    BY <1>2, <2>1, <2>2, HostQuietInv
<1>6. CASE HostVanish
  <2>1. host'.bad = host.bad /\ ~host'.up /\ hc' = hc /\ toRelay' = toRelay
    BY <1>1, <1>6 DEF HostVanish, EnvType
  <2> QED
    BY <1>2, <2>1, HostQuietInv
<1> QED
  BY <1>3, <1>4, <1>5, <1>6

(* What is left of an ID that the host sees closed: nothing that runs, and  *)
(* no frame in either direction of the socket.                              *)
LEMMA ClosedFacts ==
  ASSUME Inv, NEW id \in Ids, view[id] = "closed"
  PROVE  /\ NoFrames(id) /\ r.conns[id] = 0
         /\ \A c \in Conns : Id(c) = id =>
              /\ Stopped(Worker(c)) /\ Stopped(Reader(c))
              /\ cc[c].guest \in {"none", "closed"}
              /\ ~Awaits(c) /\ ~(Refusing /\ sv.c = c)
<1>1. \A k : k \notin Allowed(view[id])
  BY DEF Allowed
<1>2. (\A k : ~CanSend(id, k)) /\ ~Fresh(id)
  BY <1>1 DEF CanSend, Fresh
<1>3. NoFrames(id)
  BY <1>1 DEF Inv, CInv, FlowInv, NoFrames, Of
<1>4. ASSUME NEW c \in Conns, Id(c) = id
      PROVE  /\ Stopped(Worker(c)) /\ Stopped(Reader(c))
             /\ cc[c].guest \in {"none", "closed"}
             /\ ~Awaits(c) /\ ~(Refusing /\ sv.c = c)
  <2>1. SendInv(c) /\ PairInv(c)
    BY DEF Inv, CInv, WriteInv, ConnInv
  <2>2. Stopped(Worker(c))
    BY <1>2, <1>4, <2>1 DEF SendInv, Active, Stopped
  <2>3. Stopped(Reader(c)) /\ cc[c].guest \in {"none", "closed"}
    BY <2>1, <2>2 DEF PairInv, Stopped
  <2>4. ~Awaits(c) /\ ~(Refusing /\ sv.c = c)
    BY <1>2, <1>4 DEF Inv, CInv, OpenInv, RefuseInv
  <2> QED
    BY <2>2, <2>3, <2>4
<1>5. r.conns[id] = 0
  <2> SUFFICES ASSUME r.conns[id] # 0 PROVE FALSE
    OBVIOUS
  <2> DEFINE c == <<id, r.conns[id]>>
  <2>1. c \in Conns /\ Id(c) = id /\ Gen(c) = r.conns[id]
    <3>1. r.conns[id] \in 1 .. MaxGen
      BY MaxGenFacts, SMT DEF Inv, TypeInv, RelayType
    <3> QED
      BY <3>1, ConnFacts
  <2> HIDE DEF c
  <2>2. Active(c)
    BY <2>1 DEF Inv, CInv, ConnInv, MapInv
  <2> QED
    BY <2>1, <2>2, <1>4 DEF Active, Stopped
<1> QED
  BY <1>3, <1>4, <1>5


(* HostOpen: a new incarnation of an ID that the host sees closed.          *)
LEMMA HostOpenInv ==
  ASSUME Inv, TypeInv', NEW id \in Ids, HostOpen(id)
  PROVE  Inv'
<1>1. EnvType /\ EnvType' /\ RelayType
  BY DEF Inv, TypeInv
<1> DEFINE g == hc[id].gen + 1
           f == Frame("OPEN", <<id, g>>, 0)
<1>2. /\ view[id] = "closed" /\ toRelay' = Append(toRelay, f)
      /\ UNCHANGED <<host, toHost, pc, sv, r, cc>>
  BY DEF HostOpen, HostSend
<1>3. /\ view'[id] = "opening" /\ rcvd'[id] = 0 /\ hc'[id].gen = g
      /\ \A d \in Ids \ {id} : view'[d] = view[d] /\ rcvd'[d] = rcvd[d] /\ hc'[d] = hc[d]
  BY <1>1 DEF HostOpen, EnvType
<1>4. g \in 1 .. MaxGen /\ hc[id].gen \in Nat /\ g = hc[id].gen + 1
  BY <1>1, MaxGenFacts, SMT DEF HostOpen, EnvType
<1>5. f \in HostFrames /\ f.kind = "OPEN" /\ f # BadFrame /\ f.id = id /\ f.gen = g
  BY <1>4 DEF Frame, HostFrames, HostKinds, BadFrame
<1>6. /\ NoFrames(id) /\ r.conns[id] = 0
      /\ \A c \in Conns : Id(c) = id =>
           /\ Stopped(Worker(c)) /\ Stopped(Reader(c))
           /\ cc[c].guest \in {"none", "closed"}
           /\ ~Awaits(c) /\ ~(Refusing /\ sv.c = c)
  BY <1>2, ClosedFacts
<1> HIDE DEF g, f
<1>7. /\ DOMAIN toRelay' = 1 .. Len(toRelay) + 1 /\ DOMAIN toRelay = 1 .. Len(toRelay)
      /\ Len(toRelay) \in Nat /\ toRelay'[Len(toRelay) + 1] = f
      /\ \A i \in DOMAIN toRelay' : \/ i \in DOMAIN toRelay /\ toRelay'[i] = toRelay[i]
                                    \/ i = Len(toRelay) + 1 /\ toRelay'[i] = f
  BY <1>1, <1>2, <1>5, AppendedFrame, SMT DEF EnvType
<1>8. RelayInv'
  BY <1>2, SameRelayInv DEF Inv, SameRelayState
<1>9. FaultInv'
  BY <1>2, <1>5, <1>7, SameFaultInv DEF Inv, SameFaults
<1>10. \A c \in Conns : Id(c) \in Ids /\ Gen(c) \in Nat
  BY OwnerFacts, MaxGenFacts, SMT
<1>11. ConnInv'
  <2> SUFFICES ASSUME NEW c \in Conns PROVE (PairInv(c) /\ MapInv(c) /\ GenInv(c))'
    BY DEF ConnInv
  <2>1. PairInv(c) /\ MapInv(c) /\ GenInv(c)
    BY DEF Inv, CInv, ConnInv
  <2>2. PairInv(c)' /\ MapInv(c)'
    BY <1>2, <2>1 DEF PairInv, MapInv, Stopped, Active, Retiring
  <2>3. CASE Id(c) = id
    <3>1. hc'[Id(c)].gen = g /\ (Gen(c) > g => Gen(c) > hc[Id(c)].gen)
      BY <1>3, <1>4, <1>10, <2>3, SMT
    <3>2. /\ Stopped(Worker(c))' /\ Stopped(Reader(c))'
          /\ cc'[c].guest \in {"none", "closed"}
      BY <1>2, <1>6, <2>3 DEF Stopped
    <3>3. Gen(c) > g => pc'[Worker(c)] = "off" /\ pc'[Reader(c)] = "off"
      BY <1>2, <2>1, <3>1 DEF GenInv
    <3> QED
      BY <2>2, <3>1, <3>2, <3>3 DEF GenInv
  <2>4. CASE Id(c) # id
    <3>1. hc'[Id(c)] = hc[Id(c)]
      BY <1>3, <1>10, <2>4
    <3> QED
      BY <1>2, <2>1, <2>2, <3>1 DEF GenInv, Stopped
  <2> QED
    BY <2>3, <2>4
<1>12. ASSUME NEW d \in Ids \ {id}
       PROVE  (Fresh(d)' <=> Fresh(d)) /\ \A k : CanSend(d, k)' <=> CanSend(d, k)
  <2>1. view'[d] = view[d] /\ toHost' = toHost
    BY <1>2, <1>3
  <2> QED
    BY <2>1 DEF Fresh, NoFrames, CanSend, Of
<1>13. FlowInv'
  <2>a. \A i \in DOMAIN toHost : toHost[i] \in RelayFrames
    BY <1>1, SMT DEF EnvType
  <2>b. \A i \in DOMAIN toHost : toHost[i].id \in Ids
    BY <2>a DEF RelayFrames
  <2>1. FlowInv /\ toHost' = toHost /\ \A i \in DOMAIN toHost : toHost[i].id \in Ids \ {id}
    BY <1>2, <1>6, <2>b DEF Inv, CInv, NoFrames, Of
  <2>2. \A d \in Ids : view'[d] \in Views
    BY <1>3, <2>1 DEF FlowInv, Views
  <2>3. \A i \in DOMAIN toHost : view'[toHost[i].id] = view[toHost[i].id]
    BY <1>3, <2>1
  <2> QED
    BY <2>1, <2>2, <2>3, SMT DEF FlowInv, Of
<1>14. WriteInv'
  <2> SUFFICES ASSUME NEW c \in Conns PROVE SendInv(c)'
    BY DEF WriteInv
  <2>1. SendInv(c)
    BY DEF Inv, CInv, WriteInv
  <2>2. CASE Id(c) = id
    BY <1>2, <1>6, <2>2 DEF SendInv, Active, Reading, Stopped
  <2>3. CASE Id(c) # id
    BY <1>2, <1>10, <1>12, <2>1, <2>3 DEF SendInv, Active, Reading
  <2> QED
    BY <2>2, <2>3
<1>15. RefuseInv'
  <2> SUFFICES ASSUME NEW c \in Conns, Refusing', sv'.c = c
               PROVE  (/\ Gen(c) = hc[Id(c)].gen /\ r.conns[Id(c)] = 0 /\ pc[Worker(c)] = "off"
                       /\ pc[Serve] = "refuse" => Fresh(Id(c))
                       /\ CanSend(Id(c), "CLOSE"))'
    BY DEF RefuseInv
  <2>1. Refusing /\ sv.c = c /\ Id(c) # id
    BY <1>2, <1>6 DEF Refusing
  <2>2. /\ Gen(c) = hc[Id(c)].gen /\ r.conns[Id(c)] = 0 /\ pc[Worker(c)] = "off"
        /\ pc[Serve] = "refuse" => Fresh(Id(c))
        /\ CanSend(Id(c), "CLOSE")
    BY <2>1 DEF Inv, CInv, RefuseInv
  <2> QED
    BY <1>2, <1>3, <1>10, <1>12, <2>1, <2>2
<1>16. OpenInv'
  <2>1. ASSUME NEW c \in Conns, Awaits(c)'
        PROVE  (/\ Gen(c) = hc[Id(c)].gen /\ r.conns[Id(c)] = 0 /\ pc[Worker(c)] = "off"
                /\ Fresh(Id(c)) /\ ~(Refusing /\ Id(sv.c) = Id(c)))'
    <3>1. Awaits(c) \/ (Id(c) = id /\ Gen(c) = g)
      BY <1>5, <1>7, <2>1 DEF Awaits, Opens
    <3>2. CASE Awaits(c)
      <4>1. Id(c) \in Ids \ {id}
        BY <3>2, <1>6, <1>10
      <4>2. /\ Gen(c) = hc[Id(c)].gen /\ r.conns[Id(c)] = 0 /\ pc[Worker(c)] = "off"
            /\ Fresh(Id(c)) /\ ~(Refusing /\ Id(sv.c) = Id(c))
        BY <3>2 DEF Inv, CInv, OpenInv
      <4>3. Refusing' <=> Refusing
        BY <1>2 DEF Refusing
      <4> QED
        BY <4>1, <4>2, <4>3, <1>2, <1>3, <1>12
    <3>3. CASE Id(c) = id /\ Gen(c) = g
      <4>1. pc[Worker(c)] = "off"
        BY <3>3, <1>4, SMT DEF Inv, CInv, ConnInv, GenInv
      <4>2. Fresh(id)'
        BY <1>2, <1>3, <1>6 DEF Fresh, NoFrames, Of
      <4>3. ~(Refusing' /\ Id(sv'.c) = id)
        <5> SUFFICES ASSUME Refusing, Id(sv.c) = id PROVE FALSE
          BY <1>2 DEF Refusing
        <5>1. sv.c \in Conns
          BY DEF Inv, TypeInv, LinkType, Refusing
        <5> QED
          BY <5>1, <1>6
      <4> QED
        BY <3>3, <4>1, <4>2, <4>3, <1>2, <1>3, <1>6
    <3> QED
      BY <3>1, <3>2, <3>3
  <2>2. ASSUME NEW i \in DOMAIN toRelay, Opens(i) PROVE toRelay[i].id # id
    <3> SUFFICES ASSUME toRelay[i].id = id PROVE FALSE
      OBVIOUS
    <3>1. toRelay[i] \in HostFrames
      BY <1>1, <2>2, SMT DEF EnvType, Opens, BadFrame
    <3>2. toRelay[i].gen \in 1 .. MaxGen
      BY <3>1 DEF HostFrames
    <3> DEFINE c == <<id, toRelay[i].gen>>
    <3>3. c \in Conns /\ Id(c) = id /\ Gen(c) = toRelay[i].gen
      BY <3>2, ConnFacts
    <3>4. Awaits(c)
      BY <2>2, <3>3 DEF Awaits
    <3> QED
      BY <3>3, <3>4, <1>6
  <2>3. ASSUME NEW i \in DOMAIN toRelay', NEW j \in DOMAIN toRelay', Opens(i)', Opens(j)',
               toRelay'[i].id = toRelay'[j].id
        PROVE  i = j
    BY <1>5, <1>7, <2>2, <2>3, SMT DEF Inv, CInv, OpenInv, Opens
  <2> QED
    BY <2>1, <2>3 DEF OpenInv
<1>17. PayloadInv'
  <2> SUFFICES ASSUME NEW c \in Conns, Gen(c) = hc'[Id(c)].gen PROVE DataInv(c)'
    BY DEF PayloadInv
  <2>1. Reading(c)' <=> Reading(c)
    BY <1>2 DEF Reading
  <2>2. CASE Id(c) = id
    <3>1. pc[Reader(c)] = "off" /\ cc[c].sent = 0
      BY <2>2, <1>3, <1>4, SMT DEF Inv, CInv, ConnInv, GenInv, PairInv
    <3>2. Written(c)' = 0 /\ ~Reading(c)'
      BY <3>1, <1>2 DEF Written, Reading
    <3> QED
      BY <3>2, <2>2, <1>2, <1>3, <1>6, SMT DEF DataInv, NoFrames, IsData, Of
  <2>3. CASE Id(c) # id
    <3>1. Gen(c) = hc[Id(c)].gen /\ rcvd'[Id(c)] = rcvd[Id(c)]
      BY <2>3, <1>3, <1>10
    <3>2. DataInv(c)
      BY <3>1 DEF Inv, CInv, PayloadInv
    <3>3. Written(c)' = Written(c)
      BY <1>2 DEF Written
    <3> QED
      BY <3>1, <3>2, <3>3, <2>1, <1>2, SMT DEF DataInv, IsData, Payload, Of
  <2> QED
    BY <2>2, <2>3
<1> QED
  BY <1>8, <1>9, <1>11, <1>13, <1>14, <1>15, <1>16, <1>17 DEF Inv, CInv


(* HostRecv: the host reads a frame that its phase allows.                  *)
LEMMA AllowedFacts ==
  /\ Allowed("closed") = {} /\ Allowed("opening") = RelayKinds
  /\ Allowed("established") = {"DATA", "CLOSE_WRITE", "CLOSE"}
  /\ Allowed("refused") = {"CLOSE"} /\ Allowed("halfclosed") = {"CLOSE"}
  /\ PhaseOf("DIALOK") = "established" /\ PhaseOf("DIALREFUSED") = "refused"
  /\ PhaseOf("DATA") = "established" /\ PhaseOf("CLOSE_WRITE") = "halfclosed"
  /\ PhaseOf("CLOSE") = "closed"
  BY DEF Allowed, PhaseOf

(* What the host reads is what the phase of the ID allows.                  *)
LEMMA RecvFacts ==
  ASSUME TypeInv, FlowInv, HostRecv, NEW f, f = Head(toHost)
  PROVE  /\ toHost # <<>> /\ toHost' = Tail(toHost) /\ f = toHost[1] /\ f \in RelayFrames
         /\ f.id \in Ids /\ f.kind \in RelayKinds /\ f.n \in Nat
         /\ UNCHANGED <<host, hc, toRelay, pc, sv, r, cc>>
         /\ f.kind \in Allowed(view[f.id])
         /\ view[f.id] = "opening" => f.kind \notin {"DATA", "CLOSE_WRITE"}
         /\ view'[f.id] = PhaseOf(f.kind)
         /\ rcvd'[f.id] = IF f.kind = "DATA" THEN f.n ELSE rcvd[f.id]
         /\ \A d \in Ids \ {f.id} : view'[d] = view[d] /\ rcvd'[d] = rcvd[d]
<1>1. EnvType
  BY DEF TypeInv
<1>2. /\ toHost # <<>> /\ toHost' = Tail(toHost)
      /\ UNCHANGED <<host, hc, toRelay, pc, sv, r, cc>>
      /\ view' = [view EXCEPT ![f.id] = PhaseAfter(@, f.kind)]
      /\ rcvd' = IF f.kind = "DATA" THEN [rcvd EXCEPT ![f.id] = f.n] ELSE rcvd
  BY DEF HostRecv
<1>3. f = toHost[1] /\ 1 \in DOMAIN toHost /\ f \in RelayFrames
  BY <1>1, <1>2, TailFacts DEF EnvType
<1>4. f.id \in Ids /\ f.kind \in RelayKinds /\ f.n \in Nat
  BY <1>3 DEF RelayFrames
<1>5. f.kind \in Allowed(view[f.id]) /\ view[f.id] \in Views
  BY <1>3, <1>4 DEF FlowInv
<1>6. view[f.id] = "opening" => f.kind \notin {"DATA", "CLOSE_WRITE"}
  BY <1>3, SMT DEF FlowInv
<1>7. PhaseAfter(view[f.id], f.kind) = PhaseOf(f.kind)
  <2>1. view[f.id] \in {"opening", "established", "refused", "halfclosed"}
    BY <1>5, AllowedFacts DEF Views
  <2>2. CASE view[f.id] = "opening"
    BY <2>2, <1>4, <1>6, AllowedFacts DEF PhaseAfter, RelayKinds
  <2>3. CASE view[f.id] = "established"
    BY <2>3, <1>5, AllowedFacts DEF PhaseAfter
  <2>4. CASE view[f.id] \in {"refused", "halfclosed"}
    BY <2>4, <1>5, AllowedFacts DEF PhaseAfter
  <2> QED
    BY <2>1, <2>2, <2>3, <2>4
<1>8. /\ view'[f.id] = PhaseOf(f.kind)
      /\ \A d \in Ids \ {f.id} : view'[d] = view[d]
  BY <1>1, <1>2, <1>4, <1>7 DEF EnvType
<1>9. /\ rcvd'[f.id] = IF f.kind = "DATA" THEN f.n ELSE rcvd[f.id]
      /\ \A d \in Ids \ {f.id} : rcvd'[d] = rcvd[d]
  BY <1>1, <1>2, <1>4 DEF EnvType
<1> QED
  BY <1>2, <1>3, <1>4, <1>5, <1>6, <1>8, <1>9

(* What follows still fits the new phase.                                   *)
LEMMA RecvFlow ==
  ASSUME Inv, TypeInv', HostRecv
  PROVE  /\ FlowInv'
         /\ \A d \in Ids : Fresh(d) => Fresh(d)'
         /\ \A d \in Ids, k \in RelayKinds : CanSend(d, k) => CanSend(d, k)'
<1>0. PICK f : f = Head(toHost)
  OBVIOUS
<1>1. FlowInv /\ TypeInv
  BY DEF Inv, CInv
<1>2. /\ toHost # <<>> /\ toHost' = Tail(toHost) /\ f = toHost[1] /\ f.id \in Ids
      /\ f.kind \in RelayKinds /\ view'[f.id] = PhaseOf(f.kind)
      /\ \A d \in Ids \ {f.id} : view'[d] = view[d]
  BY <1>0, <1>1, RecvFacts
<1>3. PhaseOf(f.kind) \in Views \ {"opening"}
  BY DEF PhaseOf, Views
<1>4. /\ 1 \in DOMAIN toHost
      /\ \A i \in DOMAIN toHost' : /\ i \in Nat /\ i + 1 \in DOMAIN toHost /\ 1 < i + 1
                                   /\ toHost'[i] = toHost[i + 1] /\ toHost'[i].id \in Ids
      /\ \A i \in DOMAIN toHost : /\ i \in Nat
                                  /\ i # 1 => /\ i - 1 \in DOMAIN toHost'
                                              /\ toHost[i] = toHost'[i - 1]
  <2>1. toHost \in Seq(RelayFrames) /\ toHost' \in Seq(RelayFrames)
    BY DEF Inv, TypeInv, EnvType
  <2>2. \A i \in DOMAIN toHost' : toHost'[i] \in RelayFrames
    BY <2>1, SMT
  <2>3. \A i \in DOMAIN toHost' : toHost'[i].id \in Ids
    BY <2>2 DEF RelayFrames
  <2>4. \A i \in DOMAIN toHost' : i \in Nat /\ 1 < i + 1
    BY <2>1, SMT
  <2> QED
    BY <1>2, <2>1, <2>3, <2>4, TailFacts, SMT
<1>5. FlowInv'
  <2>1. \A d \in Ids : view'[d] \in Views
    BY <1>1, <1>2, <1>3 DEF FlowInv
  <2>2. \A i \in DOMAIN toHost' : toHost'[i].kind \in Allowed(view'[toHost'[i].id])
    <3> TAKE i \in DOMAIN toHost'
    <3>1. CASE toHost'[i].id = f.id
      BY <3>1, <1>1, <1>2, <1>4, SMT DEF FlowInv, Of
    <3>2. CASE toHost'[i].id # f.id
      BY <3>2, <1>1, <1>2, <1>4, SMT DEF FlowInv
    <3> QED
      BY <3>1, <3>2
  <2>3. \A i, j \in DOMAIN toHost' :
          i < j /\ toHost'[j].id = toHost'[i].id =>
            toHost'[j].kind \in Allowed(PhaseOf(toHost'[i].kind))
    <3> TAKE i, j \in DOMAIN toHost'
    <3> HAVE i < j /\ toHost'[j].id = toHost'[i].id
    <3>1. i + 1 < j + 1 /\ Of(toHost[i + 1].id, j + 1)
      BY <1>4, SMT DEF Of
    <3> QED
      BY <3>1, <1>1, <1>4 DEF FlowInv
  <2>4. \A i \in DOMAIN toHost' :
          toHost'[i].kind \in {"DATA", "CLOSE_WRITE"} /\ view'[toHost'[i].id] = "opening" =>
            \E j \in 1 .. i - 1 : toHost'[j].id = toHost'[i].id /\ toHost'[j].kind = "DIALOK"
    <3> TAKE i \in DOMAIN toHost'
    <3> HAVE toHost'[i].kind \in {"DATA", "CLOSE_WRITE"} /\ view'[toHost'[i].id] = "opening"
    <3>1. toHost'[i].id # f.id /\ view[toHost[i + 1].id] = "opening"
      BY <1>2, <1>3, <1>4, SMT
    <3>2. PICK j \in 1 .. (i + 1) - 1 : Of(toHost[i + 1].id, j) /\ toHost[j].kind = "DIALOK"
      BY <3>1, <1>1, <1>4 DEF FlowInv
    <3>3. j # 1
      BY <3>1, <3>2, <1>2, <1>4 DEF Of
    <3>4. j \in DOMAIN toHost /\ j - 1 \in 1 .. i - 1
      <4>1. toHost \in Seq(RelayFrames)
        BY DEF Inv, TypeInv, EnvType
      <4>a. DOMAIN toHost = 1 .. Len(toHost) /\ i \in Nat /\ i + 1 \in DOMAIN toHost
        BY <4>1, <1>4, SMT
      <4>2. i \in Nat /\ i + 1 \in 1 .. Len(toHost) /\ DOMAIN toHost = 1 .. Len(toHost)
        BY <4>a
      <4>3. j \in Int /\ 1 <= j /\ j <= i /\ Len(toHost) \in Nat
        BY <4>1, <4>2, SMT
      <4> QED
        BY <4>2, <4>3, <3>3, SMT
    <3>5. toHost'[j - 1] = toHost[j]
      BY <3>3, <3>4, <1>4
    <3> QED
      BY <3>2, <3>4, <3>5, <1>4 DEF Of
  <2> QED
    BY <2>1, <2>2, <2>3, <2>4 DEF FlowInv, Of
<1>6. ASSUME NEW d \in Ids, Fresh(d) PROVE Fresh(d)'
  <2>1. d # f.id
    BY <1>2, <1>4, <1>6 DEF Fresh, NoFrames, Of
  <2> QED
    BY <2>1, <1>2, <1>4, <1>6, SMT DEF Fresh, NoFrames, Of
<1>7. ASSUME NEW d \in Ids, NEW k \in RelayKinds, CanSend(d, k) PROVE CanSend(d, k)'
  <2>1. \A i \in DOMAIN toHost' : toHost'[i].id = d => k \in Allowed(PhaseOf(toHost'[i].kind))
    BY <1>4, <1>7 DEF CanSend, Of
  <2>2. k \in Allowed(view'[d])
    <3>1. CASE d = f.id
      BY <3>1, <1>2, <1>4, <1>7 DEF CanSend, Of
    <3>2. CASE d # f.id
      BY <3>2, <1>2, <1>7 DEF CanSend
    <3> QED
      BY <3>1, <3>2
  <2>3. ASSUME k \in {"DATA", "CLOSE_WRITE"}, view'[d] = "opening"
        PROVE  \E i \in DOMAIN toHost' : toHost'[i].id = d /\ toHost'[i].kind = "DIALOK"
    <3>1. d # f.id /\ view[d] = "opening"
      BY <2>3, <1>2, <1>3
    <3>2. PICK j \in DOMAIN toHost : Of(d, j) /\ toHost[j].kind = "DIALOK"
      BY <2>3, <3>1, <1>7 DEF CanSend
    <3>3. j # 1
      BY <3>1, <3>2, <1>2 DEF Of
    <3> QED
      BY <3>2, <3>3, <1>4 DEF Of
  <2> QED
    BY <2>1, <2>2, <2>3 DEF CanSend, Of
<1> QED
  BY <1>5, <1>6, <1>7


(* The payloads that follow still have no gap.                              *)
LEMMA RecvPayload ==
  ASSUME Inv, TypeInv', HostRecv
  PROVE  PayloadInv'
<1>0. PICK f : f = Head(toHost)
  OBVIOUS
<1>1. FlowInv /\ TypeInv
  BY DEF Inv, CInv
<1>2. /\ toHost # <<>> /\ toHost' = Tail(toHost) /\ f = toHost[1] /\ f.id \in Ids
      /\ f.n \in Nat /\ UNCHANGED <<hc, pc, cc>>
      /\ rcvd'[f.id] = IF f.kind = "DATA" THEN f.n ELSE rcvd[f.id]
      /\ \A d \in Ids \ {f.id} : rcvd'[d] = rcvd[d]
  BY <1>0, <1>1, RecvFacts
<1>3. toHost \in Seq(RelayFrames) /\ toHost' \in Seq(RelayFrames)
  BY DEF Inv, TypeInv, EnvType
<1>4. /\ 1 \in DOMAIN toHost
      /\ \A i \in DOMAIN toHost' : /\ i \in Nat /\ i + 1 \in DOMAIN toHost /\ 1 < i + 1
                                   /\ toHost'[i] = toHost[i + 1]
  <2>1. \A i \in DOMAIN toHost' : i \in Nat /\ 1 < i + 1
    BY <1>3, SMT
  <2> QED
    BY <1>2, <1>3, <2>1, TailFacts
<1>5. ASSUME NEW j \in DOMAIN toHost, j # 1
      PROVE  j - 1 \in DOMAIN toHost' /\ toHost[j] = toHost'[j - 1]
  BY <1>2, <1>3, <1>5, TailFacts
<1>6. \A i \in DOMAIN toHost : toHost[i].n \in Nat
  <2>1. \A i \in DOMAIN toHost : toHost[i] \in RelayFrames
    BY <1>3, SMT
  <2> QED
    BY <2>1 DEF RelayFrames
<1> SUFFICES ASSUME NEW c \in Conns, Gen(c) = hc'[Id(c)].gen PROVE DataInv(c)'
  BY DEF PayloadInv
<1> DEFINE id == Id(c)
<1>7. id \in Ids
  BY OwnerFacts
<1>8. DataInv(c) /\ (Reading(c)' <=> Reading(c)) /\ Written(c)' = Written(c) /\ cc' = cc
  BY <1>2 DEF Inv, CInv, PayloadInv, Reading, Written
<1>9. rcvd[id] \in Nat /\ rcvd'[id] \in Nat
  BY <1>7 DEF Inv, TypeInv, EnvType
<1>10. Written(c) \in Int
  BY SMT DEF Inv, TypeInv, CarriedType, Carried, Written
(* The head's payload, if any, is the next one.                             *)
<1>11. \/ IsData(id, 1) /\ rcvd'[id] = toHost[1].n /\ rcvd'[id] = rcvd[id] + 1
       \/ ~IsData(id, 1) /\ rcvd'[id] = rcvd[id]
  <2>1. CASE IsData(id, 1)
    <3>1. rcvd'[id] = f.n /\ toHost[1] = f
      BY <2>1, <1>2 DEF IsData, Of
    <3>2. /\ rcvd[id] < f.n
          /\ \A l \in rcvd[id] + 1 .. f.n : \E j \in 1 .. 1 : Payload(id, j, l)
      BY <2>1, <3>1, <1>4, <1>8 DEF DataInv
    <3>3. \A l \in rcvd[id] + 1 .. f.n : l = f.n
      <4> TAKE l \in rcvd[id] + 1 .. f.n
      <4>1. PICK j \in 1 .. 1 : Payload(id, j, l)
        BY <3>2
      <4>2. j = 1
        BY SMT
      <4> QED
        BY <4>1, <4>2, <3>1 DEF Payload
    <3>4. rcvd[id] + 1 \in rcvd[id] + 1 .. f.n
      BY <3>2, <1>2, <1>9, SMT
    <3> QED
      BY <2>1, <3>1, <3>3, <3>4
  <2>2. CASE ~IsData(id, 1)
    BY <2>2, <1>2, <1>7 DEF IsData, Of
  <2> QED
    BY <2>1, <2>2
<1>12. ASSUME NEW i \in DOMAIN toHost'
       PROVE  IsData(id, i)' <=> IsData(id, i + 1)
  BY <1>4 DEF IsData, Of
(* The payloads ahead of a frame, without the head's.                       *)
<1>13. ASSUME NEW m \in Nat, NEW l \in rcvd'[id] + 1 .. m, NEW i \in Nat, i <= Len(toHost),
              \E j \in 1 .. i : Payload(id, j, l)
       PROVE  \E j \in 1 .. i - 1 : Payload(id, j, l)'
  <2>1. PICK j \in 1 .. i : Payload(id, j, l)
    BY <1>13
  <2>2. j \in DOMAIN toHost /\ j \in Nat /\ 1 <= j /\ j <= i
    BY <1>3, <1>13, SMT
  <2>3. l > rcvd'[id]
    BY <1>9, SMT
  <2>4. j # 1
    BY <2>1, <2>3, <1>9, <1>11, SMT DEF Payload
  <2>5. j - 1 \in 1 .. i - 1 /\ toHost[j] = toHost'[j - 1]
    BY <2>2, <2>4, <1>5, SMT
  <2>6. Payload(id, j - 1, l)'
    BY <2>1, <2>5 DEF Payload, IsData, Of
  <2> QED
    BY <2>5, <2>6
<1> DEFINE w == Written(c)
<1>14. rcvd'[id] <= w
  BY <1>4, <1>8, <1>11 DEF DataInv
<1>15. ASSUME NEW i \in DOMAIN toHost', IsData(id, i)'
       PROVE  /\ rcvd'[id] < toHost'[i].n /\ toHost'[i].n <= w
              /\ \A l \in rcvd'[id] + 1 .. toHost'[i].n : \E j \in 1 .. i : Payload(id, j, l)'
  <2>1. /\ i + 1 \in DOMAIN toHost /\ IsData(id, i + 1) /\ toHost'[i] = toHost[i + 1]
        /\ 1 < i + 1 /\ 1 \in DOMAIN toHost /\ i \in Nat /\ i + 1 <= Len(toHost)
    BY <1>3, <1>4, <1>12, <1>15, SMT
  <2>2. /\ rcvd[id] < toHost[i + 1].n /\ toHost[i + 1].n <= w
        /\ \A l \in rcvd[id] + 1 .. toHost[i + 1].n : \E j \in 1 .. i + 1 : Payload(id, j, l)
    BY <2>1, <1>8 DEF DataInv
  <2>3. IsData(id, 1) => toHost[1].n < toHost[i + 1].n
    BY <2>1, <1>8 DEF DataInv
  <2>4. rcvd'[id] < toHost[i + 1].n
    BY <2>2, <2>3, <1>11
  <2>5. ASSUME NEW l \in rcvd'[id] + 1 .. toHost[i + 1].n
        PROVE  \E j \in 1 .. i : Payload(id, j, l)'
    <3>1. l \in rcvd[id] + 1 .. toHost[i + 1].n /\ toHost[i + 1].n \in Nat
      BY <2>1, <1>6, <1>9, <1>11, SMT
    <3>2. \E j \in 1 .. i + 1 : Payload(id, j, l)
      BY <2>2, <3>1
    <3>3. i + 1 \in Nat /\ (i + 1) - 1 = i
      BY <2>1, SMT
    <3>4. \E j \in 1 .. (i + 1) - 1 : Payload(id, j, l)'
      BY <2>1, <2>5, <3>1, <3>2, <3>3, <1>13
    <3> QED
      BY <3>3, <3>4
  <2> QED
    BY <2>1, <2>2, <2>4, <2>5
<1>16. ASSUME NEW i \in DOMAIN toHost', NEW j \in DOMAIN toHost', IsData(id, i)', IsData(id, j)',
              i < j
       PROVE  toHost'[i].n < toHost'[j].n
  <2>1. /\ IsData(id, i + 1) /\ IsData(id, j + 1) /\ i + 1 < j + 1
        /\ i + 1 \in DOMAIN toHost /\ j + 1 \in DOMAIN toHost
        /\ toHost'[i] = toHost[i + 1] /\ toHost'[j] = toHost[j + 1]
    BY <1>4, <1>12, <1>16, SMT
  <2> QED
    BY <2>1, <1>8 DEF DataInv
<1>17. ASSUME Reading(c), NEW l \in rcvd'[id] + 1 .. w
       PROVE  \E j \in DOMAIN toHost' : Payload(id, j, l)'
  <2>1. l \in rcvd[id] + 1 .. w
    BY <1>9, <1>10, <1>11, SMT
  <2>2. PICK j \in DOMAIN toHost : Payload(id, j, l)
    BY <2>1, <1>8, <1>17 DEF DataInv
  <2>3. l > rcvd'[id]
    BY <1>9, <1>10, SMT
  <2>4. j # 1
    BY <2>2, <2>3, <1>9, <1>11, SMT DEF Payload
  <2>5. j - 1 \in DOMAIN toHost' /\ toHost[j] = toHost'[j - 1]
    BY <2>4, <1>5
  <2> QED
    BY <2>2, <2>5 DEF Payload, IsData, Of
<1>18. ASSUME NEW i \in DOMAIN toHost', Of(id, i)', toHost'[i].kind = "CLOSE_WRITE",
              NEW l \in rcvd'[id] + 1 .. cc[c].sent
       PROVE  \E j \in 1 .. i - 1 : Payload(id, j, l)'
  <2>1. /\ i + 1 \in DOMAIN toHost /\ Of(id, i + 1) /\ toHost[i + 1].kind = "CLOSE_WRITE"
        /\ i \in Nat /\ i + 1 <= Len(toHost)
    BY <1>3, <1>4, <1>18, SMT DEF Of
  <2>2. cc[c].sent \in Nat
    BY DEF Inv, TypeInv, CarriedType, Carried
  <2>3. l \in rcvd[id] + 1 .. cc[c].sent
    BY <2>2, <1>9, <1>11, SMT
  <2>4. \E j \in 1 .. (i + 1) - 1 : Payload(id, j, l)
    BY <2>1, <2>3, <1>8 DEF DataInv
  <2>5. (i + 1) - 1 = i /\ i <= Len(toHost)
    BY <2>1, <1>3, SMT
  <2> QED
    BY <2>1, <2>2, <2>4, <2>5, <1>13, <1>18
<1> HIDE DEF w
<1> QED
  BY <1>2, <1>8, <1>14, <1>15, <1>16, <1>17, <1>18 DEF DataInv, w, Of


(* The host's reading preserves the invariant.                              *)
LEMMA HostRecvInv ==
  ASSUME Inv, TypeInv', HostRecv
  PROVE  Inv'
<1>1. UNCHANGED <<host, hc, toRelay, pc, sv, r, cc>>
  BY DEF HostRecv
<1>2. RelayInv' /\ FaultInv'
  BY <1>1, SameRelayInv, SameFaultInv DEF Inv, SameRelayState, SameFaults
<1>3. ConnInv'
  BY <1>1 DEF Inv, CInv, ConnInv, PairInv, MapInv, GenInv, Stopped, Active, Retiring
<1>4. /\ FlowInv'
      /\ \A d \in Ids : Fresh(d) => Fresh(d)'
      /\ \A d \in Ids, k \in RelayKinds : CanSend(d, k) => CanSend(d, k)'
  BY RecvFlow
<1>5. \A c \in Conns : /\ Fresh(Id(c)) => Fresh(Id(c))'
                       /\ CanSend(Id(c), "CLOSE") => CanSend(Id(c), "CLOSE")'
                       /\ CanSend(Id(c), "DATA") => CanSend(Id(c), "DATA")'
  BY <1>4, OwnerFacts DEF RelayKinds
<1>6. WriteInv'
  BY <1>1, <1>5 DEF Inv, CInv, WriteInv, SendInv, Active, Reading
<1>7. RefuseInv'
  BY <1>1, <1>5 DEF Inv, CInv, RefuseInv, Refusing
<1>8. OpenInv'
  BY <1>1, <1>5 DEF Inv, CInv, OpenInv, Refusing, Awaits, Opens
<1> QED
  BY <1>2, <1>3, <1>4, <1>6, <1>7, <1>8, RecvPayload DEF Inv, CInv

(* All steps of the host preserve the invariant.                            *)
LEMMA HostInv ==
  ASSUME Inv, Host
  PROVE  Inv'
<1>1. TypeInv'
  BY TypeHost DEF Inv
<1>2. CASE HostRecv
  BY <1>1, <1>2, HostRecvInv
<1>3. CASE \E id \in Ids : HostOpen(id)
  BY <1>1, <1>3, HostOpenInv
<1>4. CASE \E id \in Ids : HostData(id) \/ \E k \in {"CLOSE_WRITE", "CLOSE"} : HostControl(id, k)
  BY <1>1, <1>4, HostSendInv
<1>5. CASE HostBad \/ HostVanish
  BY <1>1, <1>5, HostSendInv
<1> QED
  BY <1>2, <1>3, <1>4, <1>5 DEF Host


-----------------------------------------------------------------------------
(* Serve reads a frame.                                                     *)
LEMMA FreshCanSend ==
  ASSUME NEW id, Fresh(id)
  PROVE  CanSend(id, "CLOSE")
  BY AllowedFacts DEF Fresh, NoFrames, CanSend, RelayKinds

(* The socket after a frame was read.                                       *)
LEMMA TailSocket ==
  ASSUME TypeInv, toRelay # <<>>, toRelay' = Tail(toRelay)
  PROVE  /\ OpensFrom(1) /\ Head(toRelay) = toRelay[1] /\ 1 \in DOMAIN toRelay
         /\ \A i \in DOMAIN toRelay' : /\ i + 1 \in DOMAIN toRelay /\ i + 1 # 1
                                       /\ toRelay'[i] = toRelay[i + 1]
<1>1. toRelay \in Seq(HostFrames \cup {BadFrame})
  BY DEF TypeInv, EnvType
<1>2. /\ Head(toRelay) = toRelay[1] /\ 1 \in DOMAIN toRelay
      /\ \A i \in DOMAIN Tail(toRelay) : /\ i + 1 \in DOMAIN toRelay /\ i + 1 > 1
                                         /\ Tail(toRelay)[i] = toRelay[i + 1]
  BY <1>1, TailFacts
<1>3. \A i \in DOMAIN toRelay' : i + 1 # 1
  BY <1>1, SMT
<1> QED
  BY <1>2, <1>3 DEF OpensFrom

(* The OPENs behind the one that Serve reads are of other IDs.              *)
LEMMA OtherOpens ==
  ASSUME TypeInv, OpenInv, toRelay # <<>>, toRelay' = Tail(toRelay), NEW f \in HostFrames,
         f = Head(toRelay), f.kind = "OPEN", NEW c \in Conns, Awaits(c)'
  PROVE  Awaits(c) /\ Id(c) # f.id
<1>1. \A i \in DOMAIN toRelay' : /\ i + 1 \in DOMAIN toRelay /\ i + 1 # 1
                                 /\ toRelay'[i] = toRelay[i + 1]
  BY TailSocket
<1>2. \A i \in DOMAIN toRelay : Opens(i) /\ toRelay[i].id = f.id => i = 1
  BY HeadOpen
<1> QED
  BY <1>1, <1>2 DEF Awaits, Opens

(* dispatch registers a connection and starts its worker.                   *)
LEMMA RegisterInv ==
  ASSUME Inv, TypeInv', UNCHANGED <<host, hc, view, rcvd, toHost>>, pc[Serve] = "read",
         toRelay # <<>>, toRelay' = Tail(toRelay), NEW f \in HostFrames, f = Head(toRelay),
         Registers(f)
  PROVE  Inv'
<1>1. f.kind = "OPEN" /\ ~r.done /\ Kept(r') = Kept(r) /\ r'.writeMu = r.writeMu
      /\ UNCHANGED <<sv, cc>> /\ r'.conns = [r.conns EXCEPT ![f.id] = f.gen]
  BY DEF Registers
<1>2. f.id \in Ids /\ f.gen \in 1 .. MaxGen
  BY DEF HostFrames
<1>3. PICK c \in Conns : c = <<f.id, f.gen>> /\ Id(c) = f.id /\ Gen(c) = f.gen
  BY <1>2, ConnFacts
<1>4. /\ Gen(c) = hc[Id(c)].gen /\ Fresh(Id(c)) /\ r.conns[Id(c)] = 0 /\ pc[Worker(c)] = "off"
  BY <1>1, <1>3, HeadOpen, SMT DEF Inv, CInv
<1>5. /\ pc'[Worker(c)] = "dial" /\ pc'[Serve] = "read" /\ pc'[Closer] = pc[Closer]
      /\ \A d \in Conns : pc'[Reader(d)] = pc[Reader(d)]
      /\ \A d \in Conns \ {c} : pc'[Worker(d)] = pc[Worker(d)]
  <2>1. pc \in [Procs -> Labels] /\ "dial" \in Labels
    BY DEF Inv, TypeInv, PcType, Labels, WorkerLabels
  <2>2. Goto(Worker(c), "dial")
    BY <1>3 DEF Registers
  <2> QED
    BY <2>1, <2>2, WorkerMoves
<1>6. /\ r'.conns[Id(c)] = Gen(c) /\ \A d \in Ids \ {Id(c)} : r'.conns[d] = r.conns[d]
  <2>1. r.conns \in [Ids -> 0 .. MaxGen]
    BY DEF Inv, TypeInv, RelayType
  <2> QED
    BY <2>1, <1>1, <1>2, <1>3
<1>7. \A d \in Conns : Id(d) \in Ids /\ Gen(d) # 0 /\ (Id(d) = Id(c) /\ Gen(d) = Gen(c) => d = c)
  BY OwnerFacts, SMT
<1>8. RelayInv'
  BY <1>1, <1>5, KeptFacts DEF Inv, RelayInv
<1>9. FaultInv'
  <2>1. \A i \in DOMAIN toRelay' : i + 1 \in DOMAIN toRelay /\ toRelay'[i] = toRelay[i + 1]
    BY TailSocket DEF Inv
  <2> QED
    BY <1>1, <2>1, KeptFacts, SameFaultInv, SMT DEF Inv, SameFaults
<1>10. ConnInv'
  <2> SUFFICES ASSUME NEW d \in Conns PROVE (PairInv(d) /\ MapInv(d) /\ GenInv(d))'
    BY DEF ConnInv
  <2>1. PairInv(d) /\ MapInv(d) /\ GenInv(d)
    BY DEF Inv, CInv, ConnInv
  <2>2. CASE d = c
    <3>1. PairInv(c)'
      BY <2>1, <2>2, <1>1, <1>4, <1>5 DEF PairInv, Stopped
    <3>2. MapInv(c)'
      BY <1>5, <1>6 DEF MapInv, Active, Retiring
    <3>3. hc[Id(c)].gen \in Int
      BY <1>4, OwnerFacts, SMT
    <3>4. GenInv(c)'
      BY <3>3, <1>4, SMT DEF GenInv
    <3> QED
      BY <2>2, <3>1, <3>2, <3>4
  <2>3. CASE d # c
    <3>1. PairInv(d)' /\ GenInv(d)'
      BY <2>1, <2>3, <1>1, <1>5 DEF PairInv, GenInv, Stopped
    <3>2. MapInv(d)'
      <4>1. CASE Id(d) = Id(c)
        BY <4>1, <2>1, <2>3, <1>1, <1>4, <1>5, <1>6, <1>7, SMT DEF MapInv, Active, Retiring
      <4>2. CASE Id(d) # Id(c)
        BY <4>2, <2>1, <2>3, <1>1, <1>5, <1>6, <1>7 DEF MapInv, Active, Retiring
      <4> QED
        BY <4>1, <4>2
    <3> QED
      BY <3>1, <3>2
  <2> QED
    BY <2>2, <2>3
<1>11. FlowInv'
  BY DEF Inv, CInv, FlowInv, Of
<1>12. \A d \in Conns : /\ Fresh(Id(d))' <=> Fresh(Id(d))
                        /\ \A k : CanSend(Id(d), k)' <=> CanSend(Id(d), k)
  BY DEF Fresh, NoFrames, CanSend, Of
<1>13. WriteInv'
  <2> SUFFICES ASSUME NEW d \in Conns PROVE SendInv(d)'
    BY DEF WriteInv
  <2>1. SendInv(d) /\ (Reading(d)' <=> Reading(d))
    BY <1>5 DEF Inv, CInv, WriteInv, Reading
  <2>2. CASE d = c
    BY <2>1, <2>2, <1>4, <1>12, FreshCanSend DEF SendInv
  <2>3. CASE d # c
    BY <2>1, <2>3, <1>5, <1>12 DEF SendInv, Active
  <2> QED
    BY <2>2, <2>3
<1>14. RefuseInv'
  BY <1>5 DEF RefuseInv, Refusing
<1>15. OpenInv'
  <2>1. ASSUME NEW d \in Conns, Awaits(d)'
        PROVE  (/\ Gen(d) = hc[Id(d)].gen /\ r.conns[Id(d)] = 0 /\ pc[Worker(d)] = "off"
                /\ Fresh(Id(d)) /\ ~(Refusing /\ Id(sv.c) = Id(d)))'
    <3>1. Awaits(d) /\ Id(d) # Id(c)
      BY <2>1, <1>1, <1>3, OtherOpens, SMT DEF Inv, CInv
    <3>2. /\ Gen(d) = hc[Id(d)].gen /\ r.conns[Id(d)] = 0 /\ pc[Worker(d)] = "off"
          /\ Fresh(Id(d))
      BY <3>1 DEF Inv, CInv, OpenInv
    <3>3. ~Refusing'
      BY <1>5 DEF Refusing
    <3> QED
      BY <3>1, <3>2, <3>3, <1>5, <1>6, <1>7, <1>12
  <2>2. ASSUME NEW i \in DOMAIN toRelay', NEW j \in DOMAIN toRelay', Opens(i)', Opens(j)',
               toRelay'[i].id = toRelay'[j].id
        PROVE  i = j
    <3>1. TypeInv /\ OpenInv /\ OpensFrom(1)
      BY TailSocket DEF Inv, CInv
    <3> QED
      BY <2>2, <3>1, TailOpens
  <2> QED
    BY <2>1, <2>2 DEF OpenInv
<1>16. PayloadInv'
  BY <1>1, <1>5, SMT DEF Inv, CInv, PayloadInv, DataInv, IsData, Payload, Of, Written, Reading
<1> QED
  BY <1>8, <1>9, <1>10, <1>11, <1>13, <1>14, <1>15, <1>16 DEF Inv, CInv


(* serve's reading of a frame preserves the invariant.                      *)
LEMMA ServeReadInv ==
  ASSUME Inv, ServeRead
  PROVE  Inv'
<1>1. PICK f : f = Head(toRelay)
  OBVIOUS
<1>2. TypeInv /\ OpenInv /\ CInv /\ FaultInv
  BY DEF Inv, CInv
<1>3. TypeInv'
  BY <1>2, TypeServeRead
<1>4. /\ UNCHANGED <<plan, host, hc, view, rcvd, toHost>> /\ pc[Serve] = "read"
      /\ toRelay # <<>> /\ toRelay' = Tail(toRelay)
      /\ f \in HostFrames \cup {BadFrame}
      /\ \/ UNCHANGED <<pc, sv, r, cc>>
         \/ Fails(f) \/ Refuses(f) \/ Registers(f) \/ Delivers(f)
  BY <1>1, <1>2, ReadFacts
<1>5. /\ OpensFrom(1) /\ f = toRelay[1] /\ 1 \in DOMAIN toRelay
      /\ \A i \in DOMAIN toRelay' : i + 1 \in DOMAIN toRelay /\ toRelay'[i] = toRelay[i + 1]
  BY <1>1, <1>2, <1>4, TailSocket
<1>6. CASE Registers(f)
  BY <1>1, <1>3, <1>4, <1>6, RegisterInv DEF Registers
<1>7. ASSUME UNCHANGED r, PumpsStay, pc'[Closer] = pc[Closer],
             pc'[Serve] \in {"read", "sd", "refuse", "enqueue", "closeguest"}
      PROVE  RelayInv'
  BY <1>4, <1>7, SameRelayInv DEF Inv, SameRelayState, PumpsStay
<1>8. ASSUME UNCHANGED r, sv'.err = sv.err PROVE FaultInv'
  BY <1>2, <1>4, <1>5, <1>8, SameFaultInv DEF SameFaults
<1>9. ASSUME UNCHANGED r, PumpsStay,
             \A c \in Conns : cc'[c].guest = cc[c].guest /\ cc'[c].sent = cc[c].sent
      PROVE  SameConns
  BY <1>4, <1>9 DEF SameConns
<1>10. ASSUME NEW l \in {"sd", "refuse", "enqueue", "closeguest"}, Goto(Serve, l)
       PROVE  pc'[Serve] = l /\ PumpsStay /\ pc'[Closer] = pc[Closer]
  <2>1. pc \in [Procs -> Labels] /\ l \in Labels /\ Serve \in {Serve, Closer, Monitor}
    BY <1>2 DEF TypeInv, PcType, Labels, ServeLabels
  <2> QED
    BY <2>1, <1>10, OtherMoves, ProcFacts DEF PumpsStay
<1>11. CASE UNCHANGED <<pc, sv, r, cc>>
  <2>1. RelayInv' /\ FaultInv' /\ SameConns /\ RefusingFrom
    BY <1>4, <1>7, <1>8, <1>9, <1>11 DEF PumpsStay, RefusingFrom
  <2>2. CInv'
    BY <2>1, <1>2, <1>3, <1>5, SameInv
  <2> QED
    BY <2>1, <2>2, <1>3 DEF Inv
<1>12. CASE Fails(f)
  <2>1. f = BadFrame
    <3> SUFFICES ASSUME f \in HostFrames, f.kind = "OPEN", f.id \in Live PROVE FALSE
      BY <1>12 DEF Fails
    <3>1. r.conns[f.id] = 0
      BY <1>1, <1>2, <1>4, HeadOpen
    <3> QED
      BY <3>1 DEF Live
  <2>2. host.bad
    BY <2>1, <1>2, <1>5 DEF FaultInv
  <2>3. FaultInv'
    BY <2>2, <1>2, <1>4, <1>5, <1>12 DEF FaultInv, Fails, ErrorsAreTheHosts
  <2>4. pc'[Serve] = "sd" /\ PumpsStay /\ pc'[Closer] = pc[Closer] /\ UNCHANGED <<r, cc>>
    BY <1>10, <1>12 DEF Fails
  <2>5. RelayInv' /\ SameConns /\ RefusingFrom
    BY <2>4, <1>7, <1>9 DEF RefusingFrom, Refusing
  <2>6. CInv'
    BY <2>5, <1>2, <1>3, <1>5, SameInv
  <2> QED
    BY <2>3, <2>5, <2>6, <1>3 DEF Inv
<1>13. CASE Delivers(f)
  <2>1. /\ pc'[Serve] \in {"enqueue", "closeguest"} /\ PumpsStay /\ pc'[Closer] = pc[Closer]
        /\ UNCHANGED r /\ sv'.err = sv.err
    BY <1>10, <1>13 DEF Delivers
  <2>2. \A c \in Conns : cc'[c].guest = cc[c].guest /\ cc'[c].sent = cc[c].sent
    <3>1. CASE UNCHANGED cc
      BY <3>1
    <3>2. CASE cc' = [cc EXCEPT ![sv'.c] = Closing(@)]
      <4>1. f \in HostFrames /\ f.id \in Ids /\ f.id \in Live
        BY <1>13 DEF Delivers, HostFrames
      <4>2. PICK c \in Conns : c = sv'.c
        BY <4>1, <1>2, <1>13, LiveFacts DEF Delivers
      <4>3. CarriedType /\ cc[c] \in Carried
        BY <1>2 DEF TypeInv, CarriedType
      <4>4. /\ Closing(cc[c]) \in Carried /\ Closing(cc[c]).guest = cc[c].guest
            /\ Closing(cc[c]).sent = cc[c].sent
        BY <4>3, CarriedFacts
      <4>5. cc' = [cc EXCEPT ![c] = Closing(cc[c])]
        BY <3>2, <4>2, <4>3 DEF CarriedType
      <4>6. cc'[c] = Closing(cc[c]) /\ \A d \in Conns \ {c} : cc'[d] = cc[d]
        BY <4>3, <4>4, <4>5, CarriedStep
      <4> QED
        BY <4>4, <4>6
    <3> QED
      BY <3>1, <3>2, <1>13 DEF Delivers
  <2>3. RelayInv' /\ FaultInv' /\ SameConns /\ RefusingFrom
    BY <2>1, <2>2, <1>7, <1>8, <1>9 DEF RefusingFrom, Refusing
  <2>4. CInv'
    BY <2>3, <1>2, <1>3, <1>5, SameInv
  <2> QED
    BY <2>3, <2>4, <1>3 DEF Inv
<1>14. CASE Refuses(f)
  <2>1. /\ f \in HostFrames /\ f.kind = "OPEN" /\ sv'.c = <<f.id, f.gen>> /\ sv'.err = sv.err
        /\ UNCHANGED <<r, cc>> /\ pc'[Serve] = "refuse" /\ PumpsStay /\ pc'[Closer] = pc[Closer]
    BY <1>10, <1>14 DEF Refuses
  <2>2. RelayInv' /\ FaultInv' /\ SameConns
    BY <2>1, <1>7, <1>8, <1>9
  <2>3. ConnInv' /\ FlowInv' /\ WriteInv' /\ PayloadInv'
    BY <2>2, <1>2, SameRest
  <2>4. PICK c \in Conns : c = sv'.c /\ c = <<f.id, f.gen>> /\ Id(c) = f.id /\ Gen(c) = f.gen
    BY <2>1, ConnFacts DEF HostFrames
  <2>5. /\ Gen(c) = hc[Id(c)].gen /\ Fresh(Id(c)) /\ r.conns[Id(c)] = 0 /\ pc[Worker(c)] = "off"
    BY <2>1, <2>4, <1>1, <1>2, <1>4, HeadOpen
  <2>6. \A d \in Conns : /\ Fresh(Id(d))' <=> Fresh(Id(d))
                         /\ CanSend(Id(d), "CLOSE")' <=> CanSend(Id(d), "CLOSE")
    BY <2>2, SameCanSend
  <2>7. RefuseInv'
    BY <2>1, <2>4, <2>5, <2>6, <1>4, FreshCanSend DEF RefuseInv, PumpsStay
  <2>8. OpenInv'
    <3>1. ASSUME NEW d \in Conns, Awaits(d)'
          PROVE  (/\ Gen(d) = hc[Id(d)].gen /\ r.conns[Id(d)] = 0 /\ pc[Worker(d)] = "off"
                  /\ Fresh(Id(d)) /\ ~(Refusing /\ Id(sv.c) = Id(d)))'
      <4>1. Awaits(d) /\ Id(d) # Id(c)
        BY <3>1, <2>1, <2>4, <1>1, <1>2, <1>4, OtherOpens
      <4>2. /\ Gen(d) = hc[Id(d)].gen /\ r.conns[Id(d)] = 0 /\ pc[Worker(d)] = "off"
            /\ Fresh(Id(d))
        BY <4>1, <1>2 DEF OpenInv
      <4> QED
        BY <4>1, <4>2, <2>1, <2>4, <2>6, <1>4 DEF PumpsStay
    <3>2. ASSUME NEW i \in DOMAIN toRelay', NEW j \in DOMAIN toRelay', Opens(i)', Opens(j)',
                 toRelay'[i].id = toRelay'[j].id
          PROVE  i = j
      BY <3>2, <1>2, <1>3, <1>5, TailOpens
    <3> QED
      BY <3>1, <3>2 DEF OpenInv
  <2> QED
    BY <2>2, <2>3, <2>7, <2>8, <1>3 DEF Inv, CInv
<1> QED
  BY <1>4, <1>6, <1>11, <1>12, <1>13, <1>14


-----------------------------------------------------------------------------
(* A goroutine of c moves and no frame is sent: what has to be shown of c.  *)
OthersStay(c) ==
  /\ UNCHANGED <<host, hc, view, rcvd, toRelay, toHost, sv>>
  /\ Kept(r') = Kept(r) /\ pc'[Closer] = pc[Closer] /\ pc'[Serve] = pc[Serve]
  /\ \A d \in Conns \ {c} : /\ pc'[Worker(d)] = pc[Worker(d)] /\ pc'[Reader(d)] = pc[Reader(d)]
                            /\ cc'[d].guest = cc[d].guest /\ cc'[d].sent = cc[d].sent
                            /\ Retiring(d)' <=> Retiring(d)
                            /\ r'.conns[Id(d)] = Gen(d) <=> r.conns[Id(d)] = Gen(d)
  /\ \A id \in Ids : r.conns[id] = 0 => r'.conns[id] = 0

(* A connection that runs is the last incarnation of its ID, its OPEN has   *)
(* been read, and Serve is not refusing it.                                 *)
LEMMA ActiveFacts ==
  ASSUME Inv, NEW c \in Conns, Active(c)
  PROVE  /\ Gen(c) = hc[Id(c)].gen
         /\ \A d \in Conns : Id(d) = Id(c) /\ d # c =>
              Stopped(Worker(d)) /\ Stopped(Reader(d)) /\ ~Awaits(d) /\ ~(Refusing /\ sv.c = d)
         /\ ~Awaits(c) /\ ~(Refusing /\ sv.c = c)
<1>1. \A d \in Conns : Id(d) \in Ids /\ Gen(d) \in Nat /\ hc[Id(d)].gen \in Nat
  BY OwnerFacts, MaxGenFacts, SMT DEF Inv, TypeInv, EnvType
<1>2. Gen(c) = hc[Id(c)].gen
  BY <1>1, SMT DEF Inv, CInv, ConnInv, GenInv, Active, Stopped
<1>3. ASSUME NEW d \in Conns, Awaits(d) \/ (Refusing /\ sv.c = d), Id(d) = Id(c)
      PROVE  FALSE
  <2>1. Gen(d) = hc[Id(d)].gen /\ pc[Worker(d)] = "off"
    BY <1>3 DEF Inv, CInv, OpenInv, RefuseInv
  <2>2. d = c
    BY <2>1, <1>2, <1>3, SameConn
  <2> QED
    BY <2>1, <2>2 DEF Active
<1>4. ASSUME NEW d \in Conns, Id(d) = Id(c), d # c
      PROVE  Stopped(Worker(d)) /\ Stopped(Reader(d))
  <2>1. Gen(d) # hc[Id(d)].gen
    BY <1>2, <1>4, SameConn
  <2> QED
    BY <2>1, <1>1, SMT DEF Inv, CInv, ConnInv, GenInv, Stopped
<1> QED
  BY <1>2, <1>3, <1>4

(* The payloads on their way, when none is sent or read.                    *)
LEMMA SameDataInv ==
  ASSUME NEW c \in Conns, DataInv(c), UNCHANGED <<rcvd, toHost>>, Written(c)' = Written(c),
         Reading(c)' => Reading(c),
         cc'[c].sent = cc[c].sent \/ ~\E i \in DOMAIN toHost :
                                       Of(Id(c), i) /\ toHost[i].kind = "CLOSE_WRITE"
  PROVE  DataInv(c)'
<1>1. rcvd' = rcvd /\ toHost' = toHost
  OBVIOUS
<1>2. /\ \A id, i, k : Payload(id, i, k)' <=> Payload(id, i, k)
      /\ \A id, i : (IsData(id, i)' <=> IsData(id, i)) /\ (Of(id, i)' <=> Of(id, i))
  BY <1>1 DEF Payload, IsData, Of
<1>3. DataInv(c)
  OBVIOUS
<1> QED
  BY <1>1, <1>2, <1>3 DEF DataInv

(* Then the invariant is preserved if it is for c.                          *)
LEMMA LocalInv ==
  ASSUME Inv, TypeInv', NEW c \in Conns, Active(c), OthersStay(c),
         PairInv(c)', MapInv(c)', SendInv(c)',
         DataInv(c) => DataInv(c)'
  PROVE  Inv'
<1>1. /\ UNCHANGED <<host, hc, view, rcvd, toRelay, toHost, sv>>
      /\ pc'[Closer] = pc[Closer] /\ pc'[Serve] = pc[Serve]
      /\ Kept(r') = Kept(r)
  BY DEF OthersStay
<1>2. ASSUME NEW d \in Conns \ {c}
      PROVE  /\ pc'[Worker(d)] = pc[Worker(d)] /\ pc'[Reader(d)] = pc[Reader(d)]
             /\ cc'[d].guest = cc[d].guest /\ cc'[d].sent = cc[d].sent
             /\ Retiring(d)' <=> Retiring(d)
             /\ r'.conns[Id(d)] = Gen(d) <=> r.conns[Id(d)] = Gen(d)
  BY DEF OthersStay
<1>3. RelayInv'
  <2>1. SameRelayState
    BY <1>1, <1>2 DEF SameRelayState, Active, Stopped
  <2> QED
    BY <2>1, SameRelayInv DEF Inv
<1>4. FaultInv'
  BY <1>1, SameFaultInv, KeptFacts DEF Inv, SameFaults
<1>5. Gen(c) = hc[Id(c)].gen /\ ~Awaits(c) /\ ~(Refusing /\ sv.c = c)
  BY ActiveFacts
<1>6. ConnInv'
  <2> SUFFICES ASSUME NEW d \in Conns PROVE (PairInv(d) /\ MapInv(d) /\ GenInv(d))'
    BY DEF ConnInv
  <2>1. PairInv(d) /\ MapInv(d) /\ GenInv(d)
    BY DEF Inv, CInv, ConnInv
  <2>2. CASE d = c
    <3>1. Gen(c) \in Int
      BY OwnerFacts, SMT
    <3>2. GenInv(c)'
      BY <3>1, <1>1, <1>5, SMT DEF GenInv
    <3> QED
      BY <2>2, <3>2
  <2>3. CASE d # c
    <3>1. PairInv(d)'
      BY <1>2, <2>1, <2>3 DEF PairInv, Stopped
    <3>2. MapInv(d)'
      BY <1>2, <2>1, <2>3 DEF MapInv, Active
    <3>3. GenInv(d)'
      BY <1>1, <1>2, <2>1, <2>3 DEF GenInv, Stopped
    <3> QED
      BY <3>1, <3>2, <3>3
  <2> QED
    BY <2>2, <2>3
<1>7. FlowInv'
  BY <1>1 DEF Inv, CInv, FlowInv, Of
<1>8. \A d \in Conns : /\ Fresh(Id(d))' <=> Fresh(Id(d))
                       /\ \A k : CanSend(Id(d), k)' <=> CanSend(Id(d), k)
  BY <1>1 DEF Fresh, NoFrames, CanSend, Of
<1>9. WriteInv'
  <2> SUFFICES ASSUME NEW d \in Conns, d # c PROVE SendInv(d)'
    BY DEF WriteInv
  <2> QED
    BY <1>2, <1>8 DEF Inv, CInv, WriteInv, SendInv, Active, Reading
<1>10. \A d \in Conns : r.conns[Id(d)] = 0 => r'.conns[Id(d)] = 0
  BY OwnerFacts DEF OthersStay
<1>11. RefuseInv'
  BY <1>1, <1>2, <1>5, <1>8, <1>10 DEF Inv, CInv, RefuseInv, Refusing
<1>12. OpenInv'
  <2>1. Refusing' <=> Refusing
    BY <1>1 DEF Refusing
  <2>2. ASSUME NEW d \in Conns, Awaits(d)'
        PROVE  (/\ Gen(d) = hc[Id(d)].gen /\ r.conns[Id(d)] = 0 /\ pc[Worker(d)] = "off"
                /\ Fresh(Id(d)) /\ ~(Refusing /\ Id(sv.c) = Id(d)))'
    <3>1. Awaits(d) /\ d # c
      BY <2>2, <1>1, <1>5 DEF Awaits, Opens
    <3>2. /\ Gen(d) = hc[Id(d)].gen /\ r.conns[Id(d)] = 0 /\ pc[Worker(d)] = "off"
          /\ Fresh(Id(d)) /\ ~(Refusing /\ Id(sv.c) = Id(d))
      BY <3>1 DEF Inv, CInv, OpenInv
    <3> QED
      BY <3>1, <3>2, <2>1, <1>1, <1>2, <1>8, <1>10
  <2> QED
    BY <2>2, <1>1 DEF Inv, CInv, OpenInv, Opens
<1>13. PayloadInv'
  <2> SUFFICES ASSUME NEW d \in Conns, Gen(d) = hc'[Id(d)].gen PROVE DataInv(d)'
    BY DEF PayloadInv
  <2>1. DataInv(d)
    BY <1>1 DEF Inv, CInv, PayloadInv
  <2>2. CASE d # c
    <3>1. Written(d)' = Written(d) /\ (Reading(d)' <=> Reading(d)) /\ cc'[d].sent = cc[d].sent
      BY <2>2, <1>2 DEF Written, Reading
    <3> QED
      BY <2>1, <3>1, <1>1, SameDataInv
  <2> QED
    BY <2>1, <2>2
<1> QED
  BY <1>3, <1>4, <1>6, <1>7, <1>9, <1>11, <1>12, <1>13 DEF Inv, CInv

(* A worker's steps outside the writes preserve the invariant.              *)
LEMMA LocalWorkerInv ==
  ASSUME Inv, NEW c \in Conns, LocalWorker(c)
  PROVE  Inv'
<1>1. TypeInv /\ TypeInv'
  BY TypeLocal DEF Inv
<1>2. PICK l \in WorkerLabels, x \in Carried : WorkerEffect(c, l, x)
  BY <1>1, LocalWorkerEffect
<1>3. /\ UNCHANGED <<env, sv, r>> /\ Goto(Worker(c), l) /\ cc' = [cc EXCEPT ![c] = x]
      /\ WorkerEdge(pc[Worker(c)], l, cc[c].guest, x.guest) /\ x.sent = cc[c].sent
      /\ l = "retire" => Stopped(Reader(c))
  BY <1>2 DEF WorkerEffect
<1>4. /\ pc'[Worker(c)] = l /\ pc'[Serve] = pc[Serve] /\ pc'[Closer] = pc[Closer]
      /\ \A d \in Conns : pc'[Reader(d)] = pc[Reader(d)]
      /\ \A d \in Conns \ {c} : pc'[Worker(d)] = pc[Worker(d)]
  <2>1. l \in Labels /\ pc \in [Procs -> Labels]
    BY <1>1 DEF Labels, TypeInv, PcType
  <2> QED
    BY <2>1, <1>3, WorkerMoves
<1>5. cc'[c] = x /\ \A d \in Conns \ {c} : cc'[d] = cc[d]
  BY <1>1, <1>3, CarriedStep DEF TypeInv
<1>6. Active(c) /\ l \notin {"off", "done"} /\ pc[Worker(c)] \notin WriteLabels
  BY <1>3 DEF Active, WorkerEdge, WriteLabels
<1>7. r' = r /\ r.writeMu # Worker(c)
  BY <1>1, <1>3, <1>6, ProcFacts, WriteFacts DEF TypeInv, LinkType
<1>8. OthersStay(c)
  <2>1. \A d \in Conns \ {c} : Retiring(d)' <=> Retiring(d)
    BY <1>4, <1>7 DEF Retiring
  <2> QED
    BY <2>1, <1>3, <1>4, <1>5, <1>7 DEF OthersStay, env
<1>9. PairInv(c) /\ MapInv(c) /\ SendInv(c)
  BY DEF Inv, CInv, ConnInv, WriteInv
<1>10. PairInv(c)'
  <2>1. cc[c].guest \in {"none", "dialed", "open", "closed"}
    BY <1>1 DEF TypeInv, CarriedType, Carried
  <2> QED
    BY <2>1, <1>3, <1>4, <1>5, <1>9 DEF PairInv, WorkerEdge, Stopped
<1>11. MapInv(c)'
  BY <1>4, <1>6, <1>7, <1>9 DEF MapInv, Active, Retiring
<1>12. UNCHANGED <<view, rcvd, toHost>>
  BY <1>3 DEF env
<1>13. SendInv(c)'
  <2>1. (Fresh(Id(c))' <=> Fresh(Id(c))) /\ \A k : CanSend(Id(c), k)' <=> CanSend(Id(c), k)
    BY <1>12 DEF Fresh, NoFrames, CanSend, Of
  <2> QED
    BY <2>1, <1>3, <1>4, <1>6, <1>9 DEF SendInv, Active, Reading, WorkerEdge
<1>14. DataInv(c) => DataInv(c)'
  <2>1. Written(c)' = Written(c) /\ (Reading(c)' <=> Reading(c)) /\ cc'[c].sent = cc[c].sent
    BY <1>3, <1>4, <1>5, SMT DEF Written, Reading
  <2> QED
    BY <2>1, <1>12, SameDataInv
<1> QED
  BY <1>1, <1>6, <1>8, <1>10, <1>11, <1>13, <1>14, LocalInv


(* A reader's steps outside the writes preserve the invariant.              *)
LEMMA LocalReaderInv ==
  ASSUME Inv, NEW c \in Conns, LocalReader(c)
  PROVE  Inv'
<1>1. TypeInv /\ TypeInv'
  BY TypeLocal DEF Inv
<1>2. PICK l \in ReaderLabels, x \in Carried : ReaderEffect(c, l, x)
  BY <1>1, LocalReaderEffect
<1>3. /\ UNCHANGED <<env, sv, r>> /\ Goto(Reader(c), l) /\ cc' = [cc EXCEPT ![c] = x]
      /\ ReaderEdge(pc[Reader(c)], l, cc[c].sent, x.sent, cc[c].guest, x.guest)
  BY <1>2 DEF ReaderEffect
<1>4. /\ pc'[Reader(c)] = l /\ pc'[Serve] = pc[Serve] /\ pc'[Closer] = pc[Closer]
      /\ \A d \in Conns : pc'[Worker(d)] = pc[Worker(d)]
      /\ \A d \in Conns \ {c} : pc'[Reader(d)] = pc[Reader(d)]
  <2>1. l \in Labels /\ pc \in [Procs -> Labels]
    BY <1>1 DEF Labels, TypeInv, PcType
  <2> QED
    BY <2>1, <1>3, ReaderMoves
<1>5. cc'[c] = x /\ \A d \in Conns \ {c} : cc'[d] = cc[d]
  BY <1>1, <1>3, CarriedStep DEF TypeInv
<1>6. PairInv(c) /\ MapInv(c) /\ SendInv(c)
  BY DEF Inv, CInv, ConnInv, WriteInv
<1>7. pc[Reader(c)] \in {"read", "rcancel", "rclose"} /\ l # "off"
  BY <1>3 DEF ReaderEdge
<1>8. pc[Worker(c)] \in {"loop", "gwrite", "exit", "exitclose", "exitjoin"} /\ Active(c)
  BY <1>6, <1>7 DEF PairInv, Stopped, Active
<1>9. r' = r /\ UNCHANGED <<view, rcvd, toHost>>
  BY <1>3 DEF env
<1>10. OthersStay(c)
  <2>1. \A d \in Conns \ {c} : Retiring(d)' <=> Retiring(d)
    BY <1>4, <1>9 DEF Retiring
  <2> QED
    BY <2>1, <1>3, <1>4, <1>5, <1>9 DEF OthersStay, env
<1>11. PairInv(c)'
  <2>1. x.guest \in {cc[c].guest, "closed"}
    BY <1>3 DEF ReaderEdge
  <2> QED
    BY <2>1, <1>4, <1>5, <1>6, <1>7, <1>8 DEF PairInv, Stopped
<1>12. MapInv(c)'
  BY <1>4, <1>6, <1>9 DEF MapInv, Active, Retiring
<1>13. Reading(c)' => Reading(c)
  BY <1>3, <1>4 DEF Reading, ReaderEdge
<1>14. SendInv(c)'
  <2>1. (Fresh(Id(c))' <=> Fresh(Id(c))) /\ \A k : CanSend(Id(c), k)' <=> CanSend(Id(c), k)
    BY <1>9 DEF Fresh, NoFrames, CanSend, Of
  <2> QED
    BY <2>1, <1>4, <1>6, <1>13 DEF SendInv, Active
<1>15. Written(c)' = Written(c)
  <2>1. cc[c].sent \in Nat
    BY <1>1 DEF TypeInv, CarriedType, Carried
  <2> QED
    BY <2>1, <1>3, <1>4, <1>5, SMT DEF Written, ReaderEdge
<1>16. cc'[c].sent = cc[c].sent \/ ~\E i \in DOMAIN toHost :
                                      Of(Id(c), i) /\ toHost[i].kind = "CLOSE_WRITE"
  <2>1. cc'[c].sent # cc[c].sent => Reading(c)
    BY <1>3, <1>5 DEF ReaderEdge, Reading
  <2>2. CanSend(Id(c), "DATA") => ~\E i \in DOMAIN toHost :
                                      Of(Id(c), i) /\ toHost[i].kind = "CLOSE_WRITE"
    BY AllowedFacts DEF CanSend
  <2> QED
    BY <2>1, <2>2, <1>6 DEF SendInv
<1> QED
  BY <1>1, <1>8, <1>9, <1>10, <1>11, <1>12, <1>13, <1>14, <1>15, <1>16, SameDataInv, LocalInv

-----------------------------------------------------------------------------
(* The steps of a write other than the write itself.                        *)

(* The payload that a reader could not write is not among those sent.       *)
LEMMA LostData ==
  ASSUME TypeInv, NEW c \in Conns, DataInv(c), UNCHANGED <<rcvd, toHost, cc>>,
         pc[Reader(c)] = "data", pc'[Reader(c)] = "rcancel"
  PROVE  DataInv(c)'
<1>0. cc[c].sent \in Nat /\ cc' = cc
  BY DEF TypeInv, CarriedType, Carried
<1>1. /\ Written(c) = cc[c].sent - 1 /\ Written(c)' = cc[c].sent /\ cc[c].sent \in Nat
      /\ ~Reading(c)'
  BY <1>0 DEF Written, Reading
<1>2. rcvd' = rcvd /\ toHost' = toHost /\ cc' = cc
  OBVIOUS
<1>3. /\ \A id, i, k : Payload(id, i, k)' <=> Payload(id, i, k)
      /\ \A id, i : (IsData(id, i)' <=> IsData(id, i)) /\ (Of(id, i)' <=> Of(id, i))
  BY <1>2 DEF Payload, IsData, Of
<1>4. DataInv(c) /\ Id(c) \in Ids
  BY OwnerFacts
<1>5. rcvd[Id(c)] \in Nat /\ \A i \in DOMAIN toHost : toHost[i].n \in Nat
  <2>1. toHost \in Seq(RelayFrames) /\ rcvd \in [Ids -> Nat]
    BY DEF TypeInv, EnvType
  <2>2. \A i \in DOMAIN toHost : toHost[i] \in RelayFrames
    BY <2>1, SMT
  <2> QED
    BY <1>4, <2>1, <2>2 DEF RelayFrames
<1> DEFINE w == Written(c)
           v == cc[c].sent
<1>6. \A k \in Nat : k <= w => k <= v
  BY <1>1, SMT
<1> HIDE DEF w, v
<1>7. rcvd[Id(c)] <= v /\ \A i \in DOMAIN toHost : IsData(Id(c), i) => toHost[i].n <= v
  BY <1>4, <1>5, <1>6 DEF DataInv, w
<1>8. Written(c)' = v
  BY <1>1 DEF v
<1> QED
  BY <1>1, <1>2, <1>3, <1>4, <1>7, <1>8 DEF DataInv

(* Where a pump goes that takes the lock (nowhere) or that gives up.        *)
PumpHolds(c) ==
  \/ /\ pc'[Worker(c)] = pc[Worker(c)] /\ pc'[Reader(c)] = pc[Reader(c)]
     /\ pc[Worker(c)] = "retire" => r'.writeMu = Worker(c) /\ r'.conns[Id(c)] = 0
  \/ /\ pc[Worker(c)] \in {"refused", "dialok"} /\ pc'[Worker(c)] = "exit"
     /\ pc'[Reader(c)] = pc[Reader(c)]
  \/ /\ pc[Worker(c)] = "retire" /\ pc'[Worker(c)] = "done" /\ r'.conns[Id(c)] # Gen(c)
     /\ pc'[Reader(c)] = pc[Reader(c)]
  \/ /\ pc[Reader(c)] \in {"data", "closewrite"} /\ pc'[Reader(c)] = "rcancel"
     /\ pc'[Worker(c)] = pc[Worker(c)]

(* A pump that takes or gives up the lock preserves the invariant; so does  *)
(* retire's deletion of the ID.                                             *)
LEMMA PumpHoldsInv ==
  ASSUME Inv, TypeInv', NEW c \in Conns, Active(c), UNCHANGED <<env, sv, cc>>,
         Kept(r') = Kept(r), {r.writeMu, r'.writeMu} \subseteq {NoProc, Worker(c), Reader(c)},
         \/ r'.conns = r.conns
         \/ r.conns[Id(c)] = Gen(c) /\ r'.conns = [r.conns EXCEPT ![Id(c)] = 0],
         r'.conns # r.conns => pc[Worker(c)] = "retire",
         \A q \in Procs \ {Worker(c), Reader(c)} : pc'[q] = pc[q],
         PumpHolds(c)
  PROVE  Inv'
<1>1. /\ UNCHANGED <<host, hc, view, rcvd, toRelay, toHost, sv, cc>>
      /\ TypeInv /\ PairInv(c) /\ MapInv(c) /\ SendInv(c)
  BY DEF env, Inv, CInv, ConnInv, WriteInv
<1>2. /\ pc'[Serve] = pc[Serve] /\ pc'[Closer] = pc[Closer]
      /\ \A d \in Conns \ {c} : pc'[Worker(d)] = pc[Worker(d)] /\ pc'[Reader(d)] = pc[Reader(d)]
  BY ProcFacts
<1>3. \A d \in Conns : Id(d) \in Ids /\ Gen(d) # 0 /\ (Id(d) = Id(c) /\ Gen(d) = Gen(c) => d = c)
  BY OwnerFacts, SameConn, SMT
<1>4. r.conns \in [Ids -> 0 .. MaxGen]
  BY <1>1 DEF TypeInv, RelayType
<1>5. \A d \in Conns \ {c} : r'.conns[Id(d)] = Gen(d) <=> r.conns[Id(d)] = Gen(d)
  BY <1>3, <1>4
<1>6. \A id \in Ids : r.conns[id] = 0 => r'.conns[id] = 0
  BY <1>4
<1>7. \A d \in Conns \ {c} : r.writeMu # Worker(d) /\ r'.writeMu # Worker(d)
  BY ProcFacts
<1>8. OthersStay(c)
  BY <1>1, <1>2, <1>5, <1>6, <1>7 DEF OthersStay, Retiring
<1>9. PairInv(c)'
  BY <1>1 DEF PairInv, Stopped, PumpHolds, Active
<1>10. MapInv(c)'
  <2>1. pc[Worker(c)] = "retire" => Stopped(Reader(c))
    BY <1>1 DEF PairInv
  <2>2. CASE pc[Worker(c)] # "retire"
    <3>1. r'.conns = r.conns /\ r.conns[Id(c)] = Gen(c) /\ Active(c)' /\ ~Retiring(c)'
      BY <2>2, <1>1 DEF MapInv, PumpHolds, Active, Retiring
    <3> QED
      BY <3>1 DEF MapInv
  <2>3. CASE pc[Worker(c)] = "retire"
    <3>1. r'.conns[Id(c)] # Gen(c) /\ (pc'[Worker(c)] = "done" \/ Retiring(c)')
      BY <2>1, <2>3, <1>3 DEF PumpHolds, Stopped, Retiring
    <3> QED
      BY <3>1 DEF MapInv, Active
  <2> QED
    BY <2>2, <2>3
<1>11. SendInv(c)'
  <2>1. (Fresh(Id(c))' <=> Fresh(Id(c))) /\ \A k : CanSend(Id(c), k)' <=> CanSend(Id(c), k)
    BY <1>1 DEF Fresh, NoFrames, CanSend, Of
  <2>2. /\ Reading(c)' => Reading(c)
        /\ pc'[Worker(c)] \in {pc[Worker(c)], "exit", "done"}
    BY DEF Reading, PumpHolds
  <2> QED
    BY <1>1, <2>1, <2>2 DEF SendInv, Active
<1>12. ASSUME DataInv(c) PROVE DataInv(c)'
  <2>1. CASE pc[Reader(c)] = "data" /\ pc'[Reader(c)] = "rcancel"
    BY <2>1, <1>1, <1>12, LostData
  <2>2. CASE ~(pc[Reader(c)] = "data" /\ pc'[Reader(c)] = "rcancel")
    <3>1. Written(c)' = Written(c) /\ (Reading(c)' => Reading(c))
      BY <2>2, <1>1 DEF Written, Reading, PumpHolds
    <3> QED
      BY <3>1, <1>1, <1>12, SameDataInv
  <2> QED
    BY <2>1, <2>2
<1> QED
  BY <1>8, <1>9, <1>10, <1>11, <1>12, LocalInv


(* Serve takes the lock, or gives up.                                       *)
LEMMA ServeHoldsInv ==
  ASSUME Inv, TypeInv', UNCHANGED <<env, sv, cc>>, Kept(r') = Kept(r),
         {r.writeMu, r'.writeMu} \subseteq {NoProc, Serve}, r'.conns = r.conns,
         pc'[Serve] \in {pc[Serve], "sd"}, \A q \in Procs \ {Serve} : pc'[q] = pc[q]
  PROVE  Inv'
<1>1. UNCHANGED <<host, hc, view, rcvd, toRelay, toHost, sv, cc>> /\ TypeInv
  BY DEF env, Inv
<1>2. PumpsStay /\ pc'[Closer] = pc[Closer]
  BY ProcFacts DEF PumpsStay
<1>3. RelayInv'
  <2>1. SameRelayState
    BY <1>2 DEF SameRelayState, PumpsStay
  <2> QED
    BY <2>1, SameRelayInv DEF Inv
<1>4. FaultInv'
  BY <1>1, SameFaultInv, KeptFacts DEF Inv, SameFaults
<1>5. \A c \in Conns : r.writeMu # Worker(c) /\ r'.writeMu # Worker(c)
  BY ProcFacts
<1>6. SameConns
  BY <1>1, <1>2, <1>5 DEF SameConns
<1>7. RefusingFrom /\ OpensFrom(0)
  BY <1>1, SameSocket DEF RefusingFrom, Refusing
<1>8. CInv'
  BY <1>1, <1>6, <1>7, SameInv DEF Inv
<1> QED
  BY <1>3, <1>4, <1>8 DEF Inv

(* A goroutine that writes is Serve, refusing, or a pump of a connection    *)
(* that runs.                                                               *)
LEMMA WriterFacts ==
  ASSUME Inv, NEW p \in Procs, pc[p] \in WriteLabels
  PROVE  \/ p = Serve /\ pc[Serve] \in {"refuse", "refclose"} /\ sv.c \in Conns
         \/ \E c \in Conns : /\ p = Worker(c) /\ pc[Worker(c)] \in {"refused", "dialok", "retire"}
                             /\ Active(c)
         \/ \E c \in Conns : /\ p = Reader(c) /\ pc[Reader(c)] \in {"data", "closewrite"}
                             /\ Active(c) /\ pc[Worker(c)] # "retire"
<1>1. Owner(p) \in Conns /\ WriterAt(p, Owner(p))
  BY WriterCases DEF Inv
<1>2. PICK c \in Conns : c = Owner(p)
  BY <1>1
<1>3. PairInv(c)
  BY DEF Inv, CInv, ConnInv
<1>4. CASE p = Serve
  BY <1>1, <1>4, OwnerFacts, ProcFacts DEF WriterAt, Owner
<1>5. CASE p # Serve /\ p = Worker(c) /\ pc[Worker(c)] \in {"refused", "dialok", "retire"}
  BY <1>5 DEF Active
<1>6. CASE p # Serve /\ p = Reader(c) /\ pc[Reader(c)] \in {"data", "closewrite"}
  BY <1>3, <1>6 DEF Active, PairInv, Stopped
<1> QED
  BY <1>1, <1>2, <1>4, <1>5, <1>6 DEF WriterAt

(* The first step of a write preserves the invariant.                       *)
LEMMA LockInv ==
  ASSUME Inv, NEW p \in Procs, WriteLock(p)
  PROVE  Inv'
<1>1. TypeInv /\ TypeInv' /\ PcType
  BY TypeWrite DEF Inv, Write, TypeInv
<1>2. /\ UNCHANGED <<env, sv, cc>> /\ Kept(r') = Kept(r)
      /\ pc[p] \in WriteLabels /\ r.writeMu = NoProc /\ r'.conns = ConnsAtWrite(p)
      /\ LockSkips(p) \/ LockTakes(p)
  BY <1>1, LockFacts
<1>3. /\ r'.writeMu \in {NoProc, p}
      /\ \/ LockSkips(p) /\ pc'[p] = WriteCall[pc[p]].err
         \/ LockTakes(p) /\ pc'[p] = pc[p]
      /\ \A q \in Procs \ {p} : pc'[q] = pc[q]
  <2>1. CASE LockSkips(p)
    <3>1. Goto(p, WriteCall[pc[p]].err) /\ r'.writeMu = NoProc
      BY <2>1 DEF LockSkips
    <3>2. WriteCall[pc[p]].err \in Labels /\ pc \in [Procs -> Labels]
      BY <1>1, <1>2, WriteTargets DEF PcType
    <3> QED
      BY <2>1, <3>1, <3>2, GotoFacts
  <2>2. CASE LockTakes(p)
    BY <2>2 DEF LockTakes
  <2> QED
    BY <1>2, <2>1, <2>2
<1>4. CASE p = Serve /\ pc[Serve] \in {"refuse", "refclose"}
  <2>1. r'.conns = r.conns /\ pc'[Serve] \in {pc[Serve], "sd"}
    BY <1>2, <1>3, <1>4, WriteFacts, SMT DEF ConnsAtWrite
  <2> QED
    BY <2>1, <1>1, <1>2, <1>3, <1>4, ServeHoldsInv
<1>5. ASSUME NEW c \in Conns, p = Reader(c), pc[Reader(c)] \in {"data", "closewrite"},
             Active(c), pc[Worker(c)] # "retire"
      PROVE  Inv'
  <2>1. r'.conns = r.conns /\ pc'[Worker(c)] = pc[Worker(c)]
    BY <1>2, <1>3, <1>5, ProcFacts DEF ConnsAtWrite
  <2>2. pc'[Reader(c)] \in {pc[Reader(c)], "rcancel"}
    BY <1>3, <1>5, WriteFacts
  <2>3. PumpHolds(c)
    BY <2>1, <2>2, <1>5 DEF PumpHolds
  <2> QED
    BY <2>1, <2>3, <1>1, <1>2, <1>3, <1>5, PumpHoldsInv
<1>6. ASSUME NEW c \in Conns, p = Worker(c), pc[Worker(c)] \in {"refused", "dialok", "retire"},
             Active(c)
      PROVE  Inv'
  <2>1. pc'[Reader(c)] = pc[Reader(c)]
    BY <1>3, <1>6, ProcFacts
  <2>2. CASE pc[Worker(c)] # "retire"
    <3>1. r'.conns = r.conns /\ pc'[Worker(c)] \in {pc[Worker(c)], "exit"}
      BY <2>2, <1>2, <1>3, <1>6, WriteFacts, SMT DEF ConnsAtWrite
    <3>2. PumpHolds(c)
      BY <3>1, <2>1, <2>2, <1>6 DEF PumpHolds
    <3> QED
      BY <3>1, <3>2, <1>1, <1>2, <1>3, <1>6, PumpHoldsInv
  <2>3. CASE pc[Worker(c)] = "retire"
    <3>1. r.conns[Id(c)] = Gen(c) /\ Id(c) \in Ids /\ Gen(c) # 0
      <4>1. r.writeMu # Worker(c)
        BY <1>2, ProcFacts
      <4> QED
        BY <4>1, <1>6, OwnerFacts, SMT DEF Inv, CInv, ConnInv, MapInv, Retiring
    <3>2. Mine(p) /\ r'.conns = [r.conns EXCEPT ![Id(c)] = 0]
      BY <3>1, <2>3, <1>2, <1>6, OwnerFacts DEF Mine, ConnsAtWrite
    <3>3. r'.conns[Id(c)] = 0
      BY <3>1, <3>2, <1>1 DEF TypeInv, RelayType
    <3>4. \/ r'.writeMu = Worker(c) /\ pc'[Worker(c)] = pc[Worker(c)]
          \/ pc'[Worker(c)] = "done"
      BY <1>3, <1>6, <2>3, WriteFacts DEF LockTakes
    <3>5. PumpHolds(c)
      BY <3>1, <3>3, <3>4, <2>1, <2>3 DEF PumpHolds
    <3> QED
      BY <3>1, <3>2, <3>5, <2>3, <1>1, <1>2, <1>3, <1>6, PumpHoldsInv
  <2> QED
    BY <2>2, <2>3
<1> QED
  BY <1>2, <1>4, <1>5, <1>6, WriterFacts

(* A write that fails preserves the invariant.                              *)
LEMMA ErrorInv ==
  ASSUME Inv, NEW p \in Procs, WriteError(p)
  PROVE  Inv'
<1>1. TypeInv /\ TypeInv' /\ PcType
  BY TypeWrite DEF Inv, Write, TypeInv
<1>2. /\ UNCHANGED <<env, sv, cc>> /\ pc[p] \in WriteLabels
      /\ r.writeMu = p /\ r'.conns = r.conns /\ ~(r.open /\ host.up)
      /\ \/ r.once = "new" /\ Shutdown("write") /\ UNCHANGED pc /\ r'.writeMu = p
         \/ /\ r.once = "done" /\ Kept(r') = Kept(r) /\ r'.writeMu = NoProc
            /\ Goto(p, WriteCall[pc[p]].err)
  BY <1>1, ErrorFacts
<1>3. CASE r.once = "new" /\ Shutdown("write") /\ UNCHANGED pc /\ r'.writeMu = p
  <2>1. /\ r'.once = "conn" /\ r'.done /\ r'.err = "write" /\ r'.open = r.open
    BY <1>1, <1>3, ShutdownFacts DEF TypeInv
  <2>2. UNCHANGED <<host, hc, view, rcvd, toRelay, toHost, pc, sv, cc>>
    BY <1>2, <1>3 DEF env
  <2>3. ~host.up
    BY <1>2, <1>3 DEF Inv, RelayInv
  <2>4. RelayInv'
    BY <2>1, <2>2 DEF Inv, RelayInv, Stopped
  <2>5. FaultInv'
    BY <2>1, <2>2, <2>3 DEF Inv, FaultInv, ErrorsAreTheHosts
  <2>6. SameConns /\ RefusingFrom /\ OpensFrom(0)
    BY <1>1, <1>2, <1>3, <2>2, SameSocket DEF SameConns, PumpsStay, RefusingFrom, Refusing
  <2>7. CInv'
    BY <2>6, <1>1, SameInv DEF Inv
  <2> QED
    BY <1>1, <2>4, <2>5, <2>7 DEF Inv
<1>4. CASE /\ Kept(r') = Kept(r) /\ r'.writeMu = NoProc /\ Goto(p, WriteCall[pc[p]].err)
  <2>1. pc'[p] = WriteCall[pc[p]].err /\ \A q \in Procs \ {p} : pc'[q] = pc[q]
    <3>1. WriteCall[pc[p]].err \in Labels /\ pc \in [Procs -> Labels]
      BY <1>1, <1>2, WriteTargets DEF PcType
    <3> QED
      BY <1>4, <3>1, GotoFacts
  <2>2. CASE p = Serve /\ pc[Serve] \in {"refuse", "refclose"}
    <3>1. pc'[Serve] = "sd"
      BY <2>1, <2>2, WriteFacts
    <3> QED
      BY <3>1, <2>1, <2>2, <1>1, <1>2, <1>4, ServeHoldsInv
  <2>3. ASSUME NEW c \in Conns, p = Reader(c), pc[Reader(c)] \in {"data", "closewrite"}, Active(c)
        PROVE  Inv'
    <3>1. pc'[Reader(c)] = "rcancel" /\ pc'[Worker(c)] = pc[Worker(c)]
      BY <2>1, <2>3, WriteFacts, ProcFacts, SMT
    <3>2. PumpHolds(c)
      BY <3>1, <2>3 DEF PumpHolds
    <3> QED
      BY <3>2, <2>1, <2>3, <1>1, <1>2, <1>4, PumpHoldsInv
  <2>4. ASSUME NEW c \in Conns, p = Worker(c), pc[Worker(c)] \in {"refused", "dialok", "retire"},
               Active(c)
        PROVE  Inv'
    <3>1. /\ pc'[Worker(c)] = IF pc[Worker(c)] = "retire" THEN "done" ELSE "exit"
          /\ pc'[Reader(c)] = pc[Reader(c)]
      BY <2>1, <2>4, WriteFacts, ProcFacts, SMT
    <3>2. pc[Worker(c)] = "retire" => r.conns[Id(c)] # Gen(c)
      BY <2>4, <1>2 DEF Inv, CInv, ConnInv, MapInv, Retiring
    <3>3. PumpHolds(c)
      BY <3>1, <3>2, <2>4, <1>2 DEF PumpHolds
    <3> QED
      BY <3>3, <2>1, <2>4, <1>1, <1>2, <1>4, PumpHoldsInv
  <2> QED
    BY <1>2, <2>2, <2>3, <2>4, WriterFacts
<1> QED
  BY <1>2, <1>3, <1>4

====
