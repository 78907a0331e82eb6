----------------------------- MODULE IngressRelay -----------------------------
(***************************************************************************)
(* The ingress relay of runsc/boot/ingress: one Serve goroutine reading the *)
(* donated Unix socket, a peer monitor, one dial worker and one guest       *)
(* reader per carried connection, a concurrent Close, and the host at the   *)
(* other end.  A carried connection is c = <<id, gen>>: gen counts the      *)
(* OPENs of an ID.  It is not on the wire and no step of the relay branches *)
(* on it; frames carry it so that the properties can tell incarnations of   *)
(* an ID apart.  Sections under Relay.mu and carried.mu are atomic;         *)
(* writeMu, shutdownOnce, the queues and the socket are explicit.           *)
(***************************************************************************)
EXTENDS Integers, Sequences, FiniteSets

CONSTANTS
  Ids,                \* connection IDs the host uses
  Plans,              \* bound: what host, guest and owner may do (see plan)
  MaxConnections,     \* ingress.MaxConnections
  QueueDepth,         \* ingress.queueDepth
  HostCap, RelayCap   \* frames the socket buffers in each direction

Moves == {"CLOSE_WRITE", "CLOSE", "HostBad", "HostVanish", "LateFrames",
          "GuestData", "GuestEOF", "GuestError", "Close"}

ASSUME BoundsAssumption ==
  /\ {MaxConnections, QueueDepth, HostCap, RelayCap} \subseteq Nat \ {0}
  /\ \A p \in Plans : /\ p.ids \subseteq Ids /\ p.moves \subseteq Moves
                      /\ p.gens \in Nat /\ p.data \in Nat /\ p.reads \in BOOLEAN
  /\ IsFiniteSet(Ids) /\ \E p \in Plans : \A q \in Plans : q.gens <= p.gens

MaxGen    == CHOOSE n \in {p.gens : p \in Plans} : \A p \in Plans : p.gens <= n
Conns     == Ids \X (1..MaxGen)
Serve     == <<"serve">>
Closer    == <<"close">>
Monitor   == <<"monitor">>
Worker(c) == <<"worker", c[1], c[2]>>
Reader(c) == <<"reader", c[1], c[2]>>
Procs     == {Serve, Closer, Monitor}
               \cup {Worker(c) : c \in Conns} \cup {Reader(c) : c \in Conns}
NoProc    == <<>>

VARIABLES
  plan,               \* the bounds of this behaviour: the IDs the host uses, the
                      \* OPENs of each, the payloads per direction, the moves
                      \* besides OPEN and DATA, whether the host keeps reading
  host,               \* up: its socket is open; bad: it sent a malformed frame
  hc,                 \* hc[id]: incarnation opened, DATA and controls sent on it
  view, rcvd,         \* what it has read of that incarnation
  toRelay, toHost,    \* the two directions of the socket
  pc,                 \* where each goroutine stands
  sv,                 \* serve(): frame in dispatch, its carried, its error
  r,                  \* Relay: open is r.conn's, done r.ctx's, todo shutdown's
  cc                  \* cc[c]: carried, the worker's locals, the guest's side

env  == <<plan, host, hc, view, rcvd, toRelay, toHost>>
vars == <<env, pc, sv, r, cc>>

(* n: the last payload of the sender's direction, for DATA its own number.  *)
Frame(k, c, n) == [kind |-> k, id |-> c[1], gen |-> c[2], n |-> n]
CtxErr(c)      == r.done \/ cc[c].cancelled
Goto(p, l)     == pc' = [pc EXCEPT ![p] = l]

NewCarried ==
  [cancelled |-> FALSE, closing |-> FALSE, outbound |-> <<>>,
   cur |-> 0,                               \* payload being written to the guest
   hostEOF |-> FALSE, guestEOF |-> FALSE,
   guest |-> "none",                        \* none, dialed, open, closed
   sent |-> 0, got |-> 0]                   \* last payload from and to the guest

NewRelay ==
  [open |-> TRUE, done |-> FALSE, err |-> "nil", once |-> "new", todo |-> {},
   writeMu |-> NoProc, conns |-> [id \in Ids |-> 0]]   \* 0: not in the map

Init ==
  /\ plan \in Plans
  /\ host = [up |-> TRUE, bad |-> FALSE]
  /\ hc = [id \in Ids |-> [gen |-> 0, sent |-> 0, ctl |-> {}]]
  /\ view = [id \in Ids |-> "closed"] /\ rcvd = [id \in Ids |-> 0]
  /\ toRelay = <<>> /\ toHost = <<>>
  /\ pc = [p \in Procs |-> IF p \in {Serve, Closer} THEN "idle" ELSE "off"]
  /\ sv = [c |-> <<>>, f |-> <<>>, err |-> "nil"]
  /\ r = NewRelay
  /\ cc = [c \in Conns |-> NewCarried]

-----------------------------------------------------------------------------
(* The host.  It opens an ID again only after reading the final CLOSE; it   *)
(* may send frames after its own CLOSE_WRITE or CLOSE, and go away.         *)

HostSend(f) ==
  /\ host.up /\ r.open /\ Len(toRelay) < RelayCap
  /\ toRelay' = Append(toRelay, f)
  /\ UNCHANGED <<plan, toHost, pc, sv, r, cc>>

HostOpen(id) ==
  /\ id \in plan.ids /\ view[id] = "closed" /\ hc[id].gen < plan.gens
  /\ hc' = [hc EXCEPT ![id] = [gen |-> @.gen + 1, sent |-> 0, ctl |-> {}]]
  /\ view' = [view EXCEPT ![id] = "opening"]
  /\ rcvd' = [rcvd EXCEPT ![id] = 0]
  /\ HostSend(Frame("OPEN", <<id, hc[id].gen + 1>>, 0))
  /\ UNCHANGED host

MaySend(id, after) ==
  hc[id].gen > 0 /\ (hc[id].ctl \cap after = {} \/ "LateFrames" \in plan.moves)

HostData(id) ==
  /\ MaySend(id, {"CLOSE_WRITE", "CLOSE"}) /\ hc[id].sent < plan.data
  /\ hc' = [hc EXCEPT ![id].sent = @ + 1]
  /\ HostSend(Frame("DATA", <<id, hc[id].gen>>, hc[id].sent + 1))
  /\ UNCHANGED <<host, view, rcvd>>

HostControl(id, k) ==
  /\ MaySend(id, {"CLOSE"}) /\ k \notin hc[id].ctl
  /\ hc' = [hc EXCEPT ![id].ctl = @ \cup {k}]
  /\ HostSend(Frame(k, <<id, hc[id].gen>>, hc[id].sent))
  /\ UNCHANGED <<host, view, rcvd>>

(* Anything that makes serve or dispatch return a protocol error: a bad     *)
(* length, version or kind, a body of the wrong size, a truncated frame.    *)
HostBad ==
  /\ "HostBad" \in plan.moves /\ ~host.bad
  /\ host' = [host EXCEPT !.bad = TRUE]
  /\ HostSend([kind |-> "BAD"])
  /\ UNCHANGED <<hc, view, rcvd>>

(* The host's reading of one frame; "violated" is outside the protocol.     *)
PhaseAfter(v, k) ==
  CASE k = "DIALOK" /\ v = "opening"           -> "established"
    [] k = "DIALREFUSED" /\ v = "opening"      -> "refused"
    [] k = "DATA" /\ v = "established"         -> "established"
    [] k = "CLOSE_WRITE" /\ v = "established"  -> "halfclosed"
    [] k = "CLOSE" /\ v # "closed"             -> "closed"
    [] OTHER                                   -> "violated"

HostRecv ==
  /\ host.up /\ toHost # <<>>
  /\ LET f == Head(toHost) IN
       /\ view' = [view EXCEPT ![f.id] = PhaseAfter(@, f.kind)]
       /\ rcvd' = IF f.kind = "DATA" THEN [rcvd EXCEPT ![f.id] = f.n] ELSE rcvd
  /\ toHost' = Tail(toHost)
  /\ UNCHANGED <<plan, host, hc, toRelay, pc, sv, r, cc>>

(* What it left unread stays in toHost: Linux then resets the relay's end.  *)
HostVanish ==
  /\ "HostVanish" \in plan.moves /\ host.up
  /\ host' = [host EXCEPT !.up = FALSE]
  /\ UNCHANGED <<plan, hc, view, rcvd, toRelay, toHost, pc, sv, r, cc>>

Host ==
  \/ HostBad \/ HostRecv \/ HostVanish
  \/ \E id \in Ids :
       \/ HostOpen(id) \/ HostData(id)
       \/ \E k \in {"CLOSE_WRITE", "CLOSE"} \cap plan.moves : HostControl(id, k)

-----------------------------------------------------------------------------
(* carried.close is cancel, then the close of a guest already in cc.guest.  *)

Cancelled(x)   == [x EXCEPT !.cancelled = TRUE]
GuestClosed(x) == [x EXCEPT !.guest = IF @ = "open" THEN "closed" ELSE @]
Cancel(c)      == cc' = [cc EXCEPT ![c] = Cancelled(@)]
CloseGuest(c)  == cc' = [cc EXCEPT ![c] = GuestClosed(@)]

ToClose == {c \in Conns : r.conns[c[1]] = c[2]}

(* Mutant: a later call of shutdown replaces the first error.               *)
Shutdown_Overwrite(e) ==
  \/ r.once # "new" /\ r' = [r EXCEPT !.err = e]
  \/ r.once = "new" /\ r' = [r EXCEPT !.once = "conn", !.err = e, !.done = TRUE,
                                     !.todo = ToClose]

(* shutdown(e).  A goroutine that calls it stays where it is until once is  *)
(* "done": the first caller runs the body, the others wait for it.          *)
Shutdown(e) ==
  /\ r.once = "new"
  /\ r' = [r EXCEPT !.once = "conn", !.err = e, !.done = TRUE,
                    !.todo = ToClose]

ShutdownStep ==
  /\ \/ /\ r.once = "conn"
        /\ r' = [r EXCEPT !.once = "carried", !.open = FALSE]
        /\ UNCHANGED cc
     \/ /\ r.once = "carried" /\ r.todo = {}
        /\ r' = [r EXCEPT !.once = "done"]
        /\ UNCHANGED cc
     \/ /\ r.once = "carried"
        /\ \E c \in r.todo :
             /\ r' = [r EXCEPT !.todo = @ \ {c}]
             /\ cc' = [cc EXCEPT ![c] = GuestClosed(Cancelled(@))]
  /\ UNCHANGED <<env, pc, sv>>

-----------------------------------------------------------------------------
(* write and writeLocked.  pc names the call: the frame it sends and where  *)
(* its caller goes on success and on error.                                 *)

WriteCall ==
  [refuse     |-> [kind |-> "DIALREFUSED", ok |-> "refclose", err |-> "sd"],
   refclose   |-> [kind |-> "CLOSE",       ok |-> "read",     err |-> "sd"],
   refused    |-> [kind |-> "DIALREFUSED", ok |-> "exit",     err |-> "exit"],
   dialok     |-> [kind |-> "DIALOK",      ok |-> "loop",     err |-> "exit"],
   retire     |-> [kind |-> "CLOSE",       ok |-> "done",     err |-> "done"],
   data       |-> [kind |-> "DATA",        ok |-> "read",     err |-> "rcancel"],
   closewrite |-> [kind |-> "CLOSE_WRITE", ok |-> "done",     err |-> "rcancel"]]

Owner(p) == IF p = Serve THEN sv.c ELSE <<p[2], p[3]>>

WriteFrame(p) ==
  LET k == WriteCall[pc[p]].kind
  IN  Frame(k, Owner(p), IF p = Serve THEN 0 ELSE cc[Owner(p)].sent)

(* retire deletes the ID while it holds writeMu, before its CLOSE; it sends *)
(* none if the ID is no longer its own.                                     *)
Mine(p) == r.conns[p[2]] = p[3]
ConnsAtWrite_Keep(p) == r.conns                                    \* mutant
ConnsAtWrite(p) ==
  IF pc[p] = "retire" /\ Mine(p) THEN [r.conns EXCEPT ![p[2]] = 0] ELSE r.conns

WriteLock(p) ==
  /\ pc[p] \in DOMAIN WriteCall /\ r.writeMu = NoProc
  /\ IF r.done \/ (pc[p] = "retire" /\ ~Mine(p))
       THEN /\ r' = [r EXCEPT !.conns = ConnsAtWrite(p)]
            /\ Goto(p, WriteCall[pc[p]].err)
       ELSE /\ r' = [r EXCEPT !.conns = ConnsAtWrite(p), !.writeMu = p]
            /\ UNCHANGED pc
  /\ UNCHANGED <<env, sv, cc>>

(* conn.Write blocks while the socket is full.  The reader starts after the *)
(* DIAL_RESULT.                                                             *)
WriteConn(p) ==
  /\ r.writeMu = p /\ r.open /\ host.up /\ Len(toHost) < HostCap
  /\ toHost' = Append(toHost, WriteFrame(p))
  /\ r' = [r EXCEPT !.writeMu = NoProc]
  /\ pc' = IF pc[p] = "dialok"
             THEN [pc EXCEPT ![p] = "loop", ![Reader(Owner(p))] = "read"]
             ELSE [pc EXCEPT ![p] = WriteCall[pc[p]].ok]
  /\ UNCHANGED <<plan, host, hc, view, rcvd, toRelay, sv, cc>>

WriteError(p) ==
  /\ r.writeMu = p /\ ~(r.open /\ host.up)
  /\ \/ Shutdown("write") /\ UNCHANGED pc
     \/ /\ r.once = "done"
        /\ r' = [r EXCEPT !.writeMu = NoProc]
        /\ Goto(p, WriteCall[pc[p]].err)
  /\ UNCHANGED <<env, sv, cc>>

Write(p) == WriteLock(p) \/ WriteConn(p) \/ WriteError(p)

-----------------------------------------------------------------------------
(* Serve, Close and monitorPeer.  r.workers counts the monitor and the dial *)
(* workers, not the guest readers: a worker joins its own.                  *)

Stopped(p)  == pc[p] \in {"off", "done"}
WorkersDone_Monitor == Stopped(Monitor)                            \* mutant
WorkersDone == Stopped(Monitor) /\ \A c \in Conns : Stopped(Worker(c))

(* A goroutine at "sd" calls shutdown(e), and goes on once it has returned. *)
CallShutdown(p, e, next) ==
  /\ pc[p] = "sd"
  /\ \/ Shutdown(e) /\ UNCHANGED pc
     \/ r.once = "done" /\ Goto(p, next) /\ UNCHANGED r
  /\ UNCHANGED <<env, sv, cc>>

Join(p) ==
  /\ pc[p] = "join" /\ WorkersDone
  /\ Goto(p, "done")
  /\ UNCHANGED <<env, sv, r, cc>>

CloseCall ==
  /\ "Close" \in plan.moves /\ pc[Closer] = "idle"
  /\ Goto(Closer, "sd")
  /\ UNCHANGED <<env, sv, r, cc>>

ServeStart ==
  /\ pc[Serve] = "idle"
  /\ IF r.done
       THEN Goto(Serve, "done")
       ELSE pc' = [pc EXCEPT ![Serve] = "read", ![Monitor] = "run"]
  /\ UNCHANGED <<env, sv, r, cc>>

(* peerGone polls the socket: it sees a closure even behind unread frames.  *)
PeerGone_Never == ~r.open                                          \* mutant
PeerGone == ~host.up \/ ~r.open

MonitorTick ==
  /\ pc[Monitor] = "run"
  /\ \/ r.done /\ Goto(Monitor, "done")
     \/ PeerGone /\ Goto(Monitor, "sd")
  /\ UNCHANGED <<env, sv, r, cc>>

(* io.ReadFull fails: nil after a local close or at the host's EOF, an      *)
(* error when the host left frames unread (reset).                          *)
ServeReadFail ==
  /\ pc[Serve] = "read"
  /\ ~r.open \/ (~host.up /\ toRelay = <<>>)
  /\ sv' = [sv EXCEPT !.err = IF r.done \/ toHost = <<>> THEN "nil" ELSE "read"]
  /\ Goto(Serve, "sd")
  /\ UNCHANGED <<env, r, cc>>

Dispatching(c, f, l) == sv' = [sv EXCEPT !.c = c, !.f = f] /\ Goto(Serve, l)
ProtocolError        == sv' = [sv EXCEPT !.err = "proto"] /\ Goto(Serve, "sd")
Live                 == {id \in Ids : r.conns[id] # 0}
AtLimit_OffByOne     == Cardinality(Live) > MaxConnections         \* mutant
AtLimit              == Cardinality(Live) >= MaxConnections

DispatchOpen(f) ==
  /\ f.kind = "OPEN"
  /\ \/ r.done /\ UNCHANGED <<pc, sv, r>>
     \/ ~r.done /\ f.id \in Live /\ ProtocolError /\ UNCHANGED r
     \/ /\ ~r.done /\ f.id \notin Live /\ AtLimit
        /\ Dispatching(<<f.id, f.gen>>, f, "refuse") /\ UNCHANGED r
     \/ /\ ~r.done /\ f.id \notin Live /\ ~AtLimit
        /\ r' = [r EXCEPT !.conns[f.id] = f.gen]
        /\ Goto(Worker(<<f.id, f.gen>>), "dial") /\ UNCHANGED sv
  /\ UNCHANGED cc

Closing(x)          == [Cancelled(x) EXCEPT !.closing = TRUE]

(* The other kinds go to the connection registered under their ID.          *)
DispatchFrame(f) ==
  /\ f.kind \in {"DATA", "CLOSE_WRITE", "CLOSE"}
  /\ LET c == <<f.id, r.conns[f.id]>> IN
       \/ /\ f.id \in Live => cc[c].closing
          /\ UNCHANGED <<pc, sv, cc>>
       \/ /\ f.id \in Live /\ ~cc[c].closing /\ f.kind = "CLOSE"
          /\ cc' = [cc EXCEPT ![c] = Closing(@)]
          /\ Dispatching(c, f, "closeguest")
       \/ /\ f.id \in Live /\ ~cc[c].closing /\ f.kind # "CLOSE"
          /\ Dispatching(c, f, "enqueue") /\ UNCHANGED cc
  /\ UNCHANGED r

ServeRead ==
  /\ pc[Serve] = "read" /\ r.open /\ toRelay # <<>>
  /\ toRelay' = Tail(toRelay)
  /\ LET f == Head(toRelay) IN
       \/ DispatchOpen(f) \/ DispatchFrame(f)
       \/ f.kind = "BAD" /\ ProtocolError /\ UNCHANGED <<r, cc>>
  /\ UNCHANGED <<plan, host, hc, view, rcvd, toHost>>

QueueRoom(c)           == Len(cc[c].outbound) < QueueDepth
EnqueueAborts_Full(c)  == CtxErr(c) \/ ~QueueRoom(c)               \* mutant
EnqueueAborts(c)       == CtxErr(c)

(* The rest of dispatch: the end of cc.close; the select on cc.outbound and *)
(* cc.ctx.Done(), where a full queue blocks Serve.                          *)
ServeDeliver ==
  /\ \/ pc[Serve] = "closeguest" /\ CloseGuest(sv.c)
     \/ /\ pc[Serve] = "enqueue" /\ QueueRoom(sv.c)
        /\ cc' = [cc EXCEPT ![sv.c].outbound = Append(@, sv.f)]
     \/ pc[Serve] = "enqueue" /\ EnqueueAborts(sv.c) /\ UNCHANGED cc
  /\ Dispatching(<<>>, <<>>, "read")
  /\ UNCHANGED <<env, r>>

ServeStep ==
  \/ ServeStart \/ ServeRead \/ ServeReadFail \/ ServeDeliver
  \/ Write(Serve) \/ CallShutdown(Serve, sv.err, "join") \/ Join(Serve)
CloseStep   == CallShutdown(Closer, "nil", "join") \/ Join(Closer)
MonitorStep == MonitorTick \/ CallShutdown(Monitor, "nil", "done")

-----------------------------------------------------------------------------
(* dialAndServe: the dial worker of c.                                      *)

WorkerAt(c, l) == pc[Worker(c)] = l /\ UNCHANGED <<env, sv, r>>
WorkerTo(c, l) == Goto(Worker(c), l)

(* The dialer returns in the end: it has a timeout and honours cc.ctx.      *)
DialReturn(c) ==
  /\ WorkerAt(c, "dial")
  /\ \/ cc' = [cc EXCEPT ![c].guest = "dialed"] /\ WorkerTo(c, "setguest")
     \/ CtxErr(c) /\ WorkerTo(c, "exit") /\ UNCHANGED cc
     \/ ~CtxErr(c) /\ WorkerTo(c, "refused") /\ UNCHANGED cc

SetGuest(c) ==
  /\ WorkerAt(c, "setguest")
  /\ cc' = [cc EXCEPT ![c].guest = IF CtxErr(c) THEN "closed" ELSE "open"]
  /\ WorkerTo(c, IF CtxErr(c) THEN "exit" ELSE "dialok")

(* The three cases of the select; taking a frame is split by its kind.      *)
WorkerCtxDone(c) ==
  WorkerAt(c, "loop") /\ CtxErr(c) /\ WorkerTo(c, "exit") /\ UNCHANGED cc

AfterGuestEOF_Stay(c) == "loop"                                    \* mutant
AfterGuestEOF(c)      == IF cc[c].hostEOF THEN "exit" ELSE "loop"

WorkerReaderDone(c) ==
  /\ WorkerAt(c, "loop") /\ pc[Reader(c)] = "done" /\ ~cc[c].guestEOF
  /\ cc' = [cc EXCEPT ![c].guestEOF = TRUE]
  /\ WorkerTo(c, AfterGuestEOF(c))

Taken(x) == [x EXCEPT !.outbound = Tail(@), !.cur = Head(x.outbound).n]

WorkerTakeData(c) ==
  /\ WorkerAt(c, "loop") /\ cc[c].outbound # <<>>
  /\ Head(cc[c].outbound).kind = "DATA"
  /\ cc' = [cc EXCEPT ![c] = Taken(@)]
  /\ WorkerTo(c, IF cc[c].hostEOF THEN "exit" ELSE "gwrite")

(* CloseWrite fails on a guest connection that is closed, or was reset.     *)
WorkerTakeCloseWrite(c) ==
  /\ WorkerAt(c, "loop") /\ cc[c].outbound # <<>>
  /\ Head(cc[c].outbound).kind = "CLOSE_WRITE"
  /\ \/ /\ cc[c].guest = "open"
        /\ cc' = [cc EXCEPT ![c] = [Taken(@) EXCEPT !.hostEOF = TRUE]]
        /\ WorkerTo(c, IF cc[c].guestEOF THEN "exit" ELSE "loop")
     \/ /\ cc[c].guest = "closed" \/ "GuestError" \in plan.moves
        /\ cc' = [cc EXCEPT ![c] = Taken(@)] /\ WorkerTo(c, "exit")

(* guest.Write blocks while the guest does not read; closing unblocks it.   *)
GuestAccepts(c) ==
  /\ WorkerAt(c, "gwrite") /\ cc[c].guest = "open"
  /\ \/ cc' = [cc EXCEPT ![c].got = cc[c].cur] /\ WorkerTo(c, "loop")
     \/ "GuestError" \in plan.moves /\ WorkerTo(c, "exit") /\ UNCHANGED cc

GuestWriteClosed(c) ==
  /\ WorkerAt(c, "gwrite") /\ cc[c].guest = "closed"
  /\ WorkerTo(c, "exit") /\ UNCHANGED cc

(* Mutant: retire does not wait for the reader.                             *)
ReaderJoined_Never(c) == TRUE
ReaderJoined(c) == Stopped(Reader(c))

(* The deferred calls: cc.close, the wait for the reader, then retire.      *)
WorkerExit(c) ==
  \/ WorkerAt(c, "exit") /\ Cancel(c) /\ WorkerTo(c, "exitclose")
  \/ WorkerAt(c, "exitclose") /\ CloseGuest(c) /\ WorkerTo(c, "exitjoin")
  \/ /\ WorkerAt(c, "exitjoin") /\ ReaderJoined(c)
     /\ WorkerTo(c, "retire") /\ UNCHANGED cc

WorkerStep(c) ==
  \/ DialReturn(c) \/ SetGuest(c) \/ WorkerCtxDone(c) \/ WorkerReaderDone(c)
  \/ WorkerTakeData(c) \/ WorkerTakeCloseWrite(c) \/ GuestWriteClosed(c)
  \/ WorkerExit(c) \/ Write(Worker(c))

-----------------------------------------------------------------------------
(* The guest reader of c: Read returns a payload, EOF or an error, as the   *)
(* guest behaves, and an error once the connection is closed.               *)

ReaderAt(c, l) == pc[Reader(c)] = l /\ UNCHANGED <<env, sv, r>>
ReaderTo(c, l) == Goto(Reader(c), l)

GuestSends(c) ==
  /\ ReaderAt(c, "read") /\ cc[c].guest = "open"
  /\ \/ /\ "GuestData" \in plan.moves /\ cc[c].sent < plan.data
        /\ cc' = [cc EXCEPT ![c].sent = @ + 1] /\ ReaderTo(c, "data")
     \/ /\ "GuestEOF" \in plan.moves
        /\ ReaderTo(c, IF CtxErr(c) THEN "rcancel" ELSE "closewrite")
        /\ UNCHANGED cc
     \/ "GuestError" \in plan.moves /\ ReaderTo(c, "rcancel") /\ UNCHANGED cc

ReaderEnd(c) ==
  \/ /\ ReaderAt(c, "read") /\ cc[c].guest = "closed"
     /\ ReaderTo(c, "rcancel") /\ UNCHANGED cc
  \/ ReaderAt(c, "rcancel") /\ Cancel(c) /\ ReaderTo(c, "rclose")
  \/ ReaderAt(c, "rclose") /\ CloseGuest(c) /\ ReaderTo(c, "done")

ReaderStep(c) == ReaderEnd(c) \/ Write(Reader(c))

-----------------------------------------------------------------------------
Goroutines ==
  \/ ShutdownStep \/ ServeStep \/ CloseStep \/ MonitorStep
  \/ \E c \in Conns : WorkerStep(c) \/ ReaderStep(c)

Next ==
  \/ Host \/ CloseCall \/ Goroutines
  \/ \E c \in Conns : GuestAccepts(c) \/ GuestSends(c)

(* The Go scheduler runs every runnable goroutine, the monitor's ticker     *)
(* fires, and a dial ends.  Nothing is asked of the guest, and of the host  *)
(* only, where plan.reads says so, that it reads while it is there.  Within *)
(* a plan every behaviour ends, so that one conjunct, weaker than fairness  *)
(* to each goroutine, is enough.                                            *)
Fairness == WF_vars(Goroutines \/ (plan.reads /\ HostRecv))

Safety == Init /\ [][Next]_vars
Spec   == Safety /\ Fairness

-----------------------------------------------------------------------------
(* Properties.                                                              *)

(* The frames the host reads follow the protocol of IngressProtocol: at     *)
(* most one DIAL_RESULT, DATA in order, CLOSE_WRITE after it, final CLOSE,  *)
(* and nothing stale after the ID is opened again (retire, dialAndServe).   *)
Protocol     == INSTANCE IngressProtocol WITH Ids <- Ids, view <- view, rcvd <- rcvd
ProtocolSpec == Protocol!Spec

(* When the host has read the final CLOSE of an ID, the relay has nothing   *)
(* left of that incarnation: no goroutine, guest connection, map entry or   *)
(* frame (retire runs after both pumps stopped, and under writeMu).         *)
ReuseIsSafe ==
  \A id \in Ids : view[id] = "closed" /\ hc[id].gen > 0 =>
    LET c == <<id, hc[id].gen>> IN
      /\ Stopped(Worker(c)) /\ Stopped(Reader(c))
      /\ cc[c].guest \in {"none", "closed"}
      /\ r.conns[id] = 0
      /\ \A i \in DOMAIN toHost : toHost[i].id # id

(* Serve fails only for the host's faults: a protocol error means a         *)
(* malformed frame (never a "duplicate conn id" for a host that waits for   *)
(* CLOSE), a transport error means that the host closed its end.            *)
ErrorsAreTheHosts ==
  /\ r.err = "proto" => host.bad
  /\ r.err \in {"read", "write"} => ~host.up

(* "Serve returns nil on host closure or Close": with a host that sends no  *)
(* malformed frame, Serve never reports an error.                           *)
ServeNilOnHostClosure == pc[Serve] = "done" /\ ~host.bad => r.err = "nil"

(* "No dial or guest IO worker survives" the return of Serve or of Close:   *)
(* none runs, no guest connection is open, and nothing can start again.     *)
Quiet ==
  \A c \in Conns : /\ Stopped(Worker(c)) /\ Stopped(Reader(c))
                   /\ cc[c].guest \in {"none", "closed"}
QuietAfterReturn == "done" \in {pc[Serve], pc[Closer]} => r.done /\ Quiet

(* MaxConnections bounds the live connections, pending dials included, and  *)
(* each keeps at most a queue of frames.                                    *)
LiveBounded ==
  /\ Cardinality({c \in Conns : pc[Worker(c)] \notin {"off", "retire", "done"}
                    \/ cc[c].guest \in {"dialed", "open"}}) <= MaxConnections
  /\ \A c \in Conns : Len(cc[c].outbound) <= QueueDepth

(* Until a connection is cancelled its payloads reach the guest in order,   *)
(* none lost or repeated, and a half-close passes, in either direction,     *)
(* only behind all the payloads sent before it.  (Once it is cancelled the  *)
(* selects of dispatch and of the worker may drop one frame and pass on the *)
(* next, in the moment before the guest connection is closed.)              *)
HalfCloseComplete ==
  [][/\ \A c \in Conns : ~CtxErr(c) =>
          /\ cc'[c].got \in {cc[c].got, cc[c].got + 1}
          /\ cc'[c].hostEOF /\ ~cc[c].hostEOF => cc'[c].cur = cc[c].got
     /\ \A id \in Ids :
          view[id] # "halfclosed" /\ view'[id] = "halfclosed" =>
            rcvd[id] = cc[<<id, hc[id].gen>>].sent]_vars

(* After any shutdown (Close, an error), and when the host goes away, even  *)
(* while a full queue keeps Serve from reading the socket (monitorPeer),    *)
(* everything stops, whatever the guest and the host do: closing the socket *)
(* and the guest connections unblocks every goroutine that waits on them.   *)
ShutdownStops ==
  (r.done \/ (~host.up /\ pc[Serve] # "idle"))
    ~> (Quiet /\ WorkersDone /\ pc[Serve] = "done" /\ pc[Closer] \in {"idle", "done"})

(* CLOSE "cancels the whole connection, including any pending dial or       *)
(* queued data": once dispatched, the connection is retired.  So is, with   *)
(* no CLOSE from the host, a connection both of whose directions have ended.*)
ConnectionsRetire ==
  \A c \in Conns :
    (cc[c].closing \/ (cc[c].hostEOF /\ pc[Reader(c)] = "done"))
      ~> (pc[Worker(c)] = "done")
=============================================================================
