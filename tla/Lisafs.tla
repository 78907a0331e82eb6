------------------------------- MODULE Lisafs --------------------------------
(***************************************************************************)
(* pkg/lisafs: a Client and the server's Connection at the two ends of one  *)
(* socket and of the flipcall channels made over it.  A thread of the       *)
(* sentry makes one call: NewClient's Mount, a Channel call of              *)
(* StartChannels, or CloseFD.  Every critical section of channelsMu, fdsMu  *)
(* and sockMu, every hand-over of a channel and every message is a step.    *)
(* The gofer may crash, and Close may be called with calls in flight.  A    *)
(* channel is what Flipcall shows of it: one side has control; Shutdown     *)
(* fails the calls of both sides, at once if its own side is not in one.    *)
(***************************************************************************)
EXTENDS Naturals, Sequences, FiniteSets

CONSTANTS
  Mounter,            \* the thread in NewClient
  Creators,           \* the goroutines of StartChannels
  FDClosers,          \* threads that call CloseFD, each of its own FD
  Chans,              \* the server's maxChannels() channels, 1 .. n
  BatchSize,          \* fdsToCloseBatchSize
  None

Threads == {Mounter} \cup Creators \cup FDClosers
Sock    == 0          \* the communicator of the socket
Comms   == {Sock} \cup Chans

ASSUME LisafsAssumption ==
  /\ Sock \notin Chans /\ None \notin Threads \cup Comms \cup Seq(Chans)

VARIABLES
  (* the client *)
  pc, comm, res,      \* per call: where it stands, its communicator, result
  made,               \* the channel a Channel call was given
  batch,              \* the FDs a Close call carries
  channels, avail,    \* availableChannels: a stack, or None for nil
  dead, gone,         \* ch.dead; the channels destroyed
  sockMu, csock,      \* its holder; "open", "shut" or "closed"
  watchdog, closer,   \* where watchdog and Close stand
  fdsToClose,
  (* what they share *)
  conn, flag,         \* per channel: who has control; sides being shut down
  msg, sockReq, sockResp,
  (* the server *)
  up,                 \* the gofer process runs
  h, cur, reply,      \* per communicator: its goroutine, request and reply
  gateClosed, schannels, sgone, closing,
  execs, closed,      \* history: handlers run for each call, removals per FD
  late                \* ghost: channels made available after
                      \* shutdownActiveChans

threads == <<pc, comm, res, made, batch>>
pool    == <<channels, avail, dead, gone, late>>
ends    == <<csock, watchdog, closer>>
wire    == <<conn, flag, msg>>
sock    == <<sockReq, sockResp>>
server  == <<up, h, cur, reply, gateClosed, schannels, sgone, closing,
             execs, closed>>
vars    == <<threads, pool, sockMu, ends, fdsToClose, wire, sock, server>>

NoMsg == [call |-> None, ok |-> FALSE]

Init ==
  /\ pc = [t \in Threads |-> "idle"] /\ comm = [t \in Threads |-> None]
  /\ res = [t \in Threads |-> "none"] /\ made = [t \in Threads |-> None]
  /\ batch = [t \in Threads |-> {}]
  /\ channels = {} /\ avail = None /\ dead = {} /\ gone = {} /\ late = {}
  /\ sockMu = None /\ csock = "open" /\ watchdog = "poll" /\ closer = "idle"
  /\ fdsToClose = {}
  /\ conn = [c \in Chans |-> "client"] /\ flag = [c \in Chans |-> {}]
  /\ msg = [c \in Chans |-> NoMsg] /\ sockReq = None /\ sockResp = NoMsg
  /\ up = TRUE /\ h = [u \in Comms |-> IF u = Sock THEN "recv" ELSE "none"]
  /\ cur = [u \in Comms |-> None] /\ reply = [u \in Comms |-> NoMsg]
  /\ gateClosed = FALSE /\ schannels = {} /\ sgone = {} /\ closing = "no"
  /\ execs = [t \in Threads |-> 0] /\ closed = [t \in FDClosers |-> 0]

Goto(t, l) == pc' = [pc EXCEPT ![t] = l]
Holders(ch) == {t \in Threads : comm[t] = ch}
activeWg == {t \in Threads : comm[t] \in Chans}

-----------------------------------------------------------------------------
(* The flipcall channel.  Shutdown leaves the swap of the connection state  *)
(* to a call of its own side that is under way.                             *)
InCall(side, ch) ==
  IF side = "client" THEN \E t \in Holders(ch) : pc[t] = "wait"
                     ELSE h[ch] = "recv"
ShutConn(side, S) ==
  [c \in Chans |-> IF c \in S /\ ~InCall(side, c) THEN "down" ELSE conn[c]]
ShutFlag(side, S) ==
  [c \in Chans |-> IF c \in S THEN flag[c] \cup {side} ELSE flag[c]]
Broken(side, ch) == conn[ch] = "down" \/ side \in flag[ch]
(* The connection state after a call of this side.                          *)
After(side, ch, next) == IF side \in flag[ch] THEN "down" ELSE next

-----------------------------------------------------------------------------
(* The client's calls.                                                      *)
Mounted == res[Mounter] = "ok" /\ pc[Mounter] = "end"
Started == Mounted /\ \A t \in Creators : pc[t] = "end"

(* NewClient.                                                               *)
Mount ==
  /\ pc[Mounter] = "idle" /\ Goto(Mounter, "acquire")
  /\ UNCHANGED <<comm, res, made, batch, pool, sockMu, ends, fdsToClose, wire,
                 sock, server>>

StartChannels ==
  /\ Mounted /\ \A t \in Creators : pc[t] = "idle"
  /\ channels' = {} /\ avail' = << >>
  /\ pc' = [t \in Threads |-> IF t \in Creators THEN "acquire" ELSE pc[t]]
  /\ UNCHANGED <<comm, res, made, batch, dead, gone, late, sockMu, ends,
                 fdsToClose, wire, sock, server>>

(* CloseFD: queue the FD; a full batch, or flush, takes the queue along.    *)
CloseFD_KeepsQueue(t, flush) == /\ t \in FDClosers /\ pc[t] = "idle" /\ Started /\ fdsToClose' = fdsToClose \cup {t} /\ batch' = [batch EXCEPT ![t] = fdsToClose'] /\ Goto(t, "acquire") /\ UNCHANGED <<comm, res, made, pool, sockMu, ends, wire, sock, server>> \* mutant
CloseFD(t, flush) ==
  /\ t \in FDClosers /\ pc[t] = "idle" /\ Started
  /\ LET fds == fdsToClose \cup {t} IN
     \/ /\ ~flush /\ Cardinality(fds) < BatchSize
        /\ fdsToClose' = fds /\ Goto(t, "end") /\ UNCHANGED batch
     \/ /\ flush \/ Cardinality(fds) >= BatchSize
        /\ batch' = [batch EXCEPT ![t] = fds]
        /\ fdsToClose' = {} /\ Goto(t, "acquire")
  /\ UNCHANGED <<comm, res, made, pool, sockMu, ends, wire, sock, server>>

(* acquireCommunicator: getChannel, else the socket.                        *)
Pop_Keeps(s) == s \* mutant
Pop(s) == SubSeq(s, 1, Len(s) - 1)

Acquire(t) ==
  /\ pc[t] = "acquire"
  /\ \/ /\ avail \in {None, << >>}
        /\ Goto(t, "sock") /\ UNCHANGED <<comm, avail>>
     \/ /\ avail \notin {None, << >>}
        /\ comm' = [comm EXCEPT ![t] = avail[Len(avail)]]
        /\ avail' = Pop(avail) /\ Goto(t, "send")
  /\ UNCHANGED <<res, made, batch, channels, dead, gone, late, sockMu, ends,
                 fdsToClose, wire, sock, server>>

AcquireSock(t) ==
  /\ pc[t] = "sock" /\ sockMu = None
  /\ sockMu' = t /\ comm' = [comm EXCEPT ![t] = Sock] /\ Goto(t, "send")
  /\ UNCHANGED <<res, made, batch, pool, ends, fdsToClose, wire, sock, server>>

(* sockCommunicator.SndRcvMessage.                                          *)
ServerGone == ~up \/ closing = "done"
HungUp     == csock # "open" \/ ServerGone

Finish(t, r) == res' = [res EXCEPT ![t] = r] /\ Goto(t, "release")

SockSend(t) ==
  /\ pc[t] = "send" /\ comm[t] = Sock
  /\ \/ HungUp /\ Finish(t, "err") /\ UNCHANGED sockReq
     \/ ~HungUp /\ sockReq' = t /\ Goto(t, "wait") /\ UNCHANGED res
  /\ UNCHANGED <<comm, made, batch, pool, sockMu, ends, fdsToClose, wire,
                 sockResp, server>>

Result(m) == IF m.ok THEN "ok" ELSE "err"

SockRecv(t) ==
  /\ pc[t] = "wait" /\ comm[t] = Sock
  /\ \/ /\ sockResp # NoMsg /\ csock # "closed"
        /\ Finish(t, Result(sockResp)) /\ sockResp' = NoMsg
     \/ /\ HungUp /\ (sockResp = NoMsg \/ csock # "open")
        /\ Finish(t, "err") /\ UNCHANGED sockResp
  /\ UNCHANGED <<comm, made, batch, pool, sockMu, ends, fdsToClose, wire,
                 sockReq, server>>

(* channel.SndRcvMessage; the window of a destroyed channel is unmapped.    *)
Send(t) ==
  /\ pc[t] = "send" /\ comm[t] \in Chans
  /\ LET ch == comm[t] IN
     \/ /\ ch \in gone /\ Finish(t, "fault") /\ UNCHANGED <<dead, wire>>
     \/ /\ ch \notin gone /\ Broken("client", ch)
        /\ dead' = dead \cup {ch} /\ Finish(t, "err") /\ UNCHANGED wire
     \/ /\ ch \notin gone /\ ~Broken("client", ch)
        /\ conn' = [conn EXCEPT ![ch] = "server"]
        /\ msg' = [msg EXCEPT ![ch] = [call |-> t, ok |-> TRUE]]
        /\ Goto(t, "wait") /\ UNCHANGED <<res, dead, flag>>
  /\ UNCHANGED <<comm, made, batch, channels, avail, gone, late, sockMu, ends,
                 fdsToClose, sock, server>>

Recv(t) ==
  /\ pc[t] = "wait" /\ comm[t] \in Chans
  /\ LET ch == comm[t] IN
     \/ ch \in gone /\ Finish(t, "fault") /\ UNCHANGED <<dead, conn, msg>>
     \/ /\ ch \notin gone
        /\ \/ conn[ch] = "client" /\ Finish(t, Result(msg[ch])) /\ UNCHANGED dead
           \/ Broken("client", ch) /\ Finish(t, "err") /\ dead' = dead \cup {ch}
        /\ conn' = [conn EXCEPT ![ch] = After("client", ch, @)]
        /\ msg' = [msg EXCEPT ![ch] = NoMsg]
  /\ UNCHANGED <<comm, made, batch, channels, avail, gone, late, sockMu, ends,
                 fdsToClose, flag, sock, server>>

(* releaseCommunicator, when the reply has been unmarshalled; createChannel *)
(* goes on to connect the channel it was given.                             *)
Reinsert(ch) == ch \notin dead /\ avail # None

Release(t) ==
  /\ pc[t] = "release"
  /\ comm' = [comm EXCEPT ![t] = None]
  /\ sockMu' = IF comm[t] = Sock THEN None ELSE sockMu
  /\ avail' = IF comm[t] \in Chans /\ Reinsert(comm[t])
              THEN Append(avail, comm[t]) ELSE avail
  /\ Goto(t, IF t \in Creators /\ res[t] = "ok" THEN "connect" ELSE "end")
  /\ made' = IF res[t] = "ok" THEN made ELSE [made EXCEPT ![t] = None]
  /\ late' = IF avail' # avail /\ watchdog # "poll" THEN late \cup {comm[t]} ELSE late
  /\ UNCHANGED <<res, batch, channels, dead, gone, ends, fdsToClose, wire, sock,
                 server>>

(* createChannel's Connect: it returns when the server's goroutine answers. *)
Connect(t) ==
  /\ pc[t] = "connect"
  /\ LET ch == made[t] IN
     \/ /\ up /\ h[ch] = "recv" /\ conn[ch] = "client"
        /\ Goto(t, "add") /\ UNCHANGED <<dead, gone>>
     \/ /\ conn[ch] = "down"
        /\ dead' = dead \cup {ch} /\ gone' = gone \cup {ch} /\ Goto(t, "end")
  /\ UNCHANGED <<comm, res, made, batch, channels, avail, late, sockMu, ends,
                 fdsToClose, wire, sock, server>>

(* The goroutine of StartChannels; append makes a nil slice non-nil.        *)
Stack == IF avail = None THEN << >> ELSE avail

AddChannel(t) ==
  /\ pc[t] = "add"
  /\ channels' = channels \cup {made[t]} /\ avail' = Append(Stack, made[t])
  /\ late' = IF watchdog = "poll" THEN late ELSE late \cup {made[t]}
  /\ made' = [made EXCEPT ![t] = None] /\ Goto(t, "end")
  /\ UNCHANGED <<comm, res, batch, dead, gone, sockMu, ends, fdsToClose,
                 wire, sock, server>>

Call(t) ==
  \/ Acquire(t) \/ AcquireSock(t) \/ SockSend(t) \/ SockRecv(t) \/ Send(t)
  \/ Recv(t) \/ Release(t) \/ Connect(t) \/ AddChannel(t)

-----------------------------------------------------------------------------
(* watchdog and Close.                                                      *)
Range(s) == {s[i] : i \in DOMAIN s}
Active_None == {} \* mutant
Active   == channels \ (IF avail = None THEN {} ELSE Range(avail))

(* The poll returns; shutdownActiveChans.                                   *)
ShutdownActiveChans ==
  /\ watchdog = "poll" /\ HungUp
  /\ conn' = ShutConn("client", Active) /\ flag' = ShutFlag("client", Active)
  /\ avail' = None /\ watchdog' = "wait"
  /\ UNCHANGED <<threads, channels, dead, gone, late, sockMu, csock, closer,
                 fdsToClose, msg, sock, server>>

WaitActive ==
  /\ watchdog = "wait" /\ activeWg = {} /\ watchdog' = "destroy"
  /\ UNCHANGED <<threads, pool, sockMu, csock, closer, fdsToClose, wire, sock,
                 server>>

DestroyChannels ==
  /\ watchdog = "destroy" /\ watchdog' = "sock"
  /\ dead' = dead \cup channels /\ gone' = gone \cup channels
  /\ UNCHANGED <<threads, channels, avail, late, sockMu, csock, closer,
                 fdsToClose, wire, sock, server>>

DestroySock ==
  /\ watchdog = "sock" /\ watchdog' = "done" /\ csock' = "closed"
  /\ UNCHANGED <<threads, pool, sockMu, closer, fdsToClose, wire, sock, server>>

(* Close: by NewClient when Mount failed, and by the file system's Release. *)
Close ==
  /\ closer = "idle" /\ pc[Mounter] = "end" /\ (res[Mounter] # "ok" \/ Started)
  /\ csock' = IF csock = "open" THEN "shut" ELSE csock
  /\ closer' = "wait"
  /\ UNCHANGED <<threads, pool, sockMu, watchdog, fdsToClose, wire, sock, server>>

CloseReturn ==
  /\ closer = "wait" /\ watchdog = "done" /\ closer' = "done"
  /\ UNCHANGED <<threads, pool, sockMu, csock, watchdog, fdsToClose, wire, sock,
                 server>>

Watchdog == ShutdownActiveChans \/ WaitActive \/ DestroyChannels \/ DestroySock

-----------------------------------------------------------------------------
(* The server's Connection: Run on the socket, service on each channel.     *)
HGoto(u, l) == h' = [h EXCEPT ![u] = l]

RunRecv ==
  /\ up /\ h[Sock] = "recv"
  /\ \/ /\ sockReq # None
        /\ cur' = [cur EXCEPT ![Sock] = sockReq] /\ sockReq' = None
        /\ HGoto(Sock, "enter")
     \/ /\ sockReq = None /\ csock # "open" /\ HGoto(Sock, "exited")
        /\ UNCHANGED <<cur, sockReq>>
  /\ UNCHANGED <<threads, pool, sockMu, ends, fdsToClose, wire, sockResp, up,
                 reply, gateClosed, schannels, sgone, closing, execs, closed>>

ServiceRecv(ch) ==
  /\ up /\ h[ch] = "recv"
  /\ \/ /\ conn[ch] = "server"
        /\ cur' = [cur EXCEPT ![ch] = msg[ch].call] /\ HGoto(ch, "enter")
        /\ msg' = [msg EXCEPT ![ch] = NoMsg]
     \/ /\ Broken("server", ch) /\ HGoto(ch, "exited") /\ UNCHANGED <<cur, msg>>
  /\ conn' = [conn EXCEPT ![ch] = After("server", ch, @)]
  /\ UNCHANGED <<threads, pool, sockMu, ends, fdsToClose, flag, sock, up,
                 reply, gateClosed, schannels, sgone, closing, execs, closed>>

(* handleMsg, up to the gate: ECONNRESET once close has been called.        *)
Answer(u, ok) == reply' = [reply EXCEPT ![u] = [call |-> cur[u], ok |-> ok]]

EnterGate_Accepts(u) == /\ up /\ h[u] = "enter" /\ IF gateClosed THEN Answer(u, TRUE) /\ HGoto(u, "reply") ELSE HGoto(u, "handle") /\ UNCHANGED reply
  /\ UNCHANGED <<threads, pool, sockMu, ends, fdsToClose, wire, sock, up, cur, gateClosed, schannels, sgone, closing, execs, closed>> \* mutant
EnterGate(u) ==
  /\ up /\ h[u] = "enter"
  /\ \/ ~gateClosed /\ HGoto(u, "handle") /\ UNCHANGED reply
     \/ gateClosed /\ Answer(u, FALSE) /\ HGoto(u, "reply")
  /\ UNCHANGED <<threads, pool, sockMu, ends, fdsToClose, wire, sock, up, cur,
                 gateClosed, schannels, sgone, closing, execs, closed>>

Ran(u) == execs' = [execs EXCEPT ![cur[u]] = @ + 1]

(* MountHandler, CloseHandler, or any handler that fails, and Leave.        *)
Handle(u) ==
  /\ up /\ h[u] = "handle" /\ HGoto(u, "reply") /\ Ran(u)
  /\ \/ Answer(u, FALSE) /\ UNCHANGED closed
     \/ /\ cur[u] \notin Creators /\ Answer(u, TRUE)
        /\ closed' = [t \in FDClosers |->
                        closed[t] + (IF t \in batch[cur[u]] THEN 1 ELSE 0)]
  /\ UNCHANGED <<threads, pool, sockMu, ends, fdsToClose, wire, sock, up, cur,
                 gateClosed, schannels, sgone, closing>>

(* ChannelHandler: a new channel and the goroutine that services it, unless *)
(* the limit is reached; if Dup fails the channel is shut down again.       *)
Fresh == CHOOSE ch \in Chans : ch \notin schannels

ChannelHandler(u, dup) ==
  /\ up /\ h[u] = "handle" /\ cur[u] \in Creators /\ Chans \ schannels # {}
  /\ schannels' = schannels \cup {Fresh}
  /\ h' = [h EXCEPT ![u] = "reply", ![Fresh] = "recv"]
  /\ Ran(u) /\ Answer(u, dup)
  /\ made' = IF dup THEN [made EXCEPT ![cur[u]] = Fresh] ELSE made
  /\ conn' = [conn EXCEPT ![Fresh] = IF dup THEN @ ELSE "down"]
  /\ UNCHANGED <<pc, comm, res, batch, pool, sockMu, ends, fdsToClose, flag, msg,
                 sock, up, cur, gateClosed, sgone, closing, closed>>

Answered(u) ==
  cur' = [cur EXCEPT ![u] = None] /\ reply' = [reply EXCEPT ![u] = NoMsg]

RunReply ==
  /\ up /\ h[Sock] = "reply"
  /\ \/ csock = "open" /\ sockResp' = reply[Sock] /\ HGoto(Sock, "recv")
     \/ csock # "open" /\ UNCHANGED sockResp /\ HGoto(Sock, "exited")
  /\ Answered(Sock)
  /\ UNCHANGED <<threads, pool, sockMu, ends, fdsToClose, wire, sockReq, up,
                 gateClosed, schannels, sgone, closing, execs, closed>>

ServiceReply(ch) ==
  /\ up /\ h[ch] = "reply"
  /\ \/ /\ ~Broken("server", ch)
        /\ msg' = [msg EXCEPT ![ch] = reply[ch]]
        /\ conn' = [conn EXCEPT ![ch] = "client"] /\ HGoto(ch, "recv")
     \/ /\ Broken("server", ch) /\ HGoto(ch, "exited") /\ UNCHANGED <<msg, conn>>
  /\ Answered(ch)
  /\ UNCHANGED <<threads, pool, sockMu, ends, fdsToClose, flag, sock, up,
                 gateClosed, schannels, sgone, closing, execs, closed>>

(* Connection.close, when Run has returned.                                 *)
CloseGate ==
  /\ up /\ h[Sock] = "exited" /\ closing = "no"
  /\ gateClosed' = TRUE /\ closing' = "drain"
  /\ UNCHANGED <<threads, pool, sockMu, ends, fdsToClose, wire, sock, up, h, cur,
                 reply, schannels, sgone, execs, closed>>

Drained == \A u \in Comms : h[u] # "handle"

ShutdownChannels ==
  /\ up /\ closing = "drain" /\ Drained
  /\ conn' = ShutConn("server", schannels)
  /\ flag' = ShutFlag("server", schannels)
  /\ closing' = "wait"
  /\ UNCHANGED <<threads, pool, sockMu, ends, fdsToClose, msg, sock, up, h, cur,
                 reply, gateClosed, schannels, sgone, execs, closed>>

Serviced == \A ch \in schannels : h[ch] = "exited"

CloseDone ==
  /\ up /\ closing = "wait" /\ Serviced
  /\ sgone' = schannels /\ closing' = "done"
  /\ UNCHANGED <<threads, pool, sockMu, ends, fdsToClose, wire, sock, up, h, cur,
                 reply, gateClosed, schannels, execs, closed>>

Serve(u) ==
  \/ u = Sock /\ (RunRecv \/ RunReply)
  \/ u \in Chans /\ (ServiceRecv(u) \/ ServiceReply(u))
  \/ EnterGate(u) \/ Handle(u) \/ \E dup \in BOOLEAN : ChannelHandler(u, dup)

Closing == CloseGate \/ ShutdownChannels \/ CloseDone

(* The gofer dies, and what it had in memory with it.                       *)
Crash ==
  /\ up /\ closing # "done" /\ up' = FALSE
  /\ h' = [u \in Comms |-> "none"] /\ cur' = [u \in Comms |-> None]
  /\ reply' = [u \in Comms |-> NoMsg]
  /\ gateClosed' = FALSE /\ sgone' = {} /\ closing' = "no"
  /\ UNCHANGED <<threads, pool, sockMu, ends, fdsToClose, wire, sock, schannels,
                 execs, closed>>

-----------------------------------------------------------------------------
(* What goroutines do once they run, and the gofer's handlers return.       *)
Progress ==
  \/ StartChannels \/ Watchdog \/ CloseReturn \/ Closing
  \/ \E t \in Threads : Call(t)
  \/ \E u \in Comms : Serve(u)

Next ==
  \/ Progress \/ Mount \/ Close \/ Crash
  \/ \E t \in Threads, flush \in BOOLEAN : CloseFD(t, flush)

(* Goroutines are scheduled.  Every behaviour ends, so that one conjunct,   *)
(* weaker than fairness to each goroutine, is enough.                       *)
Fairness == WF_vars(Progress)

Safety == Init /\ [][Next]_vars
Spec   == Safety /\ Fairness

-----------------------------------------------------------------------------
(* A channel of the pool serves one call at a time, and none when it has    *)
(* been destroyed: getChannel and releaseChannel against shutdownActiveChans*)
(* and activeWg.  A channel that becomes available after the shutdown may   *)
(* be destroyed in use (NoneAvailableAfterShutdown): StartChannels adds it, *)
(* or then releaseChannel puts it back.  The server destroys a channel only *)
(* when its service goroutine has returned.                                 *)
ChannelUse ==
  /\ \A ch \in Chans : \A s, t \in Holders(ch) : s = t
  /\ \A ch \in Chans \ late : ch \in gone => Holders(ch) = {}
  /\ \A ch \in sgone : h[ch] = "exited"

(* Every FD handed to CloseFD is removed by CloseHandler at most once, and  *)
(* only by the call that took it off fdsToClose, however batches, errors    *)
(* and a crash fall.                                                        *)
ClosedOnce ==
  /\ \A t \in FDClosers : closed[t] <= 1
  /\ \A t \in FDClosers : closed[t] = 1 =>
       t \notin fdsToClose /\ \E c \in FDClosers : t \in batch[c] /\ execs[c] = 1

(* SndRcvMessage is a call that runs its handler at most once, that reports *)
(* success only for a handler that ran, and whose result never changes:     *)
(* whichever communicator it took, whatever the shutdown interrupted.       *)
CallState ==
  [t \in Threads |-> IF res[t] # "none" THEN (IF res[t] = "ok" THEN "ok" ELSE "err")
                     ELSE IF pc[t] \in {"idle", "end"} THEN "idle" ELSE "pending"]
Abstract == INSTANCE RPC WITH Calls <- Threads, call <- CallState, execs <- execs
RPCSpec  == Abstract!Spec

(* Every call returns, with the gofer dead or alive; the watchdog unblocks  *)
(* the calls in flight and then Close.  Not covered: a call on a channel    *)
(* available after the shutdown, and Connect to a gofer that died before it.*)
(* When the client hangs up, the gofer's connection drains its handlers and *)
(* service goroutines and its close returns, unless the gofer dies.  (A     *)
(* thread makes one call, so all of them have returned from some point on.) *)
Stranded(t) == comm[t] \in late \/ (pc[t] = "connect" /\ ~up)
CallsReturn ==
  <>[]/\ \A t \in Threads : pc[t] \in {"idle", "end"} \/ Stranded(t)
      /\ closer = "wait" => \E t \in Threads : Stranded(t)
      /\ csock # "open" => closing = "done" \/ ~up

(* shutdownActiveChans: "Prevent channels from becoming available and       *)
(* serving new requests."                                                   *)
NoneAvailableAfterShutdown == watchdog # "poll" => avail \in {None, << >>}
=============================================================================
