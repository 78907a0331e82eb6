---------------------------- MODULE LisafsProofs ----------------------------
(***************************************************************************)
(* The inductive invariant of Lisafs, for any threads, channels and FDs, and *)
(* what follows from it: Lisafs implements RPC, a channel has one user, and *)
(* an FD is closed once.                                                    *)
(* A request is one token that moves from its sender through the handler    *)
(* and back: it is in one place at most (TokenInv), its place says whether  *)
(* its handler has run (SockExec, ChanExec, ServeExec), and what a waiting  *)
(* thread finds on its communicator is its own (SockMatch, ChanMatch).  The *)
(* last needs that a channel has one user (PoolInv).                        *)
(***************************************************************************)
EXTENDS Lisafs, TLAPS

(* Leaves are for Zenon, except where they name another prover.             *)
USE Zenon

Msgs == [call : Threads \cup {None}, ok : BOOLEAN]

CallTypes ==
  /\ pc \in [Threads -> {"idle", "acquire", "sock", "send", "wait", "release",
                         "connect", "add", "end"}]
  /\ comm \in [Threads -> Comms \cup {None}]
  /\ res \in [Threads -> {"none", "ok", "err", "fault"}]
  /\ made \in [Threads -> Chans \cup {None}]
PoolTypes ==
  /\ avail \in {None} \cup Seq(Chans) /\ schannels \subseteq Chans
  /\ sockMu \in Threads \cup {None} /\ sockReq \in Threads \cup {None}
WireTypes ==
  /\ conn \in [Chans -> {"client", "server", "down"}]
  /\ msg \in [Chans -> Msgs] /\ sockResp \in Msgs
ServerTypes ==
  /\ h \in [Comms -> {"none", "recv", "enter", "handle", "reply", "exited"}]
  /\ cur \in [Comms -> Threads \cup {None}] /\ reply \in [Comms -> Msgs]
  /\ execs \in [Threads -> Nat]

(* Channels in the pool, in use and being made are different ones.          *)
Free == IF avail = None THEN {} ELSE Range(avail)
Distinct(s) == \A i, j \in DOMAIN s : s[i] = s[j] => i = j

PoolInv ==
  /\ avail # None => Distinct(avail)
  /\ Free \subseteq schannels
  /\ \A t \in Threads : comm[t] \in Chans =>
       /\ comm[t] \in schannels \ Free
       /\ \A s \in Threads : comm[s] = comm[t] => s = t
  /\ \A t \in Threads : made[t] # None =>
       /\ made[t] \in schannels \ Free
       /\ \A s \in Threads : comm[s] # made[t] /\ (made[s] = made[t] => s = t)
  /\ \A t \in Threads : comm[t] = Sock => sockMu = t

(* A channel that was not made is not used.                                 *)
UnmadeInv ==
  \A ch \in Chans \ schannels :
    h[ch] = "none" /\ cur[ch] = None /\ msg[ch] = NoMsg /\ conn[ch] # "server"

(* A call that was not sent has left no trace.                              *)
NotSent(t) ==
  \/ pc[t] \in {"idle", "acquire", "sock", "send"}
  \/ pc[t] = "end" /\ res[t] = "none"
NoToken(t) ==
  /\ sockReq # t /\ sockResp.call # t
  /\ \A ch \in Chans : msg[ch].call # t
  /\ \A u \in Comms : cur[u] # t
SentInv ==
  \A t \in Threads : NotSent(t) => res[t] = "none" /\ execs[t] = 0 /\ NoToken(t)

StageInv ==
  \A t \in Threads :
    /\ pc[t] = "wait" => res[t] = "none"
    /\ pc[t] \in {"release", "connect", "add"} => res[t] # "none"
    /\ pc[t] \in {"connect", "add"} => made[t] # None
    /\ pc[t] = "release" /\ res[t] = "ok" /\ t \in Creators => made[t] # None
    /\ pc[t] \in {"send", "wait"} => comm[t] # None

(* A request or its reply is in one place.                                  *)
TokenOk(t) ==
  /\ sockReq = t => /\ sockResp.call # t
                    /\ \A u \in Comms : cur[u] # t
                    /\ \A ch \in Chans : msg[ch].call # t
  /\ \A ch \in Chans : msg[ch].call = t =>
       /\ sockResp.call # t
       /\ \A u \in Comms : cur[u] # t
       /\ \A d \in Chans : msg[d].call = t => d = ch
  /\ \A u \in Comms : cur[u] = t =>
       /\ sockResp.call # t
       /\ \A v \in Comms : cur[v] = t => v = u
TokenInv == \A t \in Threads : TokenOk(t)

(* A good reply: its call was executed, and a Channel call has a channel    *)
(* for a creator that still waits.                                          *)
Good(m) ==
  m.ok => /\ m.call # None /\ execs[m.call] = 1
          /\ m.call \in Creators /\ pc[m.call] = "wait" => made[m.call] # None

SockExec ==
  /\ Good(sockResp) /\ (sockResp # NoMsg => sockResp.call # None)
  /\ \A t \in Threads : sockReq = t => execs[t] = 0
ChanOk(ch) ==
  /\ conn[ch] = "server" /\ msg[ch].call # None => execs[msg[ch].call] = 0
  /\ conn[ch] = "server" /\ h[ch] = "recv" => msg[ch].call # None
  /\ conn[ch] = "client" => Good(msg[ch])
ChanExec == \A ch \in Chans : ChanOk(ch)
ServeExec ==
  \A u \in Comms :
    /\ h[u] \in {"enter", "handle", "reply"} <=> cur[u] # None
    /\ h[u] \in {"enter", "handle"} => execs[cur[u]] = 0
    /\ h[u] = "reply" => reply[u].call = cur[u] /\ Good(reply[u])

(* What is on a communicator belongs to the thread that waits on it, and    *)
(* while the communicator works, to nobody else.                            *)
Waits(t, u) == pc[t] = "wait" /\ comm[t] = u
SockMatch ==
  /\ \A t \in Threads : Waits(t, Sock) =>
       {sockReq, cur[Sock], sockResp.call} \subseteq {None, t}
  /\ ~HungUp => \A t \in Threads :
       t \in {sockReq, cur[Sock], sockResp.call} => Waits(t, Sock)
ChanMatchOk(ch, t) ==
  /\ Waits(t, ch) => {msg[ch].call, cur[ch]} \subseteq {None, t}
  /\ Waits(t, ch) /\ conn[ch] = "client" /\ ch \notin gone => msg[ch].call = t
  /\ ch \notin gone /\ conn[ch] # "down" /\ t \in {msg[ch].call, cur[ch]} => Waits(t, ch)
ChanMatch == \A ch \in Chans, t \in Threads : ChanMatchOk(ch, t)

Inv ==
  /\ CallTypes /\ PoolTypes /\ WireTypes /\ ServerTypes /\ PoolInv /\ UnmadeInv
  /\ SentInv /\ StageInv /\ TokenInv /\ SockExec /\ ChanExec /\ ServeExec
  /\ SockMatch /\ ChanMatch

(* None is nothing else, and the socket is no channel.                      *)
LEMMA NoneFacts ==
  /\ None \notin Threads /\ None \notin Chans /\ None # Sock /\ Sock \notin Chans
  /\ None \notin Seq(Chans) /\ Chans \subseteq Comms /\ Sock \in Comms
BY LisafsAssumption DEF Comms

(* Messages.                                                                *)
LEMMA MsgFacts ==
  /\ NoMsg \in Msgs /\ NoMsg.call = None /\ NoMsg.ok = FALSE
  /\ \A m \in Msgs : m.call \in Threads \cup {None} /\ m.ok \in BOOLEAN
  /\ \A c \in Threads \cup {None}, ok \in BOOLEAN :
       LET m == [call |-> c, ok |-> ok]
       IN  m \in Msgs /\ m.call = c /\ m.ok = ok
BY DEF Msgs, NoMsg

(* getChannel takes a channel from the end of the list.                     *)
LEMMA PopFacts ==
  ASSUME NEW s \in Seq(Chans), s # << >>, Distinct(s)
  PROVE  /\ Pop(s) \in Seq(Chans) /\ Distinct(Pop(s))
         /\ s[Len(s)] \in Chans /\ s[Len(s)] \in Range(s)
         /\ Range(Pop(s)) = Range(s) \ {s[Len(s)]}
<1>1. Len(s) \in Nat \ {0} /\ DOMAIN s = 1 .. Len(s)
  BY SMT
<1>2. /\ Pop(s) \in Seq(Chans) /\ Len(Pop(s)) = Len(s) - 1
      /\ DOMAIN Pop(s) = 1 .. Len(s) - 1
      /\ \A i \in 1 .. Len(s) - 1 : Pop(s)[i] = s[i]
  BY <1>1, SMT DEF Pop
<1>3. s[Len(s)] \in Chans /\ s[Len(s)] \in Range(s)
  BY <1>1, SMT DEF Range
<1>4. Distinct(Pop(s))
  BY <1>1, <1>2, SMT DEF Distinct
<1>5. Range(Pop(s)) = Range(s) \ {s[Len(s)]}
  BY <1>1, <1>2, SMT DEF Distinct, Range
<1> QED
  BY <1>2, <1>3, <1>4, <1>5

(* releaseChannel puts one back.                                            *)
LEMMA AppendFacts ==
  ASSUME NEW s \in Seq(Chans), NEW c \in Chans, Distinct(s), c \notin Range(s)
  PROVE  /\ Append(s, c) \in Seq(Chans) /\ Distinct(Append(s, c))
         /\ Range(Append(s, c)) = Range(s) \cup {c}
<1>1. /\ Len(s) \in Nat /\ DOMAIN s = 1 .. Len(s)
      /\ Append(s, c) \in Seq(Chans) /\ DOMAIN Append(s, c) = 1 .. Len(s) + 1
      /\ \A i \in 1 .. Len(s) : Append(s, c)[i] = s[i]
      /\ Append(s, c)[Len(s) + 1] = c
  BY SMT
<1>2. Distinct(Append(s, c))
  BY <1>1, SMT DEF Distinct, Range
<1>3. Range(Append(s, c)) = Range(s) \cup {c}
  BY <1>1, SMT DEF Range
<1> QED
  BY <1>1, <1>2, <1>3

(* The parts of the invariant that a step leaves alone.                     *)
LEMMA Frames ==
  /\ CallTypes /\ UNCHANGED <<pc, comm, res, made>> => CallTypes'
  /\ PoolTypes /\ UNCHANGED <<avail, sockMu, sockReq, schannels>> => PoolTypes'
  /\ WireTypes /\ UNCHANGED <<conn, msg, sockResp>> => WireTypes'
  /\ ServerTypes /\ UNCHANGED <<h, cur, reply, execs>> => ServerTypes'
  /\ PoolInv /\ UNCHANGED <<avail, comm, made, sockMu, schannels>> => PoolInv'
  /\ UnmadeInv /\ UNCHANGED <<schannels, h, cur, msg, conn>> => UnmadeInv'
  /\ SentInv /\ UNCHANGED <<pc, res, execs, sockReq, sockResp, msg, cur>> => SentInv'
  /\ StageInv /\ UNCHANGED <<pc, res, made, comm>> => StageInv'
  /\ TokenInv /\ UNCHANGED <<sockReq, sockResp, cur, msg>> => TokenInv'
  /\ SockExec /\ UNCHANGED <<sockReq, execs, sockResp, pc, made>> => SockExec'
  /\ ChanExec /\ UNCHANGED <<conn, msg, execs, h, pc, made>> => ChanExec'
  /\ ServeExec /\ UNCHANGED <<h, cur, execs, reply, pc, made>> => ServeExec'
  /\ SockMatch /\ UNCHANGED <<pc, comm, sockReq, cur, sockResp, csock, up, closing>>
       => SockMatch'
  /\ ChanMatch /\ UNCHANGED <<pc, comm, msg, cur, conn, gone>> => ChanMatch'
<1>1. CallTypes /\ UNCHANGED <<pc, comm, res, made>> => CallTypes'
  BY DEF CallTypes
<1>2. PoolTypes /\ UNCHANGED <<avail, sockMu, sockReq, schannels>> => PoolTypes'
  BY DEF PoolTypes
<1>3. WireTypes /\ UNCHANGED <<conn, msg, sockResp>> => WireTypes'
  BY DEF WireTypes
<1>4. ServerTypes /\ UNCHANGED <<h, cur, reply, execs>> => ServerTypes'
  BY DEF ServerTypes
<1>5. PoolInv /\ UNCHANGED <<avail, comm, made, sockMu, schannels>> => PoolInv'
  BY DEF PoolInv, Free
<1>6. UnmadeInv /\ UNCHANGED <<schannels, h, cur, msg, conn>> => UnmadeInv'
  BY DEF UnmadeInv
<1>7. SentInv /\ UNCHANGED <<pc, res, execs, sockReq, sockResp, msg, cur>> => SentInv'
  BY SMT DEF SentInv, NotSent, NoToken
<1>8. StageInv /\ UNCHANGED <<pc, res, made, comm>> => StageInv'
  BY DEF StageInv
<1>9. TokenInv /\ UNCHANGED <<sockReq, sockResp, cur, msg>> => TokenInv'
  BY DEF TokenInv, TokenOk
<1>10. SockExec /\ UNCHANGED <<sockReq, execs, sockResp, pc, made>> => SockExec'
  BY DEF SockExec, Good
<1>11. ChanExec /\ UNCHANGED <<conn, msg, execs, h, pc, made>> => ChanExec'
  BY DEF ChanExec, ChanOk, Good
<1>12. ServeExec /\ UNCHANGED <<h, cur, execs, reply, pc, made>> => ServeExec'
  BY SMT DEF ServeExec, Good
<1>13. SockMatch /\ UNCHANGED <<pc, comm, sockReq, cur, sockResp, csock, up, closing>>
         => SockMatch'
  BY SMT DEF SockMatch, Waits, HungUp, ServerGone
<1>14. ChanMatch /\ UNCHANGED <<pc, comm, msg, cur, conn, gone>> => ChanMatch'
  BY SMT DEF ChanMatch, ChanMatchOk, Waits
<1> QED
  BY <1>1, <1>2, <1>3, <1>4, <1>5, <1>6, <1>7, <1>8, <1>9, <1>10, <1>11, <1>12,
     <1>13, <1>14

(* A step after which a good reply is still one: no executed call begins to *)
(* wait or loses its channel.                                               *)
GoodKept ==
  /\ UNCHANGED execs
  /\ \A s \in Threads : execs[s] = 1 /\ pc'[s] = "wait" =>
       pc[s] = "wait" /\ made'[s] = made[s]

(* What a successful answer says.                                           *)
LEMMA GoodFacts ==
  ASSUME GoodKept, NEW m \in Msgs, Good(m), m.ok
  PROVE  /\ m.call # None /\ execs'[m.call] = 1
         /\ m.call \in Creators /\ pc'[m.call] = "wait" => made'[m.call] # None
<1>1. m.call \in Threads /\ execs[m.call] = 1
  BY MsgFacts DEF Good
<1> QED
  BY <1>1, NoneFacts DEF GoodKept, Good

(* The services' requests are where they were ...                           *)
LEMMA ServeFrame ==
  ASSUME Inv, GoodKept, UNCHANGED <<h, cur, reply>>
  PROVE  ServeExec'
<1>1. ASSUME NEW u \in Comms, h[u] = "reply"
      PROVE  Good(reply[u])'
  <2>1. reply[u] \in Msgs /\ Good(reply[u])
    BY <1>1 DEF Inv, ServerTypes, ServeExec
  <2> QED
    BY <2>1, GoodFacts DEF Good
<1> QED
  BY <1>1 DEF Inv, ServeExec, GoodKept

(* ... and so are a channel's.                                              *)
LEMMA ChanFrame ==
  ASSUME Inv, GoodKept, UNCHANGED h,
         NEW ch \in Chans, UNCHANGED <<conn[ch], msg[ch]>>
  PROVE  ChanOk(ch)'
<1>1. msg[ch] \in Msgs /\ ChanOk(ch)
  BY DEF Inv, WireTypes, ChanExec
<1>2. Good(msg[ch]) => Good(msg[ch])'
  BY <1>1, GoodFacts DEF Good
<1> QED
  BY <1>1, <1>2 DEF ChanOk, GoodKept

(* A step of the client that moves no message and begins no wait.  A wait   *)
(* may end if its communicator is destroyed or hung up.                     *)
LocalStep ==
  /\ UNCHANGED <<sockReq, schannels, conn, msg, sockResp, h, cur, reply, execs,
                 csock, up, closing>>
  /\ gone \subseteq gone'
  /\ \A s \in Threads :
       /\ NotSent(s)' => NotSent(s) /\ res'[s] = res[s]
       /\ pc'[s] = "wait" => pc[s] = "wait" /\ made'[s] = made[s] /\ comm'[s] = comm[s]
       /\ pc[s] = "wait" /\ pc'[s] # "wait" =>
            comm[s] \in Chans \cap gone \/ (comm[s] = Sock /\ HungUp)

(* A step of a thread on its own data preserves the invariant.              *)
LEMMA LocalSteps ==
  ASSUME Inv, LocalStep, CallTypes', PoolTypes', PoolInv', StageInv'
  PROVE  Inv'
<1>1. SentInv'
  BY DEF Inv, LocalStep, SentInv, NoToken
<1>2. SockExec'
  BY DEF Inv, LocalStep, SockExec, Good, WireTypes, Msgs
<1>0. GoodKept
  BY DEF LocalStep, GoodKept
<1>3. ChanExec'
  BY <1>0, ChanFrame DEF LocalStep, ChanExec
<1>4. ServeExec'
  BY <1>0, ServeFrame DEF LocalStep
<1>5. SockMatch'
  BY NoneFacts DEF Inv, LocalStep, SockMatch, Waits, HungUp, ServerGone
<1>6. ChanMatch'
  BY NoneFacts, SMT DEF Inv, LocalStep, ChanMatch, ChanMatchOk, Waits
<1> QED
  BY <1>1, <1>2, <1>3, <1>4, <1>5, <1>6, Frames DEF Inv, LocalStep

(* The start of Mount and of CloseFD preserve the invariant.                *)
LEMMA BeginSteps ==
  ASSUME Inv, Mount \/ \E t \in Threads, flush \in BOOLEAN : CloseFD(t, flush)
  PROVE  Inv'
<1>1. UNCHANGED <<comm, res, made, avail, sockMu, sockReq, schannels, conn, msg,
                  sockResp, h, cur, reply, execs, csock, up, closing, gone>>
  BY DEF Mount, CloseFD, pool, ends, wire, sock, server
<1>2. PICK t \in Threads : /\ pc[t] = "idle"
                           /\ \E l \in {"acquire", "end"} : pc' = [pc EXCEPT ![t] = l]
  BY DEF Mount, CloseFD, Goto, Threads
<1>3. /\ pc'[t] \in {"acquire", "end"}
      /\ \A s \in Threads \ {t} : pc'[s] = pc[s]
  BY <1>2 DEF Inv, CallTypes
<1>4. CallTypes'
  BY <1>1, <1>2 DEF Inv, CallTypes
<1>5. StageInv'
  BY <1>1, <1>2, <1>3 DEF Inv, StageInv
<1>6. LocalStep
  BY <1>1, <1>2, <1>3 DEF LocalStep, NotSent
<1> QED
  BY <1>1, <1>4, <1>5, <1>6, LocalSteps, Frames DEF Inv

(* StartChannels preserves the invariant.                                   *)
LEMMA StartChannelsInv ==
  ASSUME Inv, StartChannels
  PROVE  Inv'
<1>1. UNCHANGED <<comm, res, made, sockMu, sockReq, schannels, conn, msg,
                  sockResp, h, cur, reply, execs, csock, up, closing, gone>>
  BY DEF StartChannels, ends, wire, sock, server
<1>2. \A s \in Threads : pc'[s] = pc[s] \/ (pc[s] = "idle" /\ pc'[s] = "acquire")
  BY DEF StartChannels
<1>3. CallTypes'
  BY <1>1 DEF Inv, CallTypes, StartChannels
<1>4. PoolTypes'
  BY <1>1, SMT DEF Inv, PoolTypes, StartChannels
<1>5. PoolInv'
  <2>1. Free' = {} /\ Distinct(avail')
    BY SMT DEF StartChannels, Free, Range, Distinct
  <2> QED
    BY <1>1, <2>1 DEF Inv, PoolInv
<1>6. StageInv'
  BY <1>1, <1>2 DEF Inv, StageInv
<1>7. LocalStep
  BY <1>1, <1>2 DEF LocalStep, NotSent
<1> QED
  BY <1>3, <1>4, <1>5, <1>6, <1>7, LocalSteps

(* getChannel preserves the invariant.                                      *)
LEMMA AcquireInv ==
  ASSUME Inv, NEW t \in Threads, Acquire(t)
  PROVE  Inv'
<1>1. /\ UNCHANGED <<res, made, sockMu, sockReq, schannels, conn, msg, sockResp, h,
                     cur, reply, execs, csock, up, closing, gone>>
      /\ pc[t] = "acquire"
  BY DEF Acquire, ends, wire, sock, server
<1>2. CASE UNCHANGED <<comm, avail>> /\ Goto(t, "sock")
  <2>1. pc'[t] = "sock" /\ \A s \in Threads \ {t} : pc'[s] = pc[s]
    BY <1>2 DEF Goto, Inv, CallTypes
  <2>2. CallTypes'
    BY <1>1, <1>2 DEF Goto, Inv, CallTypes
  <2>3. StageInv'
    BY <1>1, <1>2, <2>1 DEF Inv, StageInv
  <2>4. LocalStep
    BY <1>1, <1>2, <2>1 DEF LocalStep, NotSent
  <2> QED
    BY <1>1, <1>2, <2>2, <2>3, <2>4, LocalSteps, Frames DEF Inv
<1>3. CASE /\ avail \notin {None, << >>} /\ avail' = Pop(avail) /\ Goto(t, "send")
           /\ comm' = [comm EXCEPT ![t] = avail[Len(avail)]]
  <2> DEFINE ch == avail[Len(avail)]
  <2>1. /\ avail \in Seq(Chans) /\ avail' \in Seq(Chans) /\ Distinct(avail')
        /\ ch \in Chans /\ ch \in Free /\ Free' = Free \ {ch}
    BY <1>3, PopFacts, NoneFacts, SMT DEF Inv, PoolTypes, PoolInv, Free
  <2> HIDE DEF ch
  <2>2. /\ pc'[t] = "send" /\ \A s \in Threads \ {t} : pc'[s] = pc[s]
        /\ comm'[t] = ch /\ \A s \in Threads \ {t} : comm'[s] = comm[s]
    BY <1>3 DEF Goto, Inv, CallTypes, ch
  <2>3. CallTypes'
    BY <1>1, <1>3, <2>1, NoneFacts DEF Goto, Inv, CallTypes, ch
  <2>4. PoolTypes'
    BY <1>1, <2>1 DEF Inv, PoolTypes
  <2>5. PoolInv'
    BY <1>1, <2>1, <2>2, NoneFacts, SMT DEF Inv, PoolInv
  <2>6. StageInv'
    BY <1>1, <2>1, <2>2, NoneFacts, SMTT(30) DEF Inv, StageInv
  <2>7. LocalStep
    BY <1>1, <2>2 DEF LocalStep, NotSent
  <2> QED
    BY <2>3, <2>4, <2>5, <2>6, <2>7, LocalSteps
<1> QED
  BY <1>2, <1>3 DEF Acquire

(* Taking the socket's lock preserves the invariant.                        *)
LEMMA AcquireSockInv ==
  ASSUME Inv, NEW t \in Threads, AcquireSock(t)
  PROVE  Inv'
<1>1. UNCHANGED <<res, made, avail, sockReq, schannels, conn, msg, sockResp, h, cur,
                  reply, execs, csock, up, closing, gone>>
  BY DEF AcquireSock, pool, ends, wire, sock, server
<1>2. /\ pc[t] = "sock" /\ pc'[t] = "send" /\ comm'[t] = Sock /\ sockMu = None /\ sockMu' = t
      /\ \A s \in Threads \ {t} : pc'[s] = pc[s] /\ comm'[s] = comm[s]
  BY DEF AcquireSock, Goto, Inv, CallTypes
<1>3. CallTypes'
  BY <1>1, NoneFacts DEF AcquireSock, Goto, Inv, CallTypes
<1>4. PoolTypes'
  BY <1>1, <1>2 DEF Inv, PoolTypes
<1>5. PoolInv'
  BY <1>1, <1>2, NoneFacts, SMT DEF Inv, PoolInv, Free, CallTypes
<1>6. StageInv'
  BY <1>1, <1>2, NoneFacts DEF Inv, StageInv
<1>7. LocalStep
  BY <1>1, <1>2 DEF LocalStep, NotSent
<1> QED
  BY <1>3, <1>4, <1>5, <1>6, <1>7, LocalSteps

(* releaseChannel and the unlock preserve the invariant.                    *)
LEMMA ReleaseInv ==
  ASSUME Inv, NEW t \in Threads, Release(t)
  PROVE  Inv'
<1>1. UNCHANGED <<res, sockReq, schannels, conn, msg, sockResp, h, cur, reply, execs,
                  csock, up, closing, gone>>
  BY DEF Release, ends, wire, sock, server
<1>2. /\ pc[t] = "release" /\ pc'[t] \in {"connect", "end"} /\ comm'[t] = None
      /\ pc'[t] = "connect" => t \in Creators /\ res[t] = "ok"
      /\ \A s \in Threads \ {t} : pc'[s] = pc[s] /\ comm'[s] = comm[s] /\ made'[s] = made[s]
      /\ made'[t] = IF res[t] = "ok" THEN made[t] ELSE None
  BY DEF Release, Goto, Inv, CallTypes
<1>3. CallTypes'
  BY <1>1 DEF Release, Goto, Inv, CallTypes
<1>4. /\ avail' \in {None} \cup Seq(Chans) /\ (avail' # None => Distinct(avail'))
      /\ \/ Free' = Free
         \/ comm[t] \in Chans /\ Free' = Free \cup {comm[t]}
  <2>1. CASE comm[t] \in Chans /\ Reinsert(comm[t])
    <3>1. /\ avail \in Seq(Chans) /\ Distinct(avail) /\ comm[t] \notin Range(avail)
          /\ avail' = Append(avail, comm[t])
      BY <2>1 DEF Reinsert, Release, Inv, PoolTypes, PoolInv, Free
    <3> QED
      BY <2>1, <3>1, AppendFacts, NoneFacts DEF Free
  <2>2. CASE ~(comm[t] \in Chans /\ Reinsert(comm[t]))
    BY <2>2 DEF Release, Inv, PoolTypes, PoolInv, Free
  <2> QED
    BY <2>1, <2>2
<1>5. sockMu' = IF comm[t] = Sock THEN None ELSE sockMu
  BY DEF Release
<1>6. PoolTypes'
  BY <1>1, <1>4, <1>5 DEF Inv, PoolTypes
<1>7. PoolInv'
  <2>1. Free' \subseteq schannels'
    BY <1>1, <1>4, SMT DEF Inv, PoolInv
  <2>2. ASSUME NEW r \in Threads, comm'[r] \in Chans
        PROVE  /\ comm'[r] \in schannels' \ Free'
               /\ \A s \in Threads : comm'[s] = comm'[r] => s = r
    <3>1. r # t /\ comm'[r] = comm[r]
      BY <2>2, <1>2, NoneFacts
    <3> QED
      BY <2>2, <3>1, <1>1, <1>2, <1>4, NoneFacts, SMT DEF Inv, PoolInv
  <2>3. ASSUME NEW r \in Threads, made'[r] # None
        PROVE  /\ made'[r] \in schannels' \ Free'
               /\ \A s \in Threads : comm'[s] # made'[r] /\ (made'[s] = made'[r] => s = r)
    <3>1. made'[r] = made[r] /\ \A s \in Threads : made'[s] \in {made[s], None} /\ comm'[s] \in {comm[s], None}
      BY <2>3, <1>2
    <3> QED
      BY <2>3, <3>1, <1>1, <1>4 DEF Inv, PoolInv
  <2>4. ASSUME NEW r \in Threads, comm'[r] = Sock
        PROVE  sockMu' = r
    BY <2>4, <1>2, <1>5, NoneFacts DEF Inv, PoolInv
  <2> QED
    BY <1>4, <2>1, <2>2, <2>3, <2>4 DEF PoolInv
<1>8. StageInv'
  BY <1>1, <1>2 DEF Inv, StageInv
<1>9. LocalStep
  BY <1>1, <1>2 DEF LocalStep, NotSent, Inv, StageInv
<1> QED
  BY <1>3, <1>6, <1>7, <1>8, <1>9, LocalSteps

(* Connect on a new channel preserves the invariant.                        *)
LEMMA ConnectInv ==
  ASSUME Inv, NEW t \in Threads, Connect(t)
  PROVE  Inv'
<1>1. /\ UNCHANGED <<comm, res, made, avail, sockMu, sockReq, schannels, conn, msg,
                     sockResp, h, cur, reply, execs, csock, up, closing>>
      /\ gone \subseteq gone'
  BY DEF Connect, ends, wire, sock, server
<1>2. /\ pc[t] = "connect" /\ pc'[t] \in {"add", "end"}
      /\ \A s \in Threads \ {t} : pc'[s] = pc[s]
  BY DEF Connect, Goto, Inv, CallTypes
<1>3. CallTypes'
  BY <1>1 DEF Connect, Goto, Inv, CallTypes
<1>4. StageInv'
  BY <1>1, <1>2 DEF Inv, StageInv
<1>5. LocalStep
  BY <1>1, <1>2 DEF LocalStep, NotSent, Inv, StageInv
<1> QED
  BY <1>1, <1>3, <1>4, <1>5, LocalSteps, Frames DEF Inv

(* A channel made becomes available.                                        *)
LEMMA AddChannelInv ==
  ASSUME Inv, NEW t \in Threads, AddChannel(t)
  PROVE  Inv'
<1>1. UNCHANGED <<comm, res, sockMu, sockReq, schannels, conn, msg, sockResp, h, cur,
                  reply, execs, csock, up, closing, gone>>
  BY DEF AddChannel, ends, wire, sock, server
<1>2. /\ pc[t] = "add" /\ pc'[t] = "end" /\ made'[t] = None
      /\ \A s \in Threads \ {t} : pc'[s] = pc[s] /\ made'[s] = made[s]
  BY DEF AddChannel, Goto, Inv, CallTypes
<1>3. CallTypes'
  BY <1>1 DEF AddChannel, Goto, Inv, CallTypes
<1>4. made[t] \in Chans /\ made[t] \in schannels \ Free
  BY <1>2 DEF Inv, CallTypes, PoolInv, StageInv
<1>5. avail' \in Seq(Chans) /\ Distinct(avail') /\ Free' = Free \cup {made[t]}
  <2>1. Stack \in Seq(Chans) /\ Distinct(Stack) /\ Range(Stack) = Free
    BY SMT DEF Stack, Inv, PoolTypes, PoolInv, Free, Distinct, Range
  <2> QED
    BY <2>1, <1>4, AppendFacts, NoneFacts DEF AddChannel, Free
<1>6. PoolTypes'
  BY <1>1, <1>5 DEF Inv, PoolTypes
<1>7. PoolInv'
  BY <1>1, <1>2, <1>4, <1>5, NoneFacts, SMT DEF Inv, PoolInv
<1>8. StageInv'
  BY <1>1, <1>2 DEF Inv, StageInv
<1>9. LocalStep
  BY <1>1, <1>2 DEF LocalStep, NotSent, Inv, StageInv
<1> QED
  BY <1>3, <1>6, <1>7, <1>8, <1>9, LocalSteps

(* A call fails before it is sent, or because its communicator is gone.     *)
LEMMA FailInv ==
  ASSUME Inv, NEW t \in Threads, NEW r \in {"err", "fault"}, Finish(t, r),
         pc[t] \in {"send", "wait"},
         pc[t] = "wait" => comm[t] \in Chans \cap gone \/ (comm[t] = Sock /\ HungUp),
         UNCHANGED <<comm, made, avail, sockMu, sockReq, schannels, conn, msg,
                     sockResp, h, cur, reply, execs, csock, up, closing, gone>>
  PROVE  Inv'
<1>1. /\ pc'[t] = "release" /\ res'[t] = r
      /\ \A s \in Threads \ {t} : pc'[s] = pc[s] /\ res'[s] = res[s]
  BY DEF Finish, Goto, Inv, CallTypes
<1>2. CallTypes'
  BY DEF Finish, Goto, Inv, CallTypes
<1>3. StageInv'
  BY <1>1 DEF Inv, StageInv
<1>4. LocalStep
  BY <1>1 DEF LocalStep, NotSent
<1> QED
  BY <1>2, <1>3, <1>4, LocalSteps, Frames DEF Inv

(* A request over the socket.                                               *)
LEMMA SockSendInv ==
  ASSUME Inv, NEW t \in Threads, SockSend(t)
  PROVE  Inv'
<1>1. /\ pc[t] = "send" /\ comm[t] = Sock
      /\ UNCHANGED <<comm, made, avail, sockMu, schannels, conn, msg, sockResp, h,
                     cur, reply, execs, csock, up, closing, gone>>
  BY DEF SockSend, pool, ends, wire, server
<1>2. CASE Finish(t, "err") /\ UNCHANGED sockReq
  BY <1>1, <1>2, FailInv
<1>3. CASE ~HungUp /\ sockReq' = t /\ Goto(t, "wait") /\ UNCHANGED res
  <2>1. pc'[t] = "wait" /\ \A s \in Threads \ {t} : pc'[s] = pc[s]
    BY <1>3 DEF Goto, Inv, CallTypes
  <2>2. NoToken(t) /\ execs[t] = 0 /\ res[t] = "none"
    BY <1>1 DEF Inv, SentInv, NotSent
  <2>3. \A s \in Threads : comm[s] = Sock => s = t
    BY <1>1 DEF Inv, PoolInv
  <2>4. cur[Sock] = None /\ sockResp.call = None
    <3>1. cur[Sock] \in Threads \cup {None} /\ sockResp.call \in Threads \cup {None}
      BY NoneFacts, MsgFacts DEF Inv, ServerTypes, WireTypes
    <3> QED
      BY <3>1, <1>1, <1>3, <2>3 DEF Inv, SockMatch, Waits
  <2>5. CallTypes'
    BY <1>1, <1>3 DEF Goto, Inv, CallTypes
  <2>6. PoolTypes'
    BY <1>1, <1>3 DEF Inv, PoolTypes
  <2>7. SentInv'
    BY <1>1, <1>3, <2>1 DEF Inv, SentInv, NotSent, NoToken
  <2>8. StageInv'
    BY <1>1, <1>3, <2>1, <2>2, NoneFacts DEF Inv, StageInv
  <2>9. TokenInv'
    BY <1>1, <1>3, <2>2 DEF Inv, TokenInv, TokenOk, NoToken
  <2>0. GoodKept
    BY <1>1, <2>1, <2>2, SMT DEF GoodKept
  <2>10. SockExec'
    BY <1>1, <1>3, <2>1, <2>2, MsgFacts DEF Inv, SockExec, Good, NoToken, WireTypes
  <2>11. ChanExec'
    BY <1>1, <2>0, ChanFrame DEF ChanExec
  <2>12. ServeExec'
    BY <1>1, <2>0, ServeFrame
  <2>13. SockMatch'
    BY <1>1, <1>3, <2>1, <2>3, <2>4, NoneFacts DEF SockMatch, Waits
  <2>14. ChanMatch'
    BY <1>1, <2>1, NoneFacts, SMT DEF Inv, ChanMatch, ChanMatchOk, Waits
  <2> QED
    BY <1>1, <2>5, <2>6, <2>7, <2>8, <2>9, <2>10, <2>11, <2>12, <2>13, <2>14, Frames
       DEF Inv
<1> QED
  BY <1>2, <1>3 DEF SockSend

(* Its answer.                                                              *)
LEMMA SockRecvInv ==
  ASSUME Inv, NEW t \in Threads, SockRecv(t)
  PROVE  Inv'
<1>1. /\ pc[t] = "wait" /\ comm[t] = Sock
      /\ UNCHANGED <<comm, made, avail, sockMu, sockReq, schannels, conn, msg, h,
                     cur, reply, execs, csock, up, closing, gone>>
  BY DEF SockRecv, pool, ends, wire, server
<1>2. CASE HungUp /\ Finish(t, "err") /\ UNCHANGED sockResp
  BY <1>1, <1>2, FailInv
<1>3. CASE sockResp # NoMsg /\ Finish(t, Result(sockResp)) /\ sockResp' = NoMsg
  <2>1. /\ pc'[t] = "release" /\ res'[t] = Result(sockResp)
        /\ \A s \in Threads \ {t} : pc'[s] = pc[s] /\ res'[s] = res[s]
    BY <1>3 DEF Finish, Goto, Inv, CallTypes
  <2>2. sockResp.call = t /\ sockReq # t /\ cur[Sock] # t
    BY <1>1, <1>3, NoneFacts DEF Inv, SockExec, SockMatch, Waits, TokenInv, TokenOk
  <2>3. Result(sockResp) = "ok" /\ t \in Creators => made[t] # None
    BY <1>1, <2>2 DEF Inv, SockExec, Good, Result
  <2>4. CallTypes'
    BY <1>1, <1>3 DEF Finish, Goto, Inv, CallTypes, Result
  <2>5. WireTypes'
    BY <1>1, <1>3, MsgFacts DEF Inv, WireTypes
  <2>6. SentInv'
    BY <1>1, <1>3, <2>1, MsgFacts, NoneFacts, SMT DEF Inv, SentInv, NotSent, NoToken
  <2>7. StageInv'
    BY <1>1, <2>1, <2>3 DEF Inv, StageInv, Result
  <2>8. TokenInv'
    BY <1>1, <1>3, MsgFacts, NoneFacts, SMT DEF Inv, TokenInv, TokenOk
  <2>9. SockExec'
    BY <1>1, <1>3, MsgFacts DEF Inv, SockExec, Good
  <2>0. GoodKept
    BY <1>1, <2>1 DEF GoodKept
  <2>10. ChanExec'
    BY <1>1, <2>0, ChanFrame DEF ChanExec
  <2>11. ServeExec'
    BY <1>1, <2>0, ServeFrame
  <2>12. SockMatch'
    BY <1>1, <1>3, <2>1, <2>2, MsgFacts, NoneFacts DEF Inv, SockMatch, Waits, HungUp, ServerGone
  <2>13. ChanMatch'
    BY <1>1, <2>1, NoneFacts, SMT DEF Inv, ChanMatch, ChanMatchOk, Waits
  <2> QED
    BY <1>1, <2>4, <2>5, <2>6, <2>7, <2>8, <2>9, <2>10, <2>11, <2>12, <2>13, Frames
       DEF Inv
<1> QED
  BY <1>2, <1>3 DEF SockRecv

(* A request over a channel.                                                *)
LEMMA SendInv ==
  ASSUME Inv, NEW t \in Threads, Send(t)
  PROVE  Inv'
<1> DEFINE ch == comm[t]
<1>1. /\ pc[t] = "send" /\ ch \in Chans
      /\ UNCHANGED <<comm, made, avail, sockMu, sockReq, sockResp, schannels, h, cur,
                     reply, execs, csock, up, closing, gone>>
  BY DEF Send, ends, sock, server
<1>2. CASE \E r \in {"err", "fault"} : Finish(t, r) /\ UNCHANGED <<conn, msg>>
  BY <1>1, <1>2, FailInv
<1>3. CASE /\ ch \notin gone /\ conn[ch] # "down"
           /\ conn' = [conn EXCEPT ![ch] = "server"]
           /\ msg' = [msg EXCEPT ![ch] = [call |-> t, ok |-> TRUE]]
           /\ Goto(t, "wait") /\ UNCHANGED res
  <2>1. pc'[t] = "wait" /\ \A s \in Threads \ {t} : pc'[s] = pc[s]
    BY <1>3 DEF Goto, Inv, CallTypes
  <2>2. NoToken(t) /\ execs[t] = 0 /\ res[t] = "none"
    BY <1>1 DEF Inv, SentInv, NotSent
  <2>3. ch \in schannels /\ \A s \in Threads : comm[s] = ch => s = t
    BY <1>1 DEF Inv, PoolInv
  <2>4. cur[ch] = None
    <3>1. cur[ch] \in Threads \cup {None}
      BY <1>1, NoneFacts DEF Inv, ServerTypes
    <3> QED
      BY <3>1, <1>1, <1>3, <2>3, SMT DEF Inv, ChanMatch, ChanMatchOk, Waits
  <2>5. /\ conn'[ch] = "server" /\ msg'[ch].call = t
        /\ \A d \in Chans \ {ch} : conn'[d] = conn[d] /\ msg'[d] = msg[d]
    BY <1>1, <1>3 DEF Inv, WireTypes
  <2>6. CallTypes'
    BY <1>1, <1>3 DEF Goto, Inv, CallTypes
  <2>7. WireTypes'
    BY <1>1, <1>3, MsgFacts DEF Inv, WireTypes
  <2> HIDE DEF ch
  <2>8. UnmadeInv'
    BY <1>1, <2>3, <2>5 DEF Inv, UnmadeInv
  <2>9. SentInv'
    BY <1>1, <1>3, <2>1, <2>5, SMT DEF Inv, SentInv, NotSent, NoToken
  <2>10. StageInv'
    BY <1>1, <1>3, <2>1, <2>2, NoneFacts DEF Inv, StageInv, ch
  <2>0. GoodKept
    BY <1>1, <2>1, <2>2, SMT DEF GoodKept
  <2>11. TokenInv'
    <3>1. ASSUME NEW s \in Threads, s # t
          PROVE  TokenOk(s)'
      <4>1. \A d \in Chans : msg'[d].call = s => msg[d].call = s
        BY <2>5, <3>1
      <4> QED
        BY <1>1, <3>1, <4>1 DEF Inv, TokenInv, TokenOk
    <3>2. TokenOk(t)'
      <4>1. \A d \in Chans : msg'[d].call = t => d = ch
        BY <2>2, <2>5 DEF NoToken
      <4> QED
        BY <1>1, <2>2, <4>1 DEF TokenOk, NoToken
    <3> QED
      BY <3>1, <3>2 DEF TokenInv
  <2>12. SockExec'
    BY <1>1, <2>1, <2>2, MsgFacts DEF Inv, SockExec, Good, NoToken, WireTypes
  <2>13. ChanExec'
    <3>1. ASSUME NEW d \in Chans, d = ch
          PROVE  ChanOk(d)'
      BY <1>1, <2>2, <2>5, <3>1, NoneFacts DEF ChanOk
    <3>2. ASSUME NEW d \in Chans, d # ch
          PROVE  ChanOk(d)'
      BY <1>1, <2>0, <2>5, <3>2, ChanFrame
    <3> QED
      BY <3>1, <3>2 DEF ChanExec
  <2>14. ServeExec'
    BY <1>1, <2>0, ServeFrame
  <2>15. SockMatch'
    BY <1>1, <2>1, NoneFacts DEF Inv, SockMatch, Waits, HungUp, ServerGone, ch
  <2>16. ChanMatch'
    <3>1. ASSUME NEW d \in Chans, NEW s \in Threads, d = ch
          PROVE  ChanMatchOk(d, s)'
      BY <1>1, <2>1, <2>3, <2>4, <2>5, <3>1, NoneFacts DEF ChanMatchOk, Waits, ch
    <3>2. ASSUME NEW d \in Chans, NEW s \in Threads, d # ch
          PROVE  ChanMatchOk(d, s)'
      <4>1. conn'[d] = conn[d] /\ msg'[d] = msg[d] /\ cur'[d] = cur[d] /\ gone' = gone
        BY <1>1, <2>5, <3>2
      <4>2. Waits(s, d)' <=> Waits(s, d)
        BY <1>1, <2>1, <3>2 DEF Waits, ch
      <4>3. ChanMatchOk(d, s)
        BY DEF Inv, ChanMatch
      <4> QED
        BY <4>1, <4>2, <4>3 DEF ChanMatchOk
    <3> QED
      BY <3>1, <3>2 DEF ChanMatch
  <2> QED
    BY <1>1, <2>6, <2>7, <2>8, <2>9, <2>10, <2>11, <2>12, <2>13, <2>14, <2>15, <2>16,
       Frames DEF Inv
<1> QED
  BY <1>2, <1>3 DEF Send, Broken, wire

(* Its answer.                                                              *)
LEMMA RecvInv ==
  ASSUME Inv, NEW t \in Threads, Recv(t)
  PROVE  Inv'
<1> DEFINE ch == comm[t]
<1>1. /\ pc[t] = "wait" /\ ch \in Chans
      /\ UNCHANGED <<comm, made, avail, sockMu, sockReq, sockResp, schannels, h, cur,
                     reply, execs, csock, up, closing, gone>>
  BY DEF Recv, ends, sock, server
<1>2. CASE ch \in gone /\ Finish(t, "fault") /\ UNCHANGED <<conn, msg>>
  BY <1>1, <1>2, FailInv
<1>3. ASSUME NEW r \in {"ok", "err"}, Finish(t, r), ch \notin gone,
             NEW next \in {"client", "down"}, conn' = [conn EXCEPT ![ch] = next],
             next = "client" => conn[ch] = "client",
             r = "ok" => conn[ch] = "client" /\ msg[ch].ok,
             msg' = [msg EXCEPT ![ch] = NoMsg]
      PROVE  Inv'
  <2>1. /\ pc'[t] = "release" /\ res'[t] = r
        /\ \A s \in Threads \ {t} : pc'[s] = pc[s] /\ res'[s] = res[s]
    BY <1>3 DEF Finish, Goto, Inv, CallTypes
  <2>2. conn[ch] = "client" => msg[ch].call = t /\ cur[ch] # t
    BY <1>1, <1>3, NoneFacts, SMT DEF Inv, ChanMatch, ChanMatchOk, Waits, TokenInv, TokenOk
  <2>3. ch \in schannels /\ \A s \in Threads : comm[s] = ch => s = t
    BY <1>1 DEF Inv, PoolInv
  <2>4. r = "ok" /\ t \in Creators => made[t] # None
    BY <1>1, <1>3, <2>2 DEF Inv, ChanExec, ChanOk, Good
  <2>5. /\ conn'[ch] = next /\ msg'[ch] = NoMsg
        /\ \A d \in Chans \ {ch} : conn'[d] = conn[d] /\ msg'[d] = msg[d]
    BY <1>1, <1>3 DEF Inv, WireTypes
  <2>6. CallTypes'
    BY <1>1, <1>3 DEF Finish, Goto, Inv, CallTypes
  <2>7. WireTypes'
    BY <1>1, <1>3, MsgFacts DEF Inv, WireTypes
  <2> HIDE DEF ch
  <2>8. UnmadeInv'
    BY <1>1, <2>3, <2>5 DEF Inv, UnmadeInv
  <2>9. SentInv'
    BY <1>1, <2>1, <2>5, MsgFacts, NoneFacts, SMT DEF Inv, SentInv, NotSent, NoToken
  <2>10. StageInv'
    BY <1>1, <2>1, <2>4 DEF Inv, StageInv
  <2>0. GoodKept
    BY <1>1, <2>1 DEF GoodKept
  <2>11. TokenInv'
    BY <1>1, <2>5, MsgFacts, NoneFacts, SMT DEF Inv, TokenInv, TokenOk
  <2>12. SockExec'
    BY <1>1, <2>1, MsgFacts DEF Inv, SockExec, Good, WireTypes
  <2>13. ChanExec'
    <3>1. ASSUME NEW d \in Chans, d = ch
          PROVE  ChanOk(d)'
      <4>1. ~msg'[d].ok
        BY <2>5, <3>1, MsgFacts
      <4>2. conn'[d] # "server"
        BY <1>3, <2>5, <3>1
      <4> QED
        BY <4>1, <4>2 DEF ChanOk, Good
    <3>2. ASSUME NEW d \in Chans, d # ch
          PROVE  ChanOk(d)'
      BY <1>1, <2>0, <2>5, <3>2, ChanFrame
    <3> QED
      BY <3>1, <3>2 DEF ChanExec
  <2>14. ServeExec'
    BY <1>1, <2>0, ServeFrame
  <2>15. SockMatch'
    BY <1>1, <2>1, NoneFacts DEF Inv, SockMatch, Waits, HungUp, ServerGone, ch
  <2>16. ChanMatch'
    <3>1. next = "client" => cur[ch] = None
      BY <1>1, <1>3, <2>2 DEF Inv, ChanMatch, ChanMatchOk, Waits, ch
    <3>2. ASSUME NEW d \in Chans, NEW s \in Threads, d = ch
          PROVE  ChanMatchOk(d, s)'
      <4>1. ~Waits(s, d)'
        BY <1>1, <2>1, <2>3, <3>2 DEF Waits
      <4>2. msg'[d].call = None /\ (conn'[d] # "down" => cur'[d] = None)
        BY <1>1, <1>3, <2>5, <3>1, <3>2, MsgFacts
      <4> QED
        BY <4>1, <4>2, NoneFacts DEF ChanMatchOk
    <3>3. ASSUME NEW d \in Chans, NEW s \in Threads, d # ch
          PROVE  ChanMatchOk(d, s)'
      <4>1. conn'[d] = conn[d] /\ msg'[d] = msg[d] /\ cur'[d] = cur[d] /\ gone' = gone
        BY <1>1, <2>5, <3>3
      <4>2. Waits(s, d)' <=> Waits(s, d)
        BY <1>1, <2>1, <3>3 DEF Waits, ch
      <4>3. ChanMatchOk(d, s)
        BY DEF Inv, ChanMatch
      <4> QED
        BY <4>1, <4>2, <4>3 DEF ChanMatchOk
    <3> QED
      BY <3>2, <3>3 DEF ChanMatch
  <2> QED
    BY <1>1, <2>6, <2>7, <2>8, <2>9, <2>10, <2>11, <2>12, <2>13, <2>14, <2>15, <2>16,
       Frames DEF Inv
<1>4. CASE ch \notin gone
  <2>1. /\ conn' = [conn EXCEPT ![ch] = After("client", ch, conn[ch])]
        /\ msg' = [msg EXCEPT ![ch] = NoMsg]
    BY <1>1, <1>4 DEF Recv
  <2>2. CASE conn[ch] = "client" /\ Finish(t, Result(msg[ch]))
    <3>1. After("client", ch, conn[ch]) \in {"client", "down"}
      BY <2>2 DEF After
    <3>2. Result(msg[ch]) \in {"ok", "err"} /\ (Result(msg[ch]) = "ok" => msg[ch].ok)
      BY <1>1, MsgFacts DEF Result, Inv, WireTypes
    <3> QED
      BY <1>3, <1>4, <2>1, <2>2, <3>1, <3>2
  <2>3. CASE Broken("client", ch) /\ Finish(t, "err")
    <3>1. After("client", ch, conn[ch]) = "down"
      BY <2>3 DEF After, Broken
    <3> QED
      BY <1>3, <1>4, <2>1, <2>3, <3>1
  <2> QED
    BY <1>4, <2>2, <2>3 DEF Recv
<1> QED
  BY <1>2, <1>4 DEF Recv

-----------------------------------------------------------------------------
(* The steps of the gofer, of watchdog and of Close.                         *)

(* The token of a call is nowhere it was not.  When one request moves and    *)
(* all others stay, what is said of tokens is kept.                         *)
Stays(t) ==
  /\ (sockReq' = t => sockReq = t) /\ (sockResp'.call = t => sockResp.call = t)
  /\ \A ch \in Chans : msg'[ch].call = t => msg[ch].call = t
  /\ \A u \in Comms : cur'[u] = t => cur[u] = t

(* Receiving or answering the request m leaves every other one in its       *)
(* place.                                                                   *)
LEMMA TokensKept ==
  ASSUME Inv, UNCHANGED <<pc, res, execs>>, NEW m, ~NoToken(m),
         \A t \in Threads : t # m => Stays(t), m \in Threads => TokenOk(m)'
  PROVE  SentInv' /\ TokenInv'
<1>1. ASSUME NEW t \in Threads, NotSent(t)'
      PROVE  res'[t] = "none" /\ execs'[t] = 0 /\ NoToken(t)'
  <2>1. NotSent(t) /\ res[t] = "none" /\ execs[t] = 0 /\ NoToken(t)
    BY <1>1 DEF Inv, SentInv, NotSent
  <2>2. Stays(t)
    BY <2>1
  <2> QED
    BY <2>1, <2>2 DEF NoToken, Stays
<1>2. ASSUME NEW t \in Threads PROVE TokenOk(t)'
  <2>1. CASE t = m
    BY <2>1
  <2>2. CASE t # m
    <3>1. Stays(t) /\ TokenOk(t)
      BY <2>2 DEF Inv, TokenInv
    <3> QED
      BY <3>1 DEF Stays, TokenOk
  <2> QED
    BY <2>1, <2>2
<1> QED
  BY <1>1, <1>2 DEF SentInv, TokenInv

(* Run sends an answer on the socket.                                       *)
LEMMA RunReplyInv ==
  ASSUME Inv, RunReply
  PROVE  Inv'
<1>1. /\ h[Sock] = "reply" /\ Answered(Sock)
      /\ UNCHANGED <<pc, comm, res, made, avail, sockMu, sockReq, schannels, conn, msg,
                     execs, csock, up, closing, gone>>
  BY DEF RunReply, threads, pool, ends, wire
<1>2. Sock \in Comms /\ cur[Sock] \in Threads /\ reply[Sock].call = cur[Sock]
  BY <1>1 DEF Inv, ServeExec, ServerTypes, Comms
<1>3. /\ cur' \in [Comms -> Threads \cup {None}] /\ cur'[Sock] = None
      /\ \A v \in Comms \ {Sock} : cur'[v] = cur[v] /\ reply'[v] = reply[v]
      /\ reply' \in [Comms -> Msgs]
  BY <1>1, <1>2, MsgFacts DEF Answered, Inv, ServerTypes
<1>4. /\ h'[Sock] \in {"recv", "exited"} /\ \A v \in Comms \ {Sock} : h'[v] = h[v]
      /\ h' \in [Comms -> {"none", "recv", "enter", "handle", "reply", "exited"}]
  BY <1>2 DEF RunReply, HGoto, Inv, ServerTypes
<1>5. sockResp' = sockResp \/ sockResp' = reply[Sock]
  BY DEF RunReply
<1>6. WireTypes'
  BY <1>1, <1>2, <1>5 DEF Inv, WireTypes, ServerTypes
<1>7. ServerTypes'
  BY <1>1, <1>3, <1>4 DEF Inv, ServerTypes
<1>8. UnmadeInv'
  BY <1>1, <1>3, <1>4, NoneFacts DEF Inv, UnmadeInv
<1>9. SentInv' /\ TokenInv'
  <2>0. PICK m : m = cur[Sock]
    OBVIOUS
  <2>1. m \in Threads /\ ~NoToken(m)
    BY <1>2, <2>0 DEF NoToken
  <2>2. ASSUME NEW t \in Threads, t # m PROVE Stays(t)
    BY <1>1, <1>2, <1>3, <1>5, <2>0, <2>2, NoneFacts DEF Stays
  <2>3. TokenOk(m)'
    <3>1. /\ sockReq # m /\ sockResp.call # m /\ \A d \in Chans : msg[d].call # m
          /\ \A v \in Comms \ {Sock} : cur[v] # m
      BY <1>2, <2>0, <2>1 DEF Inv, TokenInv, TokenOk
    <3>2. \A v \in Comms : cur'[v] # m
      BY <1>3, <2>1, <3>1, NoneFacts
    <3> QED
      BY <1>1, <3>1, <3>2 DEF TokenOk
  <2> QED
    BY <1>1, <2>1, <2>2, <2>3, TokensKept
<1>11. SockExec'
  <2>1. Good(sockResp) /\ Good(reply[Sock]) /\ reply[Sock].call # None
    BY <1>1, <1>2, NoneFacts DEF Inv, SockExec, ServeExec
  <2>2. Good(sockResp)'
    BY <1>1, <1>5, <2>1 DEF Good
  <2> QED
    BY <1>1, <1>5, <2>1, <2>2 DEF Inv, SockExec
<1>12. ChanExec'
  BY <1>1, <1>4, NoneFacts DEF Inv, ChanExec, ChanOk, Good
<1>13. ServeExec'
  <2> SUFFICES ASSUME NEW v \in Comms
               PROVE  /\ h'[v] \in {"enter", "handle", "reply"} <=> cur'[v] # None
                      /\ h'[v] \in {"enter", "handle"} => execs'[cur'[v]] = 0
                      /\ h'[v] = "reply" => reply'[v].call = cur'[v] /\ Good(reply[v])'
    BY DEF ServeExec
  <2>1. CASE v = Sock
    BY <1>3, <1>4, <2>1
  <2>2. CASE v # Sock
    <3>1. h'[v] = h[v] /\ cur'[v] = cur[v] /\ reply'[v] = reply[v]
      BY <1>3, <1>4, <2>2
    <3>2. Good(reply[v])' <=> Good(reply[v])
      BY <1>1, <3>1 DEF Good
    <3> QED
      BY <1>1, <3>1, <3>2 DEF Inv, ServeExec
  <2> QED
    BY <2>1, <2>2
<1>14. SockMatch'
  <2>1. HungUp' <=> HungUp
    BY <1>1 DEF HungUp, ServerGone
  <2>2. sockResp'.call \in {sockResp.call, cur[Sock]} /\ cur'[Sock] = None
    BY <1>2, <1>3, <1>5
  <2>3. ASSUME NEW t \in Threads
        PROVE  /\ Waits(t, Sock)' <=> Waits(t, Sock)
               /\ t \in {sockReq', cur'[Sock], sockResp'.call} =>
                    t \in {sockReq, cur[Sock], sockResp.call}
    BY <1>1, <2>2, NoneFacts DEF Waits
  <2>4. ASSUME NEW t \in Threads, Waits(t, Sock)
        PROVE  {sockReq', cur'[Sock], sockResp'.call} \subseteq {None, t}
    BY <1>1, <2>2, <2>4 DEF Inv, SockMatch
  <2> QED
    BY <2>1, <2>3, <2>4 DEF Inv, SockMatch
<1>15. ChanMatch'
  <2>1. ASSUME NEW d \in Chans, NEW t \in Threads PROVE ChanMatchOk(d, t)'
    <3>1. cur'[d] = cur[d] /\ ChanMatchOk(d, t)
      BY <1>3, NoneFacts DEF Inv, ChanMatch
    <3> QED
      BY <1>1, <3>1 DEF ChanMatchOk, Waits
  <2> QED
    BY <2>1 DEF ChanMatch
<1> QED
  BY <1>1, <1>6, <1>7, <1>8, <1>9, <1>11, <1>12, <1>13, <1>14, <1>15, Frames DEF Inv

(* service sends an answer on its channel.                                  *)
LEMMA ServiceReplyInv ==
  ASSUME Inv, NEW ch \in Chans, ServiceReply(ch)
  PROVE  Inv'
<1>1. /\ h[ch] = "reply" /\ Answered(ch)
      /\ UNCHANGED <<pc, comm, res, made, avail, sockMu, sockReq, sockResp, schannels,
                     execs, csock, up, closing, gone>>
  BY DEF ServiceReply, threads, pool, ends, sock
<1>2. /\ ch \in Comms /\ cur[ch] \in Threads /\ reply[ch].call = cur[ch]
      /\ reply[ch] \in Msgs /\ ch \in schannels
  BY <1>1 DEF Inv, ServeExec, ServerTypes, Comms, UnmadeInv
<1>3. /\ cur' \in [Comms -> Threads \cup {None}] /\ cur'[ch] = None
      /\ \A v \in Comms \ {ch} : cur'[v] = cur[v] /\ reply'[v] = reply[v]
      /\ reply' \in [Comms -> Msgs]
  BY <1>1, <1>2, MsgFacts DEF Answered, Inv, ServerTypes
<1>4. /\ h'[ch] \in {"recv", "exited"} /\ \A v \in Comms \ {ch} : h'[v] = h[v]
      /\ h' \in [Comms -> {"none", "recv", "enter", "handle", "reply", "exited"}]
  BY <1>2 DEF ServiceReply, HGoto, Inv, ServerTypes
<1>5. /\ \/ /\ msg'[ch] = reply[ch] /\ conn'[ch] = "client" /\ ~Broken("server", ch)
            /\ h'[ch] = "recv"
         \/ /\ msg'[ch] = msg[ch] /\ conn'[ch] = conn[ch] /\ h'[ch] = "exited"
      /\ \A d \in Chans \ {ch} : msg'[d] = msg[d] /\ conn'[d] = conn[d]
      /\ msg' \in [Chans -> Msgs] /\ conn' \in [Chans -> {"client", "server", "down"}]
  BY <1>2 DEF ServiceReply, HGoto, Inv, ServerTypes, WireTypes
<1>6. WireTypes'
  BY <1>1, <1>5 DEF Inv, WireTypes
<1>7. ServerTypes'
  BY <1>1, <1>3, <1>4 DEF Inv, ServerTypes
<1>8. UnmadeInv'
  <2>1. \A d \in Chans \ schannels : /\ d # ch /\ d \in Comms /\ h'[d] = h[d]
                                      /\ cur'[d] = cur[d] /\ msg'[d] = msg[d] /\ conn'[d] = conn[d]
    BY <1>2, <1>3, <1>4, <1>5, NoneFacts
  <2> QED
    BY <1>1, <2>1 DEF Inv, UnmadeInv
<1>9. SentInv'
  <2>1. \A t \in Threads : NotSent(t) => cur[ch] # t
    BY <1>2 DEF Inv, SentInv, NoToken
  <2>2. \A t \in Threads : NotSent(t) => \A d \in Chans : msg'[d].call # t
    BY <1>2, <1>5, <2>1, SMT DEF Inv, SentInv, NoToken
  <2>3. \A t \in Threads : NotSent(t) => \A v \in Comms : cur'[v] # t
    BY <1>3, NoneFacts DEF Inv, SentInv, NoToken
  <2> QED
    BY <1>1, <2>2, <2>3 DEF Inv, SentInv, NotSent, NoToken
<1>10. TokenInv'
  <2> SUFFICES ASSUME NEW t \in Threads PROVE TokenOk(t)'
    BY DEF TokenInv
  <2>1. TokenOk(t) /\ ch \in Comms
    BY <1>2 DEF Inv, TokenInv
  <2>2. CASE t # cur[ch]
    <3>1. \A d \in Chans : msg'[d].call = t => msg[d].call = t
      BY <1>2, <1>5, <2>2
    <3>2. \A v \in Comms : cur'[v] = t => cur[v] = t
      BY <1>3, NoneFacts
    <3> QED
      BY <1>1, <2>1, <3>1, <3>2 DEF TokenOk
  <2>3. CASE t = cur[ch]
    <3>1. /\ sockReq # t /\ sockResp.call # t /\ \A d \in Chans : msg[d].call # t
          /\ \A v \in Comms \ {ch} : cur[v] # t
      BY <2>1, <2>3 DEF TokenOk
    <3>2. \A v \in Comms : cur'[v] # t
      BY <1>3, <3>1, NoneFacts
    <3>3. \A d \in Chans \ {ch} : msg'[d].call # t
      BY <1>5, <3>1
    <3> QED
      BY <1>1, <3>1, <3>2, <3>3 DEF TokenOk
  <2> QED
    BY <2>2, <2>3
<1>G. Good(reply[ch])
  BY <1>1, <1>2 DEF Inv, ServeExec
<1>11. ChanExec'
  <2>1. ASSUME NEW d \in Chans \ {ch} PROVE ChanOk(d)'
    <3>1. d \in Comms /\ ChanOk(d)
      BY NoneFacts DEF Inv, ChanExec
    <3>2. h'[d] = h[d] /\ msg'[d] = msg[d] /\ conn'[d] = conn[d]
      BY <1>4, <1>5, <3>1
    <3> QED
      BY <1>1, <3>1, <3>2 DEF ChanOk, Good
  <2>2. ChanOk(ch)
    BY DEF Inv, ChanExec
  <2>3. CASE msg'[ch] = reply[ch] /\ conn'[ch] = "client"
    <3>1. Good(msg[ch])'
      BY <1>1, <1>G, <2>3 DEF Good
    <3> QED
      BY <2>3, <3>1, <2>1 DEF ChanExec, ChanOk
  <2>4. CASE msg'[ch] = msg[ch] /\ conn'[ch] = conn[ch] /\ h'[ch] = "exited"
    <3>1. ChanOk(ch)'
      BY <1>1, <2>2, <2>4 DEF ChanOk, Good
    <3> QED
      BY <2>1, <3>1 DEF ChanExec
  <2> QED
    BY <1>5, <2>3, <2>4
<1>12. ServeExec'
  <2> SUFFICES ASSUME NEW v \in Comms
               PROVE  /\ h'[v] \in {"enter", "handle", "reply"} <=> cur'[v] # None
                      /\ h'[v] \in {"enter", "handle"} => execs'[cur'[v]] = 0
                      /\ h'[v] = "reply" => reply'[v].call = cur'[v] /\ Good(reply[v])'
    BY DEF ServeExec
  <2>1. CASE v = ch
    BY <1>3, <1>4, <2>1
  <2>2. CASE v # ch
    <3>1. h'[v] = h[v] /\ cur'[v] = cur[v] /\ reply'[v] = reply[v]
      BY <1>3, <1>4, <2>2
    <3>2. Good(reply[v])' <=> Good(reply[v])
      BY <1>1, <3>1 DEF Good
    <3> QED
      BY <1>1, <3>1, <3>2 DEF Inv, ServeExec
  <2> QED
    BY <2>1, <2>2
<1>13. SockMatch'
  <2>1. cur'[Sock] = cur[Sock] /\ (HungUp' <=> HungUp)
    BY <1>1, <1>3, NoneFacts DEF HungUp, ServerGone
  <2> QED
    BY <1>1, <2>1 DEF Inv, SockMatch, Waits
<1>14. ChanMatch'
  <2>1. ASSUME NEW d \in Chans, NEW t \in Threads PROVE ChanMatchOk(d, t)'
    <3>1. ChanMatchOk(d, t) /\ ChanMatchOk(ch, t) /\ d \in Comms /\ t # None
      BY NoneFacts DEF Inv, ChanMatch
    <3>2. CASE d # ch
      <4>1. cur'[d] = cur[d] /\ msg'[d] = msg[d] /\ conn'[d] = conn[d]
        BY <1>3, <1>5, <3>1, <3>2
      <4> QED
        BY <1>1, <3>1, <4>1 DEF ChanMatchOk, Waits
    <3>3. CASE d = ch /\ msg'[ch] = reply[ch] /\ ~Broken("server", ch)
      <4>1. msg'[d].call = cur[ch] /\ cur'[d] = None /\ cur[ch] # None /\ conn[ch] # "down"
        BY <1>2, <1>3, <3>3, NoneFacts DEF Broken
      <4>2. Waits(t, ch) => cur[ch] = t
        BY <3>1, <4>1 DEF ChanMatchOk
      <4> QED
        BY <1>1, <3>1, <3>3, <4>1, <4>2 DEF ChanMatchOk, Waits
    <3>4. CASE d = ch /\ msg'[ch] = msg[ch] /\ conn'[ch] = conn[ch]
      <4>1. cur'[d] = None
        BY <1>3, <3>4
      <4> QED
        BY <1>1, <3>1, <3>4, <4>1 DEF ChanMatchOk, Waits
    <3> QED
      BY <1>5, <3>2, <3>3, <3>4
  <2> QED
    BY <2>1 DEF ChanMatch
<1> QED
  BY <1>1, <1>6, <1>7, <1>8, <1>9, <1>10, <1>11, <1>12, <1>13, <1>14, Frames DEF Inv

(* Steps that move no message.                                              *)
LEMMA QuietSteps ==
  ASSUME Inv, WaitActive \/ CloseReturn \/ CloseGate
  PROVE  Inv'
<1>1. UNCHANGED <<pc, comm, res, made, avail, sockMu, sockReq, schannels, conn,
                  msg, sockResp, h, cur, reply, execs, csock, up, gone>>
  BY DEF WaitActive, CloseReturn, CloseGate, threads, pool, ends, wire, sock, server
<1>2. SockMatch'
  BY <1>1 DEF Inv, SockMatch, Waits, HungUp, ServerGone, WaitActive, CloseReturn,
     CloseGate, server
<1> QED
  BY <1>1, <1>2, Frames DEF Inv

(* The socket is closed, by the client's watchdog or by Close.              *)
LEMMA HangUpSteps ==
  ASSUME Inv, DestroySock \/ Close \/ CloseDone
  PROVE  Inv'
<1>1. UNCHANGED <<pc, comm, res, made, avail, sockMu, sockReq, schannels, conn,
                  msg, sockResp, h, cur, reply, execs, up, gone>>
  BY DEF DestroySock, Close, CloseDone, threads, pool, wire, sock, server
<1>2. HungUp'
  BY DEF HungUp, ServerGone, DestroySock, Close, CloseDone
<1>3. SockMatch'
  BY <1>1, <1>2 DEF Inv, SockMatch, Waits
<1> QED
  BY <1>1, <1>3, Frames DEF Inv

(* The gofer dies.                                                          *)
LEMMA CrashInv ==
  ASSUME Inv, Crash
  PROVE  Inv'
<1>1. UNCHANGED <<pc, comm, res, made, avail, sockMu, sockReq, schannels, conn,
                  msg, sockResp, execs, gone>>
  BY DEF Crash, threads, pool, wire, sock
<1>2. /\ HungUp'
      /\ \A u \in Comms : h'[u] = "none" /\ cur'[u] = None
  BY DEF Crash, HungUp, ServerGone
<1>3. ServerTypes'
  BY <1>1, MsgFacts DEF Inv, ServerTypes, Crash
<1>4. UnmadeInv'
  BY <1>1, <1>2, NoneFacts DEF Inv, UnmadeInv
<1>5. SentInv'
  BY <1>1, <1>2, NoneFacts DEF Inv, SentInv, NotSent, NoToken
<1>6. TokenInv'
  BY <1>1, <1>2, NoneFacts DEF Inv, TokenInv, TokenOk
<1>7. ChanExec'
  BY <1>1, <1>2, NoneFacts DEF Inv, ChanExec, ChanOk, Good
<1>8. ServeExec'
  BY <1>2 DEF ServeExec
<1>9. SockMatch'
  BY <1>1, <1>2, NoneFacts DEF Inv, SockMatch, Waits
<1>10. ChanMatch'
  <2>1. ASSUME NEW d \in Chans, NEW t \in Threads
        PROVE  ChanMatchOk(d, t)'
    <3>1. ChanMatchOk(d, t) /\ cur'[d] = None /\ t # None
      BY <1>2, NoneFacts DEF Inv, ChanMatch
    <3> QED
      BY <1>1, <3>1 DEF ChanMatchOk, Waits
  <2> QED
    BY <2>1 DEF ChanMatch
<1> QED
  BY <1>1, <1>3, <1>4, <1>5, <1>6, <1>7, <1>8, <1>9, <1>10, Frames DEF Inv

(* Shutting channels down, or destroying them, moves no message either.     *)
LEMMA DownSteps ==
  ASSUME Inv, ShutdownActiveChans \/ ShutdownChannels \/ DestroyChannels
  PROVE  Inv'
<1>1. UNCHANGED <<pc, comm, res, made, sockMu, sockReq, schannels, msg, sockResp,
                  h, cur, reply, execs, csock, up>>
  BY DEF ShutdownActiveChans, ShutdownChannels, DestroyChannels, threads, pool, ends,
     wire, sock, server
<1>2. /\ conn' \in [Chans -> {"client", "server", "down"}]
      /\ \A ch \in Chans : conn'[ch] \in {conn[ch], "down"}
  BY DEF Inv, WireTypes, ShutdownActiveChans, ShutdownChannels, DestroyChannels,
     ShutConn, wire
<1>3. avail' \in {avail, None} /\ gone \subseteq gone'
  BY DEF ShutdownActiveChans, ShutdownChannels, DestroyChannels, pool
<1>4. WireTypes' /\ PoolTypes'
  BY <1>1, <1>2, <1>3 DEF Inv, WireTypes, PoolTypes
<1>5. PoolInv'
  BY <1>1, <1>3 DEF Inv, PoolInv, Free
<1>6. UnmadeInv'
  BY <1>1, <1>2 DEF Inv, UnmadeInv
<1>7. ChanExec'
  BY <1>1, <1>2 DEF Inv, ChanExec, ChanOk, Good
<1>8. SockMatch'
  BY <1>1 DEF Inv, SockMatch, Waits, HungUp, ServerGone, ShutdownActiveChans,
     ShutdownChannels, DestroyChannels, server
<1>9. ChanMatch'
  BY <1>1, <1>2, <1>3, SMT DEF Inv, ChanMatch, ChanMatchOk, Waits
<1> QED
  BY <1>1, <1>4, <1>5, <1>6, <1>7, <1>8, <1>9, Frames DEF Inv

(* Run takes a request off the socket.                                      *)
LEMMA RunRecvInv ==
  ASSUME Inv, RunRecv
  PROVE  Inv'
<1>1. /\ h[Sock] = "recv" /\ cur[Sock] = None
      /\ UNCHANGED <<pc, comm, res, made, avail, sockMu, sockResp, schannels, conn,
                     msg, reply, execs, csock, up, closing, gone>>
  BY NoneFacts DEF RunRecv, threads, pool, ends, wire, Inv, ServeExec
<1>2. /\ \A ch \in Chans : h'[ch] = h[ch] /\ cur'[ch] = cur[ch]
      /\ \A u \in Comms \ {Sock} : h'[u] = h[u] /\ cur'[u] = cur[u]
      /\ \/ /\ sockReq \in Threads /\ cur'[Sock] = sockReq /\ h'[Sock] = "enter"
            /\ sockReq' = None
         \/ cur'[Sock] = None /\ h'[Sock] = "exited" /\ UNCHANGED sockReq
  BY <1>1, NoneFacts DEF RunRecv, HGoto, Inv, ServerTypes, PoolTypes
<1>3. ServerTypes' /\ PoolTypes'
  BY <1>1, NoneFacts, SMT DEF RunRecv, HGoto, Inv, ServerTypes, PoolTypes
<1>4. UnmadeInv'
  BY <1>1, <1>2 DEF Inv, UnmadeInv
<1>5. SentInv' /\ TokenInv'
  <2>0. PICK m : m = sockReq
    OBVIOUS
  <2>1. ~NoToken(m)
    BY <2>0 DEF NoToken
  <2>2. ASSUME NEW t \in Threads, t # m PROVE Stays(t)
    <3>1. sockReq' \in {None, sockReq} /\ cur'[Sock] \in {None, sockReq} /\ t # None
      BY <1>2, NoneFacts
    <3>2. \A v \in Comms : cur'[v] = t => cur[v] = t
      BY <1>2, <2>0, <2>2, <3>1
    <3> QED
      BY <1>1, <2>0, <2>2, <3>1, <3>2 DEF Stays
  <2>3. ASSUME m \in Threads PROVE TokenOk(m)'
    <3>1. /\ sockResp.call # m /\ \A d \in Chans : msg[d].call # m
          /\ \A v \in Comms : cur[v] # m
      BY <2>0, <2>3 DEF Inv, TokenInv, TokenOk
    <3>2. \A v \in Comms : cur'[v] = m => v = Sock /\ sockReq' = None
      BY <1>2, <2>3, <3>1, NoneFacts
    <3> QED
      BY <1>1, <2>3, <3>1, <3>2, NoneFacts DEF TokenOk
  <2> QED
    BY <1>1, <2>1, <2>2, <2>3, TokensKept
<1>7. SockExec'
  BY <1>1, <1>2, NoneFacts DEF Inv, SockExec, Good
<1>8. ChanExec'
  BY <1>1, <1>2 DEF Inv, ChanExec, ChanOk, Good
<1>9. ServeExec'
  <2> SUFFICES ASSUME NEW v \in Comms
               PROVE  /\ h'[v] \in {"enter", "handle", "reply"} <=> cur'[v] # None
                      /\ h'[v] \in {"enter", "handle"} => execs'[cur'[v]] = 0
                      /\ h'[v] = "reply" => reply'[v].call = cur'[v] /\ Good(reply[v])'
    BY DEF ServeExec
  <2>1. CASE v = Sock
    BY <1>1, <1>2, <2>1, NoneFacts DEF Inv, SockExec
  <2>2. CASE v # Sock
    <3>1. h'[v] = h[v] /\ cur'[v] = cur[v] /\ reply'[v] = reply[v]
      BY <1>1, <1>2, <2>2
    <3>2. Good(reply[v])' <=> Good(reply[v])
      BY <1>1, <3>1 DEF Good
    <3> QED
      BY <1>1, <3>1, <3>2 DEF Inv, ServeExec
  <2> QED
    BY <2>1, <2>2
<1>10. SockMatch'
  <2>1. HungUp' <=> HungUp
    BY <1>1 DEF HungUp, ServerGone
  <2>2. {sockReq', cur'[Sock]} \subseteq {None, sockReq}
    BY <1>1, <1>2, NoneFacts
  <2>3. ASSUME NEW t \in Threads
        PROVE  /\ Waits(t, Sock)' <=> Waits(t, Sock)
               /\ t \in {sockReq', cur'[Sock], sockResp'.call} =>
                    t \in {sockReq, cur[Sock], sockResp.call}
    BY <1>1, <2>2, NoneFacts DEF Waits
  <2>4. ASSUME NEW t \in Threads, Waits(t, Sock)
        PROVE  {sockReq', cur'[Sock], sockResp'.call} \subseteq {None, t}
    BY <1>1, <2>2, <2>4 DEF Inv, SockMatch
  <2> QED
    BY <2>1, <2>3, <2>4 DEF Inv, SockMatch
<1>11. ChanMatch'
  <2>1. ASSUME NEW d \in Chans, NEW t \in Threads PROVE ChanMatchOk(d, t)'
    <3>1. cur'[d] = cur[d] /\ ChanMatchOk(d, t)
      BY <1>2, NoneFacts DEF Inv, ChanMatch
    <3> QED
      BY <1>1, <3>1 DEF ChanMatchOk, Waits
  <2> QED
    BY <2>1 DEF ChanMatch
<1> QED
  BY <1>1, <1>3, <1>4, <1>5, <1>7, <1>8, <1>9, <1>10, <1>11, Frames DEF Inv

(* service takes a request off its channel.                                 *)
LEMMA ServiceRecvInv ==
  ASSUME Inv, NEW ch \in Chans, ServiceRecv(ch)
  PROVE  Inv'
<1>1. /\ h[ch] = "recv" /\ cur[ch] = None /\ ch \in schannels
      /\ UNCHANGED <<pc, comm, res, made, avail, sockMu, sockReq, sockResp, schannels,
                     reply, execs, csock, up, closing, gone>>
  BY NoneFacts DEF ServiceRecv, threads, pool, ends, sock, Inv, ServeExec, UnmadeInv
<1>2. /\ \A u \in Comms \ {ch} : h'[u] = h[u] /\ cur'[u] = cur[u]
      /\ \A d \in Chans \ {ch} : conn'[d] = conn[d] /\ msg'[d] = msg[d]
      /\ \/ /\ conn[ch] = "server" /\ conn'[ch] \in {"server", "down"}
            /\ h'[ch] = "enter" /\ cur'[ch] = msg[ch].call /\ msg'[ch] = NoMsg
         \/ /\ conn'[ch] = "down" /\ h'[ch] = "exited" /\ cur'[ch] = None
            /\ msg'[ch] = msg[ch]
  BY <1>1, NoneFacts DEF ServiceRecv, HGoto, After, Broken, Inv, ServerTypes, WireTypes
<1>3. conn[ch] = "server" => msg[ch].call \in Threads /\ execs[msg[ch].call] = 0
  BY <1>1, MsgFacts DEF Inv, ChanExec, ChanOk, WireTypes
<1>4. ServerTypes'
  BY <1>1, <1>3, NoneFacts DEF ServiceRecv, HGoto, Inv, ServerTypes
<1>5. WireTypes'
  <2>1. conn \in [Chans -> {"client", "server", "down"}] /\ msg \in [Chans -> Msgs]
    BY DEF Inv, WireTypes
  <2>2. PICK x : x = After("server", ch, conn[ch])
    OBVIOUS
  <2>3. x \in {"client", "server", "down"} /\ conn' = [conn EXCEPT ![ch] = x]
    BY <2>1, <2>2 DEF ServiceRecv, After
  <2>4. conn' \in [Chans -> {"client", "server", "down"}]
    BY <2>1, <2>3
  <2>5. msg' = msg \/ msg' = [msg EXCEPT ![ch] = NoMsg]
    BY DEF ServiceRecv
  <2>6. msg' \in [Chans -> Msgs]
    BY <2>1, <2>5, MsgFacts
  <2> QED
    BY <1>1, <2>4, <2>6 DEF Inv, WireTypes
<1>6. UnmadeInv'
  <2>1. \A d \in Chans \ schannels : /\ d # ch /\ d \in Comms /\ h'[d] = h[d]
                                      /\ cur'[d] = cur[d] /\ msg'[d] = msg[d] /\ conn'[d] = conn[d]
    BY <1>1, <1>2, NoneFacts
  <2> QED
    BY <1>1, <2>1 DEF Inv, UnmadeInv
<1>7. SentInv' /\ TokenInv'
  <2>0. PICK m : m = msg[ch].call
    OBVIOUS
  <2>1. ~NoToken(m)
    BY <2>0 DEF NoToken
  <2>2. ASSUME NEW t \in Threads, t # m PROVE Stays(t)
    <3>1. NoMsg.call = None /\ t # None
      BY MsgFacts, NoneFacts
    <3>2. \A v \in Comms : cur'[v] = t => cur[v] = t
      BY <1>2, <2>0, <2>2, <3>1
    <3>3. \A d \in Chans : msg'[d].call = t => msg[d].call = t
      BY <1>2, <2>0, <2>2, <3>1
    <3> QED
      BY <1>1, <3>2, <3>3 DEF Stays
  <2>3. ASSUME m \in Threads PROVE TokenOk(m)'
    <3>1. /\ sockReq # m /\ sockResp.call # m /\ \A d \in Chans \ {ch} : msg[d].call # m
          /\ \A v \in Comms : cur[v] # m
      BY <2>0, <2>3 DEF Inv, TokenInv, TokenOk
    <3>2. \A v \in Comms : cur'[v] = m => v = ch /\ msg'[ch] = NoMsg
      BY <1>2, <2>3, <3>1, NoneFacts
    <3>3. \A d \in Chans : msg'[d].call = m => d = ch /\ msg'[ch] # NoMsg
      <4>1. NoMsg.call = None /\ m # None
        BY <2>3, MsgFacts, NoneFacts
      <4>2. ASSUME NEW d \in Chans, msg'[d].call = m PROVE d = ch
        BY <1>2, <3>1, <4>2
      <4>3. msg'[ch].call = m => msg'[ch] # NoMsg
        BY <4>1
      <4> QED
        BY <4>2, <4>3
    <3> QED
      BY <1>1, <3>1, <3>2, <3>3 DEF TokenOk
  <2> QED
    BY <1>1, <2>1, <2>2, <2>3, TokensKept
<1>9. ChanExec'
  <2>1. ASSUME NEW d \in Chans \ {ch} PROVE ChanOk(d)'
    <3>1. /\ ChanOk(d) /\ h'[d] = h[d] /\ msg'[d] = msg[d] /\ conn'[d] = conn[d]
      BY <1>2, NoneFacts DEF Inv, ChanExec
    <3> QED
      BY <1>1, <3>1 DEF ChanOk, Good
  <2>2. ChanOk(ch)'
    <3>1. /\ h'[ch] # "recv" /\ conn'[ch] \in {"server", "down"}
          /\ conn'[ch] = "server" => msg'[ch].call = None
      BY <1>2, MsgFacts
    <3> QED
      BY <3>1 DEF ChanOk
  <2> QED
    BY <2>1, <2>2 DEF ChanExec
<1>10. ServeExec'
  <2> SUFFICES ASSUME NEW v \in Comms
               PROVE  /\ h'[v] \in {"enter", "handle", "reply"} <=> cur'[v] # None
                      /\ h'[v] \in {"enter", "handle"} => execs'[cur'[v]] = 0
                      /\ h'[v] = "reply" => reply'[v].call = cur'[v] /\ Good(reply[v])'
    BY DEF ServeExec
  <2>1. CASE v = ch
    BY <1>1, <1>2, <1>3, <2>1, NoneFacts
  <2>2. CASE v # ch
    <3>1. h'[v] = h[v] /\ cur'[v] = cur[v] /\ reply'[v] = reply[v]
      BY <1>1, <1>2, <2>2
    <3>2. Good(reply[v])' <=> Good(reply[v])
      BY <1>1, <3>1 DEF Good
    <3> QED
      BY <1>1, <3>1, <3>2 DEF Inv, ServeExec
  <2> QED
    BY <2>1, <2>2
<1>11. SockMatch'
  <2>1. cur'[Sock] = cur[Sock] /\ (HungUp' <=> HungUp)
    BY <1>1, <1>2, NoneFacts DEF HungUp, ServerGone
  <2> QED
    BY <1>1, <2>1 DEF Inv, SockMatch, Waits
<1>12. ChanMatch'
  <2>1. ASSUME NEW d \in Chans, NEW t \in Threads PROVE ChanMatchOk(d, t)'
    <3>1. ChanMatchOk(d, t) /\ d \in Comms /\ t # None
      BY NoneFacts DEF Inv, ChanMatch
    <3>2. CASE d # ch
      <4>1. cur'[d] = cur[d] /\ msg'[d] = msg[d] /\ conn'[d] = conn[d]
        BY <1>2, <3>1, <3>2
      <4> QED
        BY <1>1, <3>1, <4>1 DEF ChanMatchOk, Waits
    <3>3. CASE d = ch
      <4>1. /\ conn'[d] # "client" /\ (conn'[d] # "down" => conn[d] # "down")
            /\ {msg'[d].call, cur'[d]} \subseteq {None, msg[d].call}
        BY <1>2, <3>3, MsgFacts
      <4> QED
        BY <1>1, <3>1, <4>1 DEF ChanMatchOk, Waits
    <3> QED
      BY <3>2, <3>3
  <2> QED
    BY <2>1 DEF ChanMatch
<1> QED
  BY <1>1, <1>4, <1>5, <1>6, <1>7, <1>9, <1>10, <1>11, <1>12, Frames DEF Inv

(* A handler's answer is for the request it was called with.                *)
LEMMA AnswerFacts ==
  ASSUME Inv, NEW u \in Comms, cur[u] \in Threads, NEW ok \in BOOLEAN, Answer(u, ok)
  PROVE  /\ reply' \in [Comms -> Msgs] /\ reply'[u].call = cur[u] /\ reply'[u].ok = ok
         /\ \A v \in Comms \ {u} : reply'[v] = reply[v]
<1>1. [call |-> cur[u], ok |-> ok] \in Msgs
  BY DEF Msgs
<1> QED
  BY <1>1 DEF Answer, Inv, ServerTypes

(* handleMsg enters the gate, or refuses.                                   *)
LEMMA EnterGateInv ==
  ASSUME Inv, NEW u \in Comms, EnterGate(u)
  PROVE  Inv'
<1>1. /\ h[u] = "enter" /\ cur[u] \in Threads /\ (u \in Chans => u \in schannels)
      /\ UNCHANGED <<pc, comm, res, made, avail, sockMu, sockReq, sockResp, schannels,
                     conn, msg, cur, execs, csock, up, closing, gone>>
  BY DEF EnterGate, threads, pool, ends, wire, sock, Inv, ServeExec, UnmadeInv,
     ServerTypes
<1>2. /\ \A v \in Comms \ {u} : h'[v] = h[v] /\ reply'[v] = reply[v]
      /\ \/ h'[u] = "handle"
         \/ h'[u] = "reply" /\ reply'[u].call = cur[u] /\ reply'[u].ok = FALSE
      /\ reply' \in [Comms -> Msgs]
  BY <1>1, AnswerFacts DEF EnterGate, HGoto, Inv, ServerTypes
<1>3. ServerTypes'
  BY <1>1, <1>2 DEF EnterGate, HGoto, Inv, ServerTypes
<1>4. UnmadeInv'
  BY <1>1, <1>2, NoneFacts DEF Inv, UnmadeInv
<1>5. ChanExec'
  BY <1>1, <1>2, NoneFacts DEF Inv, ChanExec, ChanOk, Good
<1>6. ServeExec'
  <2>1. /\ h'[u] \in {"enter", "handle", "reply"} /\ cur'[u] # None
        /\ h'[u] \in {"enter", "handle"} => execs'[cur'[u]] = 0
    BY <1>1, <1>2, NoneFacts DEF Inv, ServeExec
  <2>2. h'[u] = "reply" => reply'[u].call = cur'[u] /\ Good(reply[u])'
    BY <1>1, <1>2 DEF Good
  <2>3. ASSUME NEW v \in Comms, v # u
        PROVE  /\ h'[v] \in {"enter", "handle", "reply"} <=> cur'[v] # None
               /\ h'[v] \in {"enter", "handle"} => execs'[cur'[v]] = 0
               /\ h'[v] = "reply" => reply'[v].call = cur'[v] /\ Good(reply[v])'
    <3>1. h'[v] = h[v] /\ cur'[v] = cur[v] /\ reply'[v] = reply[v]
      BY <1>1, <1>2, <2>3
    <3>2. /\ h[v] \in {"enter", "handle", "reply"} <=> cur[v] # None
          /\ h[v] \in {"enter", "handle"} => execs[cur[v]] = 0
          /\ h[v] = "reply" => reply[v].call = cur[v] /\ Good(reply[v])
      BY DEF Inv, ServeExec
    <3>3. Good(reply[v]) => Good(reply[v])'
      BY <1>1, <3>1 DEF Good
    <3> QED
      BY <1>1, <3>1, <3>2, <3>3
  <2> QED
    BY <2>1, <2>2, <2>3 DEF ServeExec
<1> QED
  BY <1>1, <1>3, <1>4, <1>5, <1>6, Frames DEF Inv

(* A handler runs: only its own call is counted, and its token is nowhere   *)
(* else.                                                                    *)
LEMMA RanFacts ==
  ASSUME Inv, NEW u \in Comms, h[u] = "handle", Ran(u)
  PROVE  /\ cur[u] \in Threads /\ execs[cur[u]] = 0 /\ execs'[cur[u]] = 1
         /\ execs' \in [Threads -> Nat]
         /\ \A t \in Threads \ {cur[u]} : execs'[t] = execs[t]
         /\ sockReq # cur[u] /\ sockResp.call # cur[u]
         /\ \A ch \in Chans : msg[ch].call # cur[u]
         /\ \A v \in Comms \ {u} : cur[v] # cur[u]
         /\ ~NotSent(cur[u])
<1>1. cur[u] \in Threads /\ execs[cur[u]] = 0
  BY DEF Inv, ServeExec, ServerTypes
<1>2. /\ sockReq # cur[u] /\ sockResp.call # cur[u]
      /\ \A ch \in Chans : msg[ch].call # cur[u]
      /\ \A v \in Comms \ {u} : cur[v] # cur[u]
  BY <1>1 DEF Inv, TokenInv, TokenOk
<1>3. ~NotSent(cur[u])
  BY <1>1 DEF Inv, SentInv, NoToken
<1> QED
  BY <1>1, <1>2, <1>3, SMT DEF Ran, Inv, ServerTypes

(* A handler runs.                                                          *)
LEMMA HandleInv ==
  ASSUME Inv, NEW u \in Comms, Handle(u)
  PROVE  Inv'
<1>1. /\ h[u] = "handle" /\ Ran(u) /\ (u \in Chans => u \in schannels)
      /\ UNCHANGED <<pc, comm, res, made, avail, sockMu, sockReq, sockResp, schannels,
                     conn, msg, cur, csock, up, closing, gone>>
  BY DEF Handle, threads, pool, ends, wire, sock, Inv, UnmadeInv
<1>2. PICK ok \in BOOLEAN : Answer(u, ok) /\ (ok => cur[u] \notin Creators)
  BY DEF Handle
<1>3. /\ cur[u] \in Threads
      /\ execs[cur[u]] = 0 /\ execs'[cur[u]] = 1 /\ execs' \in [Threads -> Nat]
      /\ \A t \in Threads \ {cur[u]} : execs'[t] = execs[t]
      /\ sockReq # cur[u] /\ sockResp.call # cur[u]
      /\ \A ch \in Chans : msg[ch].call # cur[u]
      /\ \A v \in Comms \ {u} : cur[v] # cur[u]
      /\ ~NotSent(cur[u])
  BY <1>1, RanFacts
<1>4. /\ reply' \in [Comms -> Msgs] /\ reply'[u].call = cur[u]
      /\ (reply'[u].ok => cur[u] \notin Creators)
      /\ \A v \in Comms \ {u} : reply'[v] = reply[v]
  BY <1>2, <1>3, AnswerFacts
<1>5. h'[u] = "reply" /\ \A v \in Comms \ {u} : h'[v] = h[v]
  BY DEF Handle, HGoto, Inv, ServerTypes
<1>6. ServerTypes'
  BY <1>1, <1>2, <1>3, <1>4 DEF Handle, HGoto, Inv, ServerTypes
<1>7. UnmadeInv'
  BY <1>1, <1>5, NoneFacts DEF Inv, UnmadeInv
<1>8. SentInv'
  <2>1. ASSUME NEW t \in Threads, NotSent(t)'
        PROVE  res'[t] = "none" /\ execs'[t] = 0 /\ NoToken(t)'
    <3>1. NotSent(t) /\ t # cur[u]
      BY <1>1, <1>3, <2>1 DEF NotSent
    <3> QED
      BY <1>1, <1>3, <3>1 DEF Inv, SentInv, NoToken
  <2> QED
    BY <2>1 DEF SentInv
<1>12. ASSUME NEW m \in Msgs, m.call # cur[u], Good(m)
       PROVE  m.ok => /\ m.call # None /\ execs'[m.call] = 1
                      /\ m.call \in Creators /\ pc'[m.call] = "wait" => made'[m.call] # None
  BY <1>1, <1>3, <1>12, MsgFacts DEF Good
<1>9. SockExec'
  <2>1. Good(sockResp)'
    BY <1>1, <1>3, <1>12 DEF Good, Inv, SockExec, WireTypes
  <2> QED
    BY <1>1, <1>3, <2>1 DEF Inv, SockExec
<1>10. ChanExec'
  <2>1. ASSUME NEW ch \in Chans
        PROVE  ChanOk(ch)'
    <3>1. /\ msg[ch] \in Msgs /\ msg[ch].call # cur[u] /\ ChanOk(ch)
          /\ h'[ch] = "recv" => h[ch] = "recv"
      BY <1>3, <1>5, NoneFacts DEF Inv, WireTypes, ChanExec
    <3>2. msg[ch].call # None => execs'[msg[ch].call] = execs[msg[ch].call]
      BY <1>3, <3>1, MsgFacts
    <3>3. Good(msg[ch]) => Good(msg[ch])'
      BY <1>1, <1>12, <3>1 DEF Good
    <3> QED
      BY <1>1, <3>1, <3>2, <3>3 DEF ChanOk
  <2> QED
    BY <2>1 DEF ChanExec
<1>11. ServeExec'
  <2>1. ASSUME NEW v \in Comms
        PROVE  /\ h'[v] \in {"enter", "handle", "reply"} <=> cur[v] # None
               /\ h'[v] \in {"enter", "handle"} => execs'[cur[v]] = 0
               /\ h'[v] = "reply" => reply'[v].call = cur[v] /\ Good(reply[v])'
    <3>1. CASE v = u
      <4>1. cur[u] # None /\ reply'[u].call = cur[u] /\ execs'[cur[u]] = 1
        BY <1>3, <1>4, NoneFacts
      <4>2. Good(reply[u])'
        <5>1. reply'[u].ok => cur[u] \notin Creators
          BY <1>4
        <5> QED
          BY <1>1, <4>1, <5>1 DEF Good
      <4> QED
        BY <1>1, <1>5, <3>1, <4>1, <4>2
    <3>2. CASE v # u
      <4>1. /\ h'[v] = h[v] /\ reply'[v] = reply[v] /\ reply[v] \in Msgs
            /\ cur[v] # None => cur[v] \in Threads \ {cur[u]}
        BY <1>3, <1>4, <1>5, <3>2, SMT DEF Inv, ServerTypes
      <4>2. h[v] = "reply" => Good(reply[v])'
        <5>1. h[v] = "reply" => Good(reply[v]) /\ reply[v].call # cur[u]
          BY <1>3, <3>2, SMT DEF Inv, ServeExec
        <5> QED
          BY <1>12, <4>1, <5>1 DEF Good
      <4> QED
        BY <1>3, <4>1, <4>2 DEF Inv, ServeExec
    <3> QED
      BY <3>1, <3>2
  <2> QED
    BY <1>1, <2>1 DEF ServeExec
<1> QED
  BY <1>1, <1>6, <1>7, <1>8, <1>9, <1>10, <1>11, Frames DEF Inv

(* ChannelHandler runs: it makes a channel and starts its service, or       *)
(* fails.                                                                   *)
LEMMA ChannelHandlerInv ==
  ASSUME Inv, NEW u \in Comms, NEW dup \in BOOLEAN, ChannelHandler(u, dup)
  PROVE  Inv'
<1> DEFINE f == Fresh
<1>1. /\ h[u] = "handle" /\ Ran(u) /\ Answer(u, dup) /\ cur[u] \in Creators
      /\ (u \in Chans => u \in schannels)
      /\ UNCHANGED <<pc, comm, res, avail, sockMu, sockReq, sockResp, msg, cur, csock,
                     up, closing, gone>>
  BY DEF ChannelHandler, pool, ends, sock, Inv, UnmadeInv
<1>2. f \in Chans /\ f \notin schannels /\ schannels' = schannels \cup {f}
  BY DEF ChannelHandler, Fresh
<1>3. /\ cur[u] \in Threads
      /\ execs[cur[u]] = 0 /\ execs'[cur[u]] = 1 /\ execs' \in [Threads -> Nat]
      /\ \A t \in Threads \ {cur[u]} : execs'[t] = execs[t]
      /\ sockReq # cur[u] /\ sockResp.call # cur[u]
      /\ \A ch \in Chans : msg[ch].call # cur[u]
      /\ \A v \in Comms \ {u} : cur[v] # cur[u]
      /\ ~NotSent(cur[u])
  BY <1>1, RanFacts
<1>4. /\ reply' \in [Comms -> Msgs] /\ reply'[u].call = cur[u] /\ reply'[u].ok = dup
      /\ \A v \in Comms \ {u} : reply'[v] = reply[v]
  BY <1>1, <1>3, AnswerFacts
<1>5. /\ u # f /\ h[f] = "none" /\ cur[f] = None /\ msg[f] = NoMsg /\ conn[f] # "server"
      /\ f \notin Free /\ \A t \in Threads : comm[t] # f /\ made[t] # f
  <2>1. u # f
    BY <1>1, <1>2
  <2>2. h[f] = "none" /\ cur[f] = None /\ msg[f] = NoMsg /\ conn[f] # "server"
    BY <1>2, NoneFacts DEF Inv, UnmadeInv
  <2>3. f \notin Free /\ \A t \in Threads : comm[t] # f /\ made[t] # f
    BY <1>2, NoneFacts DEF Inv, PoolInv
  <2> QED
    BY <2>1, <2>2, <2>3
<1> HIDE DEF f
<1>6. /\ h'[u] = "reply" /\ h'[f] = "recv" /\ \A v \in Comms \ {u, f} : h'[v] = h[v]
      /\ h' \in [Comms -> {"none", "recv", "enter", "handle", "reply", "exited"}]
  BY <1>2, <1>5, NoneFacts DEF ChannelHandler, Inv, ServerTypes, f
<1>7. /\ conn' \in [Chans -> {"client", "server", "down"}]
      /\ conn'[f] \in {conn[f], "down"} /\ \A d \in Chans \ {f} : conn'[d] = conn[d]
  BY <1>2 DEF ChannelHandler, Inv, WireTypes, f
<1>8. /\ made' \in [Threads -> Chans \cup {None}]
      /\ made'[cur[u]] = IF dup THEN f ELSE made[cur[u]]
      /\ \A t \in Threads \ {cur[u]} : made'[t] = made[t]
  BY <1>2, <1>3 DEF ChannelHandler, Inv, CallTypes, f
<1>9. CallTypes'
  BY <1>1, <1>8 DEF Inv, CallTypes
<1>10. PoolTypes'
  BY <1>1, <1>2 DEF Inv, PoolTypes
<1>11. WireTypes'
  BY <1>1, <1>7 DEF Inv, WireTypes
<1>12. ServerTypes'
  BY <1>1, <1>3, <1>6, <1>4 DEF Inv, ServerTypes
<1>13. PoolInv'
  <2>1. /\ Free' = Free /\ Free \subseteq schannels' /\ (avail' # None => Distinct(avail'))
        /\ schannels \subseteq schannels' /\ f \in schannels'
    BY <1>1, <1>2 DEF Inv, PoolInv, Free
  <2>2. ASSUME NEW t \in Threads, comm'[t] \in Chans
        PROVE  /\ comm'[t] \in schannels' \ Free'
               /\ \A s \in Threads : comm'[s] = comm'[t] => s = t
    BY <1>1, <2>1, <2>2 DEF Inv, PoolInv
  <2>3. ASSUME NEW t \in Threads, made'[t] # None
        PROVE  /\ made'[t] \in schannels' \ Free'
               /\ \A s \in Threads : comm'[s] # made'[t] /\ (made'[s] = made'[t] => s = t)
    <3>1. \A s \in Threads : made'[s] = made[s] \/ (s = cur[u] /\ made'[s] = f)
      BY <1>8
    <3>2. CASE made'[t] = f
      BY <1>1, <1>5, <2>1, <3>1, <3>2
    <3>3. CASE made'[t] = made[t] /\ made'[t] # f
      BY <1>1, <2>1, <2>3, <3>1, <3>3 DEF Inv, PoolInv
    <3> QED
      BY <3>1, <3>2, <3>3
  <2>4. \A t \in Threads : comm'[t] = Sock => sockMu' = t
    BY <1>1 DEF Inv, PoolInv
  <2> QED
    BY <2>1, <2>2, <2>3, <2>4 DEF PoolInv
<1>14. UnmadeInv'
  BY <1>1, <1>2, <1>6, <1>7, NoneFacts DEF Inv, UnmadeInv
<1>15. SentInv'
  <2>1. ASSUME NEW t \in Threads, NotSent(t)'
        PROVE  res'[t] = "none" /\ execs'[t] = 0 /\ NoToken(t)'
    <3>1. NotSent(t) /\ t # cur[u]
      BY <1>1, <1>3, <2>1 DEF NotSent
    <3> QED
      BY <1>1, <1>3, <3>1 DEF Inv, SentInv, NoToken
  <2> QED
    BY <2>1 DEF SentInv
<1>16. StageInv'
  <2>1. ASSUME NEW t \in Threads PROVE made[t] # None => made'[t] # None
    BY <1>2, <1>3, <1>8, NoneFacts
  <2> QED
    BY <1>1, <2>1 DEF Inv, StageInv
<1>21. ASSUME NEW m \in Msgs, m.call # cur[u], Good(m)
       PROVE  m.ok => /\ m.call # None /\ execs'[m.call] = 1
                      /\ m.call \in Creators /\ pc'[m.call] = "wait" => made'[m.call] # None
  BY <1>1, <1>3, <1>8, <1>21, MsgFacts DEF Good
<1>17. SockExec'
  <2>1. Good(sockResp)'
    BY <1>1, <1>3, <1>21 DEF Good, Inv, SockExec, WireTypes
  <2> QED
    BY <1>1, <1>3, <2>1 DEF Inv, SockExec
<1>18. ChanExec'
  <2>2. ASSUME NEW ch \in Chans
        PROVE  /\ conn'[ch] = "server" /\ msg[ch].call # None => execs'[msg[ch].call] = 0
               /\ conn'[ch] = "server" /\ h'[ch] = "recv" => msg[ch].call # None
               /\ conn'[ch] = "client" => Good(msg[ch])'
    <3>1. CASE ch = f
      BY <1>1, <1>5, <1>7, <3>1, MsgFacts DEF Good
    <3>2. CASE ch # f
      <4>1. /\ conn'[ch] = conn[ch] /\ (h'[ch] = "recv" => h[ch] = "recv")
            /\ msg[ch] \in Msgs /\ msg'[ch] = msg[ch] /\ msg[ch].call # cur[u]
        BY <1>1, <1>3, <1>6, <1>7, <3>2, NoneFacts DEF Inv, WireTypes
      <4>2. msg[ch].call # None => execs'[msg[ch].call] = execs[msg[ch].call]
        BY <1>3, <4>1, MsgFacts
      <4>3. Good(msg[ch]) => Good(msg[ch])'
        BY <1>21, <4>1 DEF Good
      <4> QED
        BY <4>1, <4>2, <4>3 DEF Inv, ChanExec, ChanOk
    <3> QED
      BY <3>1, <3>2
  <2> QED
    BY <1>1, <2>2 DEF ChanExec, ChanOk
<1>19. ServeExec'
  <2>1. /\ cur' = cur /\ reply'[u].call = cur[u] /\ execs'[cur[u]] = 1
        /\ reply'[u].ok => made'[cur[u]] # None
    <3>1. dup => made'[cur[u]] = f
      BY <1>8
    <3>2. reply'[u].ok => dup
      BY <1>4
    <3>3. cur' = cur /\ reply'[u].call = cur[u] /\ execs'[cur[u]] = 1
      BY <1>1, <1>3, <1>4
    <3> QED
      BY <1>2, <3>1, <3>2, <3>3, NoneFacts
  <2>2. \A v \in Comms \ {u} : reply'[v] = reply[v] /\ cur[v] # cur[u]
    BY <1>1, <1>3, <1>4
  <2>3. \A t \in Threads \ {cur[u]} : execs'[t] = execs[t] /\ made'[t] = made[t]
    BY <1>1, <1>8, <1>3
  <2>4. ASSUME NEW v \in Comms
        PROVE  /\ h'[v] \in {"enter", "handle", "reply"} <=> cur[v] # None
               /\ h'[v] \in {"enter", "handle"} => execs'[cur[v]] = 0
               /\ h'[v] = "reply" => reply'[v].call = cur[v] /\ Good(reply[v])'
    <3>1. CASE v = u
      <4>1. cur[u] # None
        BY <1>3, NoneFacts
      <4>2. Good(reply[u])'
        BY <2>1, <4>1 DEF Good
      <4> QED
        BY <1>6, <2>1, <3>1, <4>1, <4>2
    <3>2. CASE v = f
      BY <1>5, <1>6, <3>2
    <3>3. CASE v \notin {u, f}
      <4>1. /\ h'[v] = h[v] /\ reply'[v] = reply[v] /\ reply[v] \in Msgs
            /\ cur[v] # None => cur[v] \in Threads \ {cur[u]}
        BY <1>6, <2>2, <3>3 DEF Inv, ServerTypes
      <4>2. h[v] = "reply" => Good(reply[v])'
        <5>1. h[v] = "reply" => Good(reply[v]) /\ reply[v].call # cur[u]
          BY <2>2, <3>3 DEF Inv, ServeExec
        <5> QED
          BY <1>21, <4>1, <5>1 DEF Good
      <4> QED
        BY <2>3, <4>1, <4>2 DEF Inv, ServeExec
    <3> QED
      BY <3>1, <3>2, <3>3
  <2> QED
    BY <2>1, <2>4 DEF ServeExec
<1>20. ChanMatch'
  <2>1. ASSUME NEW ch \in Chans, NEW t \in Threads
        PROVE  /\ Waits(t, ch) => {msg[ch].call, cur[ch]} \subseteq {None, t}
               /\ Waits(t, ch) /\ conn'[ch] = "client" /\ ch \notin gone => msg[ch].call = t
               /\ ch \notin gone /\ conn'[ch] # "down" /\ t \in {msg[ch].call, cur[ch]} =>
                    Waits(t, ch)
    <3>1. CASE ch = f
      <4>1. msg[ch].call = None /\ cur[ch] = None /\ ~Waits(t, ch) /\ t # None
        BY <1>5, <3>1, MsgFacts, NoneFacts DEF Waits
      <4> QED
        BY <4>1
    <3>2. CASE ch # f
      BY <1>7, <3>2 DEF Inv, ChanMatch, ChanMatchOk
    <3> QED
      BY <3>1, <3>2
  <2> QED
    BY <1>1, <2>1 DEF ChanMatch, ChanMatchOk, Waits
<1> QED
  BY <1>1, <1>9, <1>10, <1>11, <1>12, <1>13, <1>14, <1>15, <1>16, <1>17, <1>18, <1>19,
     <1>20, Frames DEF Inv

(* The invariant holds at first.                                            *)
LEMMA InitInv == Init => Inv
<1> SUFFICES ASSUME Init PROVE Inv
  OBVIOUS
<1>1. CallTypes /\ PoolTypes /\ WireTypes /\ ServerTypes
  BY MsgFacts DEF Init, CallTypes, PoolTypes, WireTypes, ServerTypes, Comms
<1>2. PoolInv /\ UnmadeInv
  BY NoneFacts DEF Init, PoolInv, UnmadeInv, Free
<1>3. SentInv /\ StageInv /\ TokenInv
  BY NoneFacts, MsgFacts DEF Init, SentInv, NotSent, NoToken, StageInv, TokenInv, TokenOk
<1>4. SockExec /\ ChanExec /\ ServeExec
  BY NoneFacts, MsgFacts DEF Init, SockExec, ChanExec, ChanOk, ServeExec, Good
<1>5. SockMatch /\ ChanMatch
  BY NoneFacts, MsgFacts DEF Init, SockMatch, ChanMatch, ChanMatchOk, Waits
<1> QED
  BY <1>1, <1>2, <1>3, <1>4, <1>5 DEF Inv

(* Every step preserves the invariant.                                      *)
LEMMA StepInv == Inv /\ [Next]_vars => Inv'
<1> SUFFICES ASSUME Inv, [Next]_vars PROVE Inv'
  OBVIOUS
<1>1. CASE \E t \in Threads : Call(t)
  BY <1>1, AcquireInv, AcquireSockInv, SockSendInv, SockRecvInv, SendInv, RecvInv,
     ReleaseInv, ConnectInv, AddChannelInv DEF Call
<1>2. CASE \E u \in Comms : Serve(u)
  BY <1>2, RunRecvInv, RunReplyInv, ServiceRecvInv, ServiceReplyInv, EnterGateInv,
     HandleInv, ChannelHandlerInv DEF Serve
<1>3. CASE StartChannels \/ Mount \/ \E t \in Threads, flush \in BOOLEAN : CloseFD(t, flush)
  BY <1>3, StartChannelsInv, BeginSteps
<1>4. CASE Watchdog \/ CloseReturn \/ Closing \/ Close \/ Crash
  BY <1>4, QuietSteps, HangUpSteps, DownSteps, CrashInv DEF Watchdog, Closing
<1>5. CASE UNCHANGED vars
  BY <1>5, Frames DEF vars, threads, pool, ends, wire, sock, server, Inv
<1> QED
  BY <1>1, <1>2, <1>3, <1>4, <1>5 DEF Next, Progress

-----------------------------------------------------------------------------
(* Every step is a step of RPC or changes nothing of it.                    *)
LEMMA Unseen ==
  ASSUME UNCHANGED <<res, execs>>,
         \A t \in Threads : \/ res[t] # "none"
                            \/ pc'[t] \in {"idle", "end"} <=> pc[t] \in {"idle", "end"}
  PROVE  UNCHANGED Abstract!vars
BY DEF Abstract!vars, CallState

(* A call begins.                                                           *)
LEMMA Begins ==
  ASSUME UNCHANGED <<res, execs>>,
         \A t \in Threads : pc'[t] = pc[t] \/ pc[t] = "idle"
  PROVE  Abstract!Next
<1>1. CallState' \in [Threads -> {"idle", "pending", "ok", "err"}]
  BY DEF CallState
<1>2. \A t \in Threads : \/ CallState'[t] = CallState[t]
                         \/ CallState[t] = "idle" /\ CallState'[t] = "pending"
  BY DEF CallState
<1> QED
  BY <1>1, <1>2 DEF Abstract!Next, Abstract!Invoke

(* A call returns.                                                          *)
LEMMA Returns ==
  ASSUME Inv, NEW t \in Threads, NEW r \in {"ok", "err", "fault"}, Finish(t, r),
         pc[t] \in {"send", "wait"}, r = "ok" => execs[t] = 1, UNCHANGED execs
  PROVE  Abstract!Next
<1>1. res[t] = "none"
  BY DEF Inv, SentInv, StageInv, NotSent
<1>2. /\ res'[t] = r /\ \A s \in Threads \ {t} : res'[s] = res[s] /\ pc'[s] = pc[s]
  BY DEF Finish, Goto, Inv, CallTypes
<1>3. CallState[t] = "pending"
  BY <1>1 DEF CallState
<1>4. CallState' = [CallState EXCEPT ![t] = IF r = "ok" THEN "ok" ELSE "err"]
  BY <1>2 DEF CallState
<1> QED
  BY <1>3, <1>4 DEF Abstract!Next, Abstract!Succeed, Abstract!Fail

(* A handler runs for a call.                                               *)
LEMMA Executes ==
  ASSUME Inv, NEW u \in Comms, h[u] = "handle", Ran(u), UNCHANGED <<pc, res>>
  PROVE  Abstract!Next
<1>1. cur[u] \in Threads /\ execs[cur[u]] = 0 /\ ~NotSent(cur[u])
  BY RanFacts
<1>2. execs' = [execs EXCEPT ![cur[u]] = 1]
  BY <1>1, SMT DEF Ran, Inv, ServerTypes
<1>3. CallState[cur[u]] # "idle" /\ CallState' = CallState
  BY <1>1 DEF CallState, NotSent
<1> QED
  BY <1>1, <1>2, <1>3 DEF Abstract!Next, Abstract!Execute

(* A step of a calling thread is one of RPC's or none.                      *)
LEMMA CallRefines ==
  ASSUME Inv, NEW t \in Threads, Call(t)
  PROVE  Abstract!Next \/ UNCHANGED Abstract!vars
<1>1. CASE Acquire(t) \/ AcquireSock(t) \/ Release(t) \/ Connect(t) \/ AddChannel(t)
  <2>1. /\ UNCHANGED <<res, execs>> /\ \A s \in Threads \ {t} : pc'[s] = pc[s]
        /\ \/ pc[t] \in {"acquire", "sock"} /\ pc'[t] \in {"sock", "send"}
           \/ pc[t] \in {"release", "connect", "add"}
    BY <1>1 DEF Acquire, AcquireSock, Release, Connect, AddChannel, Goto, server, Inv,
       CallTypes
  <2>2. pc[t] \in {"release", "connect", "add"} => res[t] # "none"
    BY DEF Inv, StageInv
  <2> QED
    BY <2>1, <2>2, Unseen
<1>2. CASE SockSend(t)
  <2>1. pc[t] = "send" /\ UNCHANGED execs
    BY <1>2 DEF SockSend, server
  <2>2. CASE Finish(t, "err")
    BY <2>1, <2>2, Returns
  <2>3. CASE Goto(t, "wait") /\ UNCHANGED res
    BY <2>1, <2>3, Unseen DEF Goto, Inv, CallTypes
  <2> QED
    BY <1>2, <2>2, <2>3 DEF SockSend
<1>3. CASE Send(t)
  <2>1. pc[t] = "send" /\ UNCHANGED execs
    BY <1>3 DEF Send, server
  <2>2. CASE Finish(t, "err") \/ Finish(t, "fault")
    BY <2>1, <2>2, Returns
  <2>3. CASE Goto(t, "wait") /\ UNCHANGED res
    BY <2>1, <2>3, Unseen DEF Goto, Inv, CallTypes
  <2> QED
    BY <1>3, <2>2, <2>3 DEF Send
<1>4. CASE SockRecv(t)
  <2>1. pc[t] = "wait" /\ comm[t] = Sock /\ UNCHANGED execs
    BY <1>4 DEF SockRecv, server
  <2>2. CASE Finish(t, "err")
    BY <2>1, <2>2, Returns
  <2>3. CASE sockResp # NoMsg /\ Finish(t, Result(sockResp))
    <3>1. sockResp.call = t
      BY <2>1, <2>3 DEF Inv, SockMatch, SockExec, Waits
    <3>2. Result(sockResp) \in {"ok", "err"} /\ (Result(sockResp) = "ok" => execs[t] = 1)
      BY <3>1 DEF Result, Inv, SockExec, Good
    <3> QED
      BY <2>1, <2>3, <3>2, Returns
  <2> QED
    BY <1>4, <2>2, <2>3 DEF SockRecv
<1>5. CASE Recv(t)
  <2> DEFINE ch == comm[t]
  <2>1. pc[t] = "wait" /\ ch \in Chans /\ UNCHANGED execs
    BY <1>5 DEF Recv, server
  <2>2. CASE Finish(t, "err") \/ Finish(t, "fault")
    BY <2>1, <2>2, Returns
  <2>3. CASE ch \notin gone /\ conn[ch] = "client" /\ Finish(t, Result(msg[ch]))
    <3>1. msg[ch].call = t
      BY <2>1, <2>3 DEF Inv, ChanMatch, ChanMatchOk, Waits
    <3>2. Result(msg[ch]) \in {"ok", "err"} /\ (Result(msg[ch]) = "ok" => execs[t] = 1)
      BY <2>1, <2>3, <3>1 DEF Result, Inv, ChanExec, ChanOk, Good
    <3> QED
      BY <2>1, <2>3, <3>2, Returns
  <2> QED
    BY <1>5, <2>2, <2>3 DEF Recv
<1> QED
  BY <1>1, <1>2, <1>3, <1>4, <1>5 DEF Call

(* Every step is one of RPC's or none.                                      *)
LEMMA StepRefines ==
  ASSUME Inv, [Next]_vars
  PROVE  Abstract!Next \/ UNCHANGED Abstract!vars
<1>1. CASE \E t \in Threads : Call(t)
  BY <1>1, CallRefines
<1>2. CASE \E u \in Comms : Handle(u) \/ \E dup \in BOOLEAN : ChannelHandler(u, dup)
  BY <1>2, Executes DEF Handle, ChannelHandler, threads
<1>3. CASE StartChannels
  BY <1>3, Begins DEF StartChannels, server
<1>4. CASE Mount \/ \E t \in Threads, flush \in BOOLEAN : CloseFD(t, flush)
  <2>1. /\ UNCHANGED <<res, execs>>
        /\ \A s \in Threads : pc'[s] = pc[s] \/ pc[s] = "idle"
    BY <1>4 DEF Mount, CloseFD, Goto, server, Inv, CallTypes
  <2> QED
    BY <2>1, Begins
<1>5. CASE \E u \in Comms : \/ RunRecv \/ RunReply \/ EnterGate(u)
                            \/ ServiceRecv(u) \/ ServiceReply(u)
  <2>1. UNCHANGED <<pc, res, execs>>
    BY <1>5 DEF RunRecv, RunReply, EnterGate, ServiceRecv, ServiceReply, threads
  <2> QED
    BY <2>1, Unseen
<1>6. CASE Watchdog \/ CloseReturn \/ Closing \/ Close \/ Crash \/ UNCHANGED vars
  <2>1. UNCHANGED <<pc, res, execs>>
    BY <1>6 DEF Watchdog, ShutdownActiveChans, WaitActive, DestroyChannels, DestroySock,
       CloseReturn, Closing, CloseGate, ShutdownChannels, CloseDone, Close, Crash, vars,
       threads, server
  <2> QED
    BY <2>1, Unseen
<1>7. \A u \in Comms : Serve(u) =>
        \/ RunRecv \/ RunReply \/ EnterGate(u) \/ ServiceRecv(u) \/ ServiceReply(u)
        \/ Handle(u) \/ \E dup \in BOOLEAN : ChannelHandler(u, dup)
  BY DEF Serve
<1> QED
  BY <1>1, <1>2, <1>3, <1>4, <1>5, <1>6, <1>7 DEF Next, Progress

(* Calls over the pool of channels or over the socket, with channels made,  *)
(* shut down and destroyed meanwhile, Close called and the gofer dying at   *)
(* any moment: every SndRcvMessage is one call of RPC.  A handler runs at   *)
(* most once for it, and success means that it ran for this very call.      *)
THEOREM CallsAreRPC == Safety => RPCSpec
<1>1. Init => Abstract!Init
  BY SMT DEF Init, Abstract!Init, CallState
<1>2. Inv /\ [Next]_vars => [Abstract!Next]_(Abstract!vars)
  BY StepRefines
<1> QED
  BY <1>1, <1>2, InitInv, StepInv, PTL DEF Safety, RPCSpec, Abstract!Spec
-----------------------------------------------------------------------------
(* ChannelUse.  A pooled channel has one holder by PoolInv.  That it is not *)
(* held once destroyed is a matter of the watchdog's phases: after          *)
(* shutdownActiveChans what is available is late, after the wait for        *)
(* activeWg what is held is late too, and then channels are destroyed.      *)
OwnInv ==
  /\ channels \subseteq schannels /\ gone \subseteq schannels
  /\ \A t \in Threads : made[t] # None => made[t] \notin channels
PhaseInv ==
  /\ watchdog # "poll" => Free \subseteq late
  /\ watchdog \notin {"poll", "wait"} =>
       \A t \in Threads : comm[t] \in Chans => comm[t] \in late
GoneInv ==
  \A ch \in gone \ late :
    /\ ch \notin Free
    /\ \A t \in Threads : comm[t] # ch /\ (made[t] = ch => pc[t] = "end")
ServedInv == \A ch \in sgone : ch \in schannels /\ h[ch] = "exited"
UseInv == OwnInv /\ PhaseInv /\ GoneInv /\ ServedInv

(* A step that takes nothing into the pool and hands nothing out of it.     *)
LEMMA NarrowSteps ==
  ASSUME Inv, UseInv, UNCHANGED <<watchdog, schannels, sgone, h, gone>>,
         late \subseteq late', channels' \subseteq channels, Free' \subseteq Free,
         \A t \in Threads : /\ comm'[t] \in Chans => comm'[t] = comm[t]
                            /\ made'[t] \in {made[t], None}
                            /\ pc[t] = "end" => pc'[t] = "end"
  PROVE  UseInv'
<1>1. OwnInv'
  BY DEF UseInv, OwnInv
<1>2. PhaseInv'
  BY DEF UseInv, PhaseInv
<1>3. GoneInv'
  <2>1. \A ch \in gone : ch \in Chans
    BY DEF UseInv, OwnInv, Inv, PoolTypes
  <2>2. ASSUME NEW ch \in gone' \ late'
        PROVE  ch \in gone \ late /\ ch # None /\ ch \notin Free'
    BY <2>1, NoneFacts DEF UseInv, GoneInv
  <2>3. ASSUME NEW ch \in gone' \ late', NEW t \in Threads
        PROVE  comm'[t] # ch /\ (made'[t] = ch => pc'[t] = "end")
    BY <2>1, <2>2 DEF UseInv, GoneInv
  <2> QED
    BY <2>2, <2>3 DEF GoneInv
<1>4. ServedInv'
  BY DEF UseInv, ServedInv
<1> QED
  BY <1>1, <1>2, <1>3, <1>4 DEF UseInv

(* A step of the gofer that makes no channel.                               *)
LEMMA ServerSteps ==
  ASSUME Inv, UseInv,
         UNCHANGED <<pc, comm, made, avail, channels, late, gone, watchdog, schannels>>,
         ServedInv'
  PROVE  UseInv'
BY DEF UseInv, OwnInv, PhaseInv, GoneInv, Free

(* getChannel gives a channel to one user.                                  *)
LEMMA AcquireUse ==
  ASSUME Inv, UseInv, NEW t \in Threads, Acquire(t)
  PROVE  UseInv'
<1>1. UNCHANGED <<made, channels, gone, late, watchdog, schannels, sgone, h>>
  BY DEF Acquire, ends, server
<1>2. CASE UNCHANGED <<comm, avail>> /\ Goto(t, "sock") /\ pc[t] = "acquire"
  <2>1. \A s \in Threads : pc[s] = "end" => pc'[s] = "end"
    BY <1>2 DEF Goto, Inv, CallTypes
  <2>2. Free' = Free
    BY <1>2 DEF Free
  <2> QED
    BY <1>1, <1>2, <2>1, <2>2, NarrowSteps
<1>3. CASE /\ avail \notin {None, << >>} /\ avail' = Pop(avail) /\ Goto(t, "send")
           /\ comm' = [comm EXCEPT ![t] = avail[Len(avail)]] /\ pc[t] = "acquire"
  <2> DEFINE ch == avail[Len(avail)]
  <2>1. ch \in Free /\ Free' = Free \ {ch}
    <3>1. avail \in Seq(Chans) /\ avail # << >> /\ Distinct(avail)
      BY <1>3 DEF Inv, PoolTypes, PoolInv
    <3>2. /\ avail' \in Seq(Chans) /\ ch \in Range(avail)
          /\ Range(avail') = Range(avail) \ {ch}
      BY <1>3, <3>1, PopFacts
    <3> QED
      BY <1>3, <3>2, NoneFacts DEF Free
  <2> HIDE DEF ch
  <2>2. /\ \A s \in Threads : pc[s] = "end" => pc'[s] = "end"
        /\ comm'[t] = ch /\ \A s \in Threads \ {t} : comm'[s] = comm[s]
    BY <1>3 DEF Goto, Inv, CallTypes, ch
  <2>3. OwnInv' /\ ServedInv'
    BY <1>1 DEF UseInv, OwnInv, ServedInv
  <2>4. PhaseInv'
    BY <1>1, <2>1, <2>2 DEF UseInv, PhaseInv
  <2>5. GoneInv'
    BY <1>1, <2>1, <2>2, SMT DEF UseInv, GoneInv
  <2> QED
    BY <2>3, <2>4, <2>5 DEF UseInv
<1> QED
  BY <1>2, <1>3 DEF Acquire

(* releaseChannel takes it back.                                            *)
LEMMA ReleaseUse ==
  ASSUME Inv, UseInv, NEW t \in Threads, Release(t)
  PROVE  UseInv'
<1>1. UNCHANGED <<channels, gone, watchdog, schannels, sgone, h>>
  BY DEF Release, ends, server
<1>2. \A s \in Threads : /\ comm'[s] \in {comm[s], None}
                         /\ made'[s] \in {made[s], None}
                         /\ pc[s] = "end" => pc'[s] = "end"
  BY DEF Release, Goto, Inv, CallTypes
<1>3. comm'[t] = None
  BY DEF Release, Inv, CallTypes
<1>4. CASE avail' = avail
  <2>1. Free' = Free /\ late' = late
    BY <1>4 DEF Free, Release
  <2> QED
    BY <1>1, <1>2, <2>1, NoneFacts, NarrowSteps
<1>5. CASE avail' # avail
  <2>1. /\ comm[t] \in Chans /\ avail \in Seq(Chans) /\ Distinct(avail)
        /\ comm[t] \notin Range(avail) /\ avail' = Append(avail, comm[t])
    BY <1>5 DEF Release, Reinsert, Inv, PoolTypes, PoolInv, Free
  <2>2. Free' = Free \cup {comm[t]}
    BY <2>1, AppendFacts, NoneFacts DEF Free
  <2>3. late' = IF watchdog # "poll" THEN late \cup {comm[t]} ELSE late
    BY <1>5 DEF Release
  <2>4. OwnInv' /\ ServedInv'
    BY <1>1, <1>2 DEF UseInv, OwnInv, ServedInv
  <2>5. PhaseInv'
    BY <1>1, <1>2, <2>2, <2>3, NoneFacts DEF UseInv, PhaseInv
  <2>6. GoneInv'
    <3>1. \A ch \in gone \ late : ch \in Chans /\ ch # comm[t]
      BY DEF UseInv, OwnInv, GoneInv, Inv, PoolTypes
    <3> QED
      BY <1>1, <1>2, <2>2, <2>3, <3>1, NoneFacts, SMT DEF UseInv, GoneInv
  <2> QED
    BY <2>4, <2>5, <2>6 DEF UseInv
<1> QED
  BY <1>4, <1>5

(* A new channel is its maker's ...                                         *)
LEMMA ConnectUse ==
  ASSUME Inv, UseInv, NEW t \in Threads, Connect(t)
  PROVE  UseInv'
<1>1. /\ UNCHANGED <<comm, made, avail, channels, late, watchdog, schannels, sgone, h>>
      /\ Free' = Free /\ pc[t] = "connect"
  BY DEF Connect, ends, server, Free
<1>2. /\ pc'[t] \in {"add", "end"} /\ \A s \in Threads \ {t} : pc'[s] = pc[s]
      /\ \A s \in Threads : pc[s] = "end" => pc'[s] = "end"
  BY DEF Connect, Goto, Inv, CallTypes
<1>3. CASE gone' = gone
  BY <1>1, <1>2, <1>3, NarrowSteps
<1>4. CASE gone' = gone \cup {made[t]} /\ pc'[t] = "end"
  <2>1. /\ made[t] \in schannels \ Free
        /\ \A s \in Threads : comm[s] # made[t] /\ (made[s] = made[t] => s = t)
    BY <1>1 DEF Inv, StageInv, PoolInv
  <2>2. OwnInv'
    BY <1>1, <1>4, <2>1 DEF UseInv, OwnInv
  <2>3. PhaseInv' /\ ServedInv'
    BY <1>1 DEF UseInv, PhaseInv, ServedInv
  <2>4. GoneInv'
    BY <1>1, <1>2, <1>4, <2>1 DEF UseInv, GoneInv
  <2> QED
    BY <2>2, <2>3, <2>4 DEF UseInv
<1>5. gone' = gone \/ (gone' = gone \cup {made[t]} /\ pc'[t] = "end")
  BY DEF Connect, Goto, Inv, CallTypes
<1> QED
  BY <1>3, <1>4, <1>5

(* ... until it is available.                                               *)
LEMMA AddChannelUse ==
  ASSUME Inv, UseInv, NEW t \in Threads, AddChannel(t)
  PROVE  UseInv'
<1> DEFINE ch == made[t]
<1>1. /\ UNCHANGED <<comm, gone, watchdog, schannels, sgone, h>> /\ pc[t] = "add"
      /\ channels' = channels \cup {ch}
      /\ late' = IF watchdog = "poll" THEN late ELSE late \cup {ch}
  BY DEF AddChannel, ends, server
<1>2. /\ ch \in schannels \ Free /\ ch \in Chans
      /\ \A s \in Threads : comm[s] # ch /\ (made[s] = ch => s = t)
  BY <1>1 DEF Inv, CallTypes, StageInv, PoolInv
<1>3. /\ made'[t] = None /\ \A s \in Threads \ {t} : made'[s] = made[s]
      /\ \A s \in Threads : pc[s] = "end" => pc'[s] = "end"
  BY DEF AddChannel, Goto, Inv, CallTypes
<1>4. Free' = Free \cup {ch}
  <2>1. /\ Stack \in Seq(Chans) /\ Distinct(Stack) /\ Range(Stack) = Free
    BY SMT DEF Stack, Inv, PoolTypes, PoolInv, Free, Distinct, Range
  <2>2. avail' \in Seq(Chans) /\ Range(avail') = Free \cup {ch}
    BY <1>2, <2>1, AppendFacts DEF AddChannel
  <2> QED
    BY <2>2, NoneFacts DEF Free
<1> HIDE DEF ch
<1>5. OwnInv'
  BY <1>1, <1>2, <1>3 DEF UseInv, OwnInv, ch
<1>6. PhaseInv'
  BY <1>1, <1>4 DEF UseInv, PhaseInv
<1>7. GoneInv'
  <2>1. ch \notin gone \ late
    BY <1>1 DEF UseInv, GoneInv, ch
  <2>2. \A c \in gone : c # None
    BY NoneFacts DEF UseInv, OwnInv, Inv, PoolTypes
  <2> QED
    BY <1>1, <1>3, <1>4, <2>1, <2>2 DEF UseInv, GoneInv
<1>8. ServedInv'
  BY <1>1 DEF UseInv, ServedInv
<1> QED
  BY <1>5, <1>6, <1>7, <1>8 DEF UseInv

(* The watchdog shuts channels down, waits for their users and destroys     *)
(* them.                                                                    *)
LEMMA WatchdogUse ==
  ASSUME Inv, UseInv, Watchdog
  PROVE  UseInv'
<1>1. UNCHANGED <<pc, comm, made, channels, late, schannels, sgone, h>>
  BY DEF Watchdog, ShutdownActiveChans, WaitActive, DestroyChannels, DestroySock,
     threads, pool, server
<1>2. ServedInv'
  BY <1>1 DEF UseInv, ServedInv
<1>3. CASE ShutdownActiveChans
  <2>1. UNCHANGED gone /\ Free' = {} /\ watchdog' = "wait"
    BY <1>3 DEF ShutdownActiveChans, Free
  <2> QED
    BY <1>1, <1>2, <2>1 DEF UseInv, OwnInv, PhaseInv, GoneInv
<1>4. CASE WaitActive
  <2>1. /\ UNCHANGED gone /\ Free' = Free /\ watchdog = "wait"
        /\ \A t \in Threads : comm[t] \notin Chans
    BY <1>4 DEF WaitActive, pool, activeWg, Free
  <2> QED
    BY <1>1, <1>2, <2>1 DEF UseInv, OwnInv, PhaseInv, GoneInv
<1>5. CASE DestroyChannels
  <2>1. /\ gone' = gone \cup channels /\ Free' = Free /\ watchdog = "destroy"
        /\ watchdog' = "sock"
    BY <1>5 DEF DestroyChannels, Free
  <2>2. OwnInv'
    BY <1>1, <2>1 DEF UseInv, OwnInv
  <2>3. PhaseInv'
    BY <1>1, <2>1 DEF UseInv, PhaseInv
  <2>4. GoneInv'
    <3>1. \A ch \in channels : ch \in Chans /\ ch # None
      BY NoneFacts DEF UseInv, OwnInv, Inv, PoolTypes
    <3> QED
      BY <1>1, <2>1, <3>1, SMT DEF UseInv, GoneInv, PhaseInv, OwnInv
  <2> QED
    BY <1>2, <2>2, <2>3, <2>4 DEF UseInv
<1>6. CASE DestroySock
  <2>1. UNCHANGED gone /\ Free' = Free /\ watchdog = "sock"
    BY <1>6 DEF DestroySock, pool, Free
  <2> QED
    BY <1>1, <1>2, <2>1 DEF UseInv, OwnInv, PhaseInv, GoneInv
<1> QED
  BY <1>3, <1>4, <1>5, <1>6 DEF Watchdog

(* The server's end of a new channel.                                       *)
LEMMA ChannelHandlerUse ==
  ASSUME Inv, UseInv, NEW u \in Comms, NEW dup \in BOOLEAN, ChannelHandler(u, dup)
  PROVE  UseInv'
<1>1. /\ UNCHANGED <<pc, comm, avail, channels, late, gone, watchdog, sgone>>
      /\ schannels' = schannels \cup {Fresh} /\ Free' = Free /\ h[u] = "handle"
      /\ h' = [h EXCEPT ![u] = "reply", ![Fresh] = "recv"]
      /\ made' = made \/ made' = [made EXCEPT ![cur[u]] = Fresh]
  BY DEF ChannelHandler, pool, ends, Free
<1>2. Fresh \in Chans \ schannels
  BY DEF ChannelHandler, Fresh
<1>3. \A t \in Threads : made'[t] \in {made[t], Fresh}
  BY <1>1 DEF Inv, CallTypes
<1>4. OwnInv'
  BY <1>1, <1>2, <1>3 DEF UseInv, OwnInv
<1>5. PhaseInv'
  BY <1>1 DEF UseInv, PhaseInv
<1>6. GoneInv'
  <2>1. Fresh \notin gone
    BY <1>2 DEF UseInv, OwnInv
  <2> QED
    BY <1>1, <1>3, <2>1 DEF UseInv, GoneInv
<1>7. ServedInv'
  BY <1>1, <1>2 DEF UseInv, ServedInv, Inv, ServerTypes, PoolTypes, Comms
<1> QED
  BY <1>4, <1>5, <1>6, <1>7 DEF UseInv

(* The steps of the gofer that make no channel: a service goroutine that    *)
(* has returned does not run again.                                         *)
LEMMA GoferUse ==
  ASSUME Inv, UseInv,
         \/ \E u \in Comms : \/ EnterGate(u) \/ Handle(u) \/ (u = Sock /\ (RunRecv \/ RunReply))
                             \/ u \in Chans /\ (ServiceRecv(u) \/ ServiceReply(u))
         \/ Closing \/ Crash
  PROVE  UseInv'
<1>1. UNCHANGED <<pc, comm, made, avail, channels, late, gone, watchdog, schannels>>
  BY DEF RunRecv, RunReply, EnterGate, ServiceRecv, ServiceReply, Handle, Closing,
     CloseGate, ShutdownChannels, CloseDone, Crash, threads, pool, ends
<1>2. ServedInv'
  <2>1. CASE CloseDone
    BY <2>1 DEF CloseDone, Serviced, ServedInv
  <2>2. CASE Crash
    BY <2>2 DEF Crash, ServedInv
  <2>3. CASE CloseGate \/ ShutdownChannels
    BY <2>3 DEF CloseGate, ShutdownChannels, ServedInv, UseInv
  <2>4. ASSUME NEW u \in Comms,
               \/ EnterGate(u) \/ Handle(u) \/ (u = Sock /\ (RunRecv \/ RunReply))
               \/ u \in Chans /\ (ServiceRecv(u) \/ ServiceReply(u))
        PROVE  ServedInv'
    <3>1. UNCHANGED sgone /\ h[u] # "exited" /\ \E l : HGoto(u, l)
      BY <2>4 DEF EnterGate, Handle, RunRecv, RunReply, ServiceRecv, ServiceReply
    <3>2. \A v \in Comms \ {u} : h'[v] = h[v]
      BY <3>1 DEF HGoto, Inv, ServerTypes
    <3> QED
      BY <1>1, <3>1, <3>2 DEF UseInv, ServedInv, Inv, PoolTypes, Comms
  <2> QED
    BY <2>1, <2>2, <2>3, <2>4 DEF Closing
<1> QED
  BY <1>1, <1>2, ServerSteps

(* The steps of the threads that take no channel from or to the pool.       *)
LEMMA CallUse ==
  ASSUME Inv, UseInv,
         \/ Mount \/ StartChannels \/ \E t \in Threads, flush \in BOOLEAN : CloseFD(t, flush)
         \/ \E t \in Threads : AcquireSock(t) \/ SockSend(t) \/ SockRecv(t) \/ Send(t) \/ Recv(t)
  PROVE  UseInv'
<1>1. UNCHANGED <<made, watchdog, schannels, sgone, h, gone, late>>
  BY DEF Mount, StartChannels, CloseFD, AcquireSock, SockSend, SockRecv, Send, Recv,
     pool, ends, server
<1>2. \A s \in Threads : comm'[s] \in Chans => comm'[s] = comm[s]
  BY NoneFacts DEF Mount, StartChannels, CloseFD, AcquireSock, SockSend, SockRecv,
     Send, Recv, Inv, CallTypes
<1>3. channels' \subseteq channels /\ Free' \subseteq Free
  <2>1. CASE StartChannels
    BY <2>1, SMT DEF StartChannels, Free, Range
  <2>2. CASE UNCHANGED <<channels, avail>>
    BY <2>2 DEF Free
  <2> QED
    BY <2>1, <2>2 DEF Mount, CloseFD, AcquireSock, SockSend, SockRecv, Send, Recv, pool
<1>4. \A s \in Threads : pc[s] = "end" => pc'[s] = "end"
  <2>1. CASE StartChannels
    BY <2>1 DEF StartChannels
  <2>2. CASE \E t \in Threads, l \in {"acquire", "end", "send", "wait", "release"} :
               Goto(t, l) /\ pc[t] # "end"
    BY <2>2 DEF Goto, Inv, CallTypes
  <2> QED
    BY <2>1, <2>2 DEF Mount, CloseFD, AcquireSock, SockSend, SockRecv, Send, Recv, Finish,
       Threads
<1> QED
  BY <1>1, <1>2, <1>3, <1>4, NarrowSteps

(* Every step preserves the use of channels.                                *)
LEMMA StepUse == Inv /\ UseInv /\ [Next]_vars => UseInv'
<1> SUFFICES ASSUME Inv, UseInv, [Next]_vars PROVE UseInv'
  OBVIOUS
<1>1. CASE \E t \in Threads : Call(t)
  BY <1>1, AcquireUse, ReleaseUse, ConnectUse, AddChannelUse, CallUse DEF Call
<1>2. CASE \E u \in Comms : Serve(u)
  BY <1>2, ChannelHandlerUse, GoferUse DEF Serve
<1>3. CASE StartChannels \/ Mount \/ \E t \in Threads, flush \in BOOLEAN : CloseFD(t, flush)
  BY <1>3, CallUse
<1>4. CASE Watchdog
  BY <1>4, WatchdogUse
<1>5. CASE Closing \/ Crash
  BY <1>5, GoferUse
<1>6. CASE Close \/ CloseReturn \/ UNCHANGED vars
  BY <1>6, ServerSteps DEF Close, CloseReturn, vars, threads, pool, ends, server,
     UseInv, ServedInv
<1> QED
  BY <1>1, <1>2, <1>3, <1>4, <1>5, <1>6 DEF Next, Progress

(* getChannel, releaseChannel, AddChannel's append, Connect's failure and   *)
(* the watchdog in any order, for any number of channels and callers: a     *)
(* channel has one user at a time and none once destroyed, with the one     *)
(* exception of channels that became available after the shutdown.          *)
THEOREM ChannelsAreExclusive == Safety => []ChannelUse
<1>1. Init => UseInv
  BY DEF Init, UseInv, OwnInv, PhaseInv, GoneInv, ServedInv
<1>2. Inv /\ UseInv => ChannelUse
  <2> SUFFICES ASSUME Inv, UseInv PROVE ChannelUse
    OBVIOUS
  <2>1. \A ch \in Chans : \A s, t \in Holders(ch) : s = t
    BY DEF Holders, Inv, PoolInv
  <2>2. ASSUME NEW ch \in Chans \ late, ch \in gone
        PROVE  Holders(ch) = {}
    BY <2>2 DEF Holders, UseInv, GoneInv
  <2>3. \A ch \in sgone : h[ch] = "exited"
    BY DEF UseInv, ServedInv
  <2> QED
    BY <2>1, <2>2, <2>3 DEF ChannelUse
<1> QED
  BY <1>1, <1>2, InitInv, StepInv, StepUse, PTL DEF Safety

-----------------------------------------------------------------------------
(* ClosedOnce.  An FD is queued or in one batch, from the CloseFD that      *)
(* hands it over on; it is removed when the call of its batch is executed,  *)
(* which by Inv happens once.                                               *)
BatchTypes ==
  /\ batch \in [Threads -> SUBSET FDClosers] /\ fdsToClose \subseteq FDClosers
  /\ closed \in [FDClosers -> Nat]
QueueInv ==
  /\ \A t \in Threads : pc[t] = "idle" => batch[t] = {}
  /\ \A t \in fdsToClose : pc[t] # "idle"
  /\ \A c \in Threads : \A t \in batch[c] :
       /\ t \notin fdsToClose /\ pc[t] # "idle" /\ c \in FDClosers
       /\ \A d \in Threads : t \in batch[d] => d = c
RemovedInv ==
  \A t \in FDClosers : closed[t] # 0 =>
    closed[t] = 1 /\ \E c \in FDClosers : t \in batch[c] /\ execs[c] = 1
BatchInv == BatchTypes /\ QueueInv /\ RemovedInv

(* CloseFD adds to the batch, or takes all of it.                           *)
LEMMA CloseFDBatch ==
  ASSUME Inv, BatchInv, NEW t \in Threads, NEW flush \in BOOLEAN, CloseFD(t, flush)
  PROVE  BatchInv'
<1> DEFINE fds == fdsToClose \cup {t}
<1>1. /\ t \in FDClosers /\ pc[t] = "idle" /\ UNCHANGED <<execs, closed>>
      /\ \/ UNCHANGED batch /\ fdsToClose' = fds
         \/ batch' = [batch EXCEPT ![t] = fds] /\ fdsToClose' = {}
  BY DEF CloseFD, server
<1>2. pc'[t] # "idle" /\ \A s \in Threads \ {t} : pc'[s] = pc[s]
  BY DEF CloseFD, Goto, Inv, CallTypes
<1>3. /\ batch[t] = {} /\ \A c \in Threads : batch[c] \cap fds = {}
      /\ fds \subseteq FDClosers /\ FDClosers \subseteq Threads
  BY <1>1, SMT DEF BatchInv, BatchTypes, QueueInv, Threads
<1>4. CASE UNCHANGED batch /\ fdsToClose' = fds
  <2>1. BatchTypes'
    BY <1>1, <1>3, <1>4 DEF BatchInv, BatchTypes
  <2>2. QueueInv'
    BY <1>1, <1>2, <1>3, <1>4, SMT DEF BatchInv, BatchTypes, QueueInv
  <2>3. RemovedInv'
    BY <1>1, <1>4 DEF BatchInv, RemovedInv
  <2> QED
    BY <2>1, <2>2, <2>3 DEF BatchInv
<1>5. CASE batch' = [batch EXCEPT ![t] = fds] /\ fdsToClose' = {}
  <2>1. BatchTypes'
    BY <1>1, <1>3, <1>5 DEF BatchInv, BatchTypes
  <2>2. batch'[t] = fds /\ \A c \in Threads \ {t} : batch'[c] = batch[c]
    BY <1>5 DEF BatchInv, BatchTypes
  <2>3. QueueInv'
    BY <1>1, <1>2, <1>3, <1>5, <2>2, SMT DEF BatchInv, BatchTypes, QueueInv
  <2>4. RemovedInv'
    BY <1>1, <1>3, <2>2 DEF BatchInv, RemovedInv
  <2> QED
    BY <2>1, <2>3, <2>4 DEF BatchInv
<1> QED
  BY <1>1, <1>4, <1>5

(* CloseHandler removes the FDs of its batch.                               *)
LEMMA RanBatch ==
  ASSUME Inv, BatchInv, NEW u \in Comms,
         Handle(u) \/ \E dup \in BOOLEAN : ChannelHandler(u, dup)
  PROVE  BatchInv'
<1> DEFINE c == cur[u]
<1>1. /\ h[u] = "handle" /\ Ran(u) /\ UNCHANGED <<pc, batch, fdsToClose>>
      /\ \/ UNCHANGED closed
         \/ closed' = [t \in FDClosers |-> closed[t] + (IF t \in batch[c] THEN 1 ELSE 0)]
  BY DEF Handle, ChannelHandler, threads
<1>2. c \in Threads /\ execs[c] = 0 /\ execs'[c] = 1
      /\ \A s \in Threads \ {c} : execs'[s] = execs[s]
  BY <1>1, RanFacts
<1> HIDE DEF c
<1>3. QueueInv'
  BY <1>1 DEF BatchInv, QueueInv
<1>4. BatchTypes'
  BY <1>1, SMT DEF BatchInv, BatchTypes
<1>5. RemovedInv'
  <2> SUFFICES ASSUME NEW t \in FDClosers, closed'[t] # 0
               PROVE  closed'[t] = 1 /\ \E d \in FDClosers : t \in batch'[d] /\ execs'[d] = 1
    BY DEF RemovedInv
  <2>1. t \in Threads /\ FDClosers \subseteq Threads
    BY DEF Threads
  <2>2. CASE closed[t] # 0
    <3>1. closed[t] = 1
      BY <2>2 DEF BatchInv, RemovedInv
    <3>2. PICK d \in FDClosers : t \in batch[d] /\ execs[d] = 1
      BY <2>2 DEF BatchInv, RemovedInv
    <3>3. d # c
      BY <1>2, <3>2, SMT
    <3>4. t \notin batch[c]
      BY <1>2, <2>1, <3>2, <3>3 DEF BatchInv, QueueInv
    <3>5. closed'[t] = 1
      BY <1>1, <3>1, <3>4, SMT
    <3> QED
      BY <1>1, <1>2, <2>1, <3>2, <3>3, <3>5
  <2>3. CASE closed[t] = 0
    <3>1. t \in batch[c] /\ closed'[t] = 1
      BY <1>1, <2>3, SMT
    <3>2. c \in FDClosers
      BY <1>2, <3>1 DEF BatchInv, QueueInv
    <3> QED
      BY <1>1, <1>2, <3>1, <3>2
  <2> QED
    BY <2>2, <2>3
<1> QED
  BY <1>3, <1>4, <1>5 DEF BatchInv

(* Nothing else touches FDs or batches.                                     *)
LEMMA OtherBatch ==
  ASSUME BatchInv, UNCHANGED <<batch, fdsToClose, closed, execs>>,
         \A t \in Threads : pc'[t] = "idle" => pc[t] = "idle"
  PROVE  BatchInv'
<1>1. FDClosers \subseteq Threads
  BY DEF Threads
<1>2. QueueInv'
  BY <1>1 DEF BatchInv, BatchTypes, QueueInv
<1> QED
  BY <1>2 DEF BatchInv, BatchTypes, RemovedInv

(* Every step preserves what is known of FDs.                               *)
LEMMA StepBatch == Inv /\ BatchInv /\ [Next]_vars => BatchInv'
<1> SUFFICES ASSUME Inv, BatchInv, [Next]_vars PROVE BatchInv'
  OBVIOUS
<1>1. CASE \E t \in Threads, flush \in BOOLEAN : CloseFD(t, flush)
  BY <1>1, CloseFDBatch
<1>2. CASE \E u \in Comms : Handle(u) \/ \E dup \in BOOLEAN : ChannelHandler(u, dup)
  BY <1>2, RanBatch
<1>3. CASE \/ \E t \in Threads : Call(t)
           \/ Mount \/ StartChannels
  <2>1. UNCHANGED <<batch, fdsToClose, closed, execs>>
    <3>1. ASSUME NEW t \in Threads, Call(t) PROVE UNCHANGED <<batch, fdsToClose, closed, execs>>
      BY <3>1 DEF Call, Acquire, AcquireSock, SockSend, SockRecv, Send, Recv, Release,
         Connect, AddChannel, server
    <3>2. Mount \/ StartChannels => UNCHANGED <<batch, fdsToClose, closed, execs>>
      BY DEF Mount, StartChannels, server
    <3> QED
      BY <1>3, <3>1, <3>2
  <2>2. CASE StartChannels
    BY <2>1, <2>2, OtherBatch DEF StartChannels
  <2>3. CASE \E t \in Threads : \E l \in {"acquire", "sock", "send", "wait", "release",
                                         "connect", "add", "end"} : Goto(t, l)
    <3>1. \A t \in Threads : pc'[t] = "idle" => pc[t] = "idle"
      BY <2>3 DEF Goto, Inv, CallTypes
    <3> QED
      BY <2>1, <3>1, OtherBatch
  <2>4. ASSUME NEW t \in Threads, Call(t)
        PROVE  \E l \in {"acquire", "sock", "send", "wait", "release", "connect", "add",
                         "end"} : Goto(t, l)
    BY <2>4 DEF Call, Acquire, AcquireSock, SockSend, SockRecv, Send, Recv, Release,
       Connect, AddChannel, Finish
  <2> QED
    BY <1>3, <2>2, <2>3, <2>4 DEF Mount, Threads
<1>4. CASE \E u \in Comms : \/ RunRecv \/ RunReply \/ EnterGate(u)
                            \/ ServiceRecv(u) \/ ServiceReply(u)
  <2>1. UNCHANGED <<batch, fdsToClose, closed, execs, pc>>
    BY <1>4 DEF RunRecv, RunReply, EnterGate, ServiceRecv, ServiceReply, threads
  <2> QED
    BY <2>1, OtherBatch
<1>5. CASE Watchdog \/ CloseReturn \/ Closing \/ Close \/ Crash \/ UNCHANGED vars
  <2>1. UNCHANGED <<batch, fdsToClose, closed, execs, pc>>
    BY <1>5 DEF Watchdog, ShutdownActiveChans, WaitActive, DestroyChannels,
       DestroySock, CloseReturn, Closing, CloseGate, ShutdownChannels, CloseDone, Close,
       Crash, vars, threads, server
  <2> QED
    BY <2>1, OtherBatch
<1>6. \A u \in Comms : Serve(u) =>
        \/ RunRecv \/ RunReply \/ EnterGate(u) \/ ServiceRecv(u) \/ ServiceReply(u)
        \/ Handle(u) \/ \E dup \in BOOLEAN : ChannelHandler(u, dup)
  BY DEF Serve
<1> QED
  BY <1>1, <1>2, <1>3, <1>4, <1>5, <1>6 DEF Next, Progress

(* CloseFD's batches against handler failures, hang-ups and the gofer's     *)
(* death, for any number of FDs and any batch size: CloseHandler removes an *)
(* FD at most once, by the call that took it off the queue.                 *)
THEOREM FDsCloseOnce == Safety => []ClosedOnce
<1>1. Init => BatchInv
  BY SMT DEF Init, BatchInv, BatchTypes, QueueInv, RemovedInv
<1>2. BatchInv => ClosedOnce
  <2> SUFFICES ASSUME BatchInv PROVE ClosedOnce
    OBVIOUS
  <2>1. ASSUME NEW t \in FDClosers
        PROVE  closed[t] <= 1
    BY SMT DEF BatchInv, BatchTypes, RemovedInv
  <2>2. ASSUME NEW t \in FDClosers, closed[t] = 1
        PROVE  t \notin fdsToClose /\ \E c \in FDClosers : t \in batch[c] /\ execs[c] = 1
    <3>1. PICK c \in FDClosers : t \in batch[c] /\ execs[c] = 1
      BY <2>2, SMT DEF BatchInv, RemovedInv
    <3> QED
      BY <3>1 DEF BatchInv, QueueInv, Threads
  <2> QED
    BY <2>1, <2>2 DEF ClosedOnce
<1> QED
  BY <1>1, <1>2, InitInv, StepInv, StepBatch, PTL DEF Safety
=============================================================================
