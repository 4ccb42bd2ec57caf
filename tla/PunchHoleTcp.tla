--------------------------- MODULE PunchHoleTcp ---------------------------
(***************************************************************************)
(* PunchHole over TCP: every peer keeps a connection to the server and     *)
(* pings on it; an asker queries for Target, the server tells Target, and  *)
(* both connect to each other from the port they are also listening on.    *)
(* The server and each peer run one event loop, whose read callback takes  *)
(* one message from its buffer when something has arrived; Target connects *)
(* in threads of its own, an asker in the callback itself.                 *)
(***************************************************************************)
EXTENDS Integers, Sequences, FiniteSets, SequencesExt

CONSTANTS Devices,   \* device_sn of the peers
          Target,    \* the device everybody asks for, 2222
          None,      \* a device_sn, or an address, of zero
          Retry,     \* where connect_peer() starts to count down, 10
          MaxFaults, \* restarts, broken connections, split messages (bound)
          Failing    \* the devices they happen to (bound)

ASSUME DevicesAssumption == Target \in Devices /\ None \notin Devices /\ Failing \subseteq Devices
ASSUME BoundsAssumption == Retry \in Nat \ {0, 1} /\ MaxFaults \in Nat

Askers == Devices \ {Target}

(* The n-th connection of a peer to the server; it stands for the address  *)
(* its router gives it, which is the one the server sees.                  *)
Conns == [of : Devices, n : 1 .. MaxFaults + 1]
AskerConns == {c \in Conns : c.of # Target}

(* The two ends of a hole: connect_peer() of the asker, and of the thread  *)
(* Target starts for it.                                                   *)
Ends == {"asker", "thread"} \X AskerConns
Other(e) == <<IF e[1] = "asker" THEN "thread" ELSE "asker", e[2]>>

VARIABLES
  server,   \* "up", or "aborted" by its assertion
  list,     \* s_pall_device_info, the newest entry first: [sn, addr]
  open,     \* connections whose bufferevent the server has not freed
  buf,      \* per connection: the rest of the server's input buffer
  broken,   \* connections that were reset, or whose process has ended
  up, down, \* per connection: messages on their way to and from the server
  inbuf,    \* the rest of Target's input buffer
  inc,      \* how often each peer was started
  pc,       \* where its loop is: "idle", "waiting" or "punching" in user_cb,
            \* "done" with it, "exited"
  dest,     \* the address of Target each asker was told
  sock,     \* per end: "none", "connecting", "between" two turns, and then
            \* "sent", "received", "receiving" or "failed"
  retry,    \* per end: the countdown of connect_peer(), 0 outside it
  held,     \* ends whose listener has accepted the connection of the other
  got,      \* devices whose data Target has received
  faults,   \* faults so far
  trouble   \* what has gone wrong: <<device, why>>

serverVars == <<server, list, open, buf>>
netVars == <<broken, up, down>>
peerVars == <<inbuf, inc, pc, dest>>
holeVars == <<sock, retry, held, got>>
vars == <<serverVars, netVars, peerVars, holeVars, faults, trouble>>

Conn(d) == [of |-> d, n |-> inc[d]]
NoInfo == [sn |-> None, addr |-> None]
Msg(cmd, info) == [cmd |-> cmd, info |-> info]

(* main(): listen, connect to the server, and ping, the first callback of  *)
(* the loop.  At first the server and all peers have been started.         *)
Ping(d) == Msg("PING", [sn |-> d, addr |-> None])

Init ==
  /\ server = "up" /\ list = <<>> /\ broken = {}
  /\ inc = [d \in Devices |-> 1] /\ pc = [d \in Devices |-> "idle"]
  /\ open = {Conn(d) : d \in Devices}
  /\ up = [c \in Conns |-> IF c \in open THEN <<Ping(c.of)>> ELSE <<>>]
  /\ down = [c \in Conns |-> <<>>] /\ buf = down /\ inbuf = <<>>
  /\ dest = [d \in Devices |-> None]
  /\ sock = [e \in Ends |-> "none"] /\ retry = [e \in Ends |-> 0]
  /\ held = {} /\ got = {} /\ faults = 0 /\ trouble = {}

Fault(d, why) == /\ faults < MaxFaults /\ d \in Failing
                 /\ faults' = faults + 1 /\ trouble' = trouble \cup {<<d, why>>}
NoFault == UNCHANGED <<faults, trouble>>
---------------------------------------------------------------------------
(* A process is killed, the system closes its sockets, and it is started   *)
(* again; without a server it exits.  Target's threads go with it; of one  *)
(* for an asker that is gone, only its failing is left, and left out.      *)
Restart(d) ==
  LET mine == {e \in Ends : e[2] = Conn(d) \/ (d = Target /\ e[1] = "thread")}
      new  == [of |-> d, n |-> inc[d] + 1]
  IN  /\ Fault(d, "restart")
      /\ inc' = [inc EXCEPT ![d] = @ + 1]
      /\ broken' = broken \cup {Conn(d)}
      /\ IF server = "up"
         THEN /\ pc' = [pc EXCEPT ![d] = "idle"]
              /\ open' = open \cup {new}
              /\ up' = [up EXCEPT ![new] = <<Ping(d)>>]
         ELSE pc' = [pc EXCEPT ![d] = "exited"] /\ UNCHANGED <<open, up>>
      /\ down' = [down EXCEPT ![Conn(d)] = <<>>]
      /\ inbuf' = IF d = Target THEN <<>> ELSE inbuf
      /\ dest' = [dest EXCEPT ![d] = None]
      /\ sock' = [e \in Ends |-> IF e \in mine THEN "none" ELSE sock[e]]
      /\ retry' = [e \in Ends |-> IF e \in mine THEN 0 ELSE retry[e]]
      /\ held' = held \ mine
      /\ UNCHANGED <<server, list, buf, got>>

(* A connection to the server is reset; what is on its way may be lost.    *)
Break(c) ==
  /\ c \in open \ broken /\ Fault(c.of, "broken")
  /\ broken' = broken \cup {c}
  /\ up' \in {up, [up EXCEPT ![c] = <<>>]}
  /\ down' \in {down, [down EXCEPT ![c] = <<>>]}
  /\ UNCHANGED <<serverVars, peerVars, holeVars>>
---------------------------------------------------------------------------
(* process_query_device_info_cmd(): the loop over the list counts matches  *)
(* of either device and stops at the second; the last match of a device is *)
(* what it copied.                                                         *)
MatchesOf(sns) == {k \in DOMAIN list : list[k].sn \in sns}

MetFirst(src, query) ==              \* mutant: stops at the first match
  {k \in MatchesOf({src, query}) : \A l \in MatchesOf({src, query}) : k <= l}

Met(src, query) ==
  {k \in MatchesOf({src, query}) :
     Cardinality({l \in MatchesOf({src, query}) : l < k}) < 2}

Found(sn, src, query) ==
  LET copied == Met(src, query) \cap MatchesOf({sn})
      last   == {k \in copied : \A l \in copied : l <= k}
  IN  IF last = {} THEN NoInfo ELSE list[CHOOSE k \in last : TRUE]

Unfilled(c, m) == [sn |-> m.info.sn, addr |-> m.info.addr]   \* mutant
Registration(c, m) == [sn |-> m.info.sn, addr |-> c]

PingArrives(c, m) ==
  /\ m.cmd = "PING"
  /\ list' = <<Registration(c, m)>> \o list
  /\ UNCHANGED <<server, broken, down>>

(* send_punch_hole_cmd_to_peer() comes first and asserts that there is a   *)
(* bufferevent to write to.  Writing to a freed one is undefined: it ends  *)
(* the server, or nothing is sent, or its memory is that of the later      *)
(* connection of the device, to which the command goes.                    *)
Aborts == server' = "aborted" /\ broken' = broken \cup open /\ UNCHANGED down

SendTo(c, m, ms) == IF c \in broken THEN ms ELSE [ms EXCEPT ![c] = Append(@, m)]

PunchSelf(src, query) == Msg("PUNCH_HOLE", query)    \* mutant: Target's own address
PunchCmd(src, query) == Msg("PUNCH_HOLE", src)

QueryArrives(c, m) ==
  LET query  == Found(m.info.sn, c.of, m.info.sn)
      src    == Found(c.of, c.of, m.info.sn)
      answer == SendTo(c, Msg("RESPONSE", query), down)
  IN  /\ m.cmd = "QUERY" /\ UNCHANGED list
      /\ \/ query.addr \notin open /\ Aborts
         \/ /\ query # NoInfo /\ query.addr \notin open
            /\ down' \in {answer} \cup {SendTo(b, PunchCmd(src, query), answer) :
                                         b \in {o \in open : o.of = query.sn}}
            /\ UNCHANGED <<server, broken>>
         \/ /\ query.addr \in open
            /\ down' = SendTo(query.addr, PunchCmd(src, query), answer)
            /\ UNCHANGED <<server, broken>>

(* What one call of a read callback leaves in its buffer.  The rest of a   *)
(* message that came in pieces has no length of a head: a head read from   *)
(* it is all of it, or a part, or goes on into the next message.           *)
Remainder == Msg("UNKNOWN", NoInfo)
Left(input) ==
  IF Head(input) # Remainder THEN {Tail(input)}
  ELSE {Tail(input), input, <<Remainder>> \o SubSeq(input, 3, Len(input))}

(* conn_read_cb of the server reads one message; what came with it stays   *)
(* in the buffer until something else arrives.                             *)
ServerTakes(c, input, later) ==
  LET m == Head(input) IN
  /\ server = "up" /\ c \in open
  /\ up' = [up EXCEPT ![c] = later]
  /\ \E left \in Left(input) : buf' = [buf EXCEPT ![c] = left]
  /\ \/ PingArrives(c, m) \/ QueryArrives(c, m)
     \/ m.cmd = "UNKNOWN" /\ UNCHANGED <<server, list, broken, down>>
  /\ UNCHANGED <<open, peerVars, holeVars>>

ServerReads(c) ==
  \E n \in 1 .. Len(up[c]) :
    LET input == buf[c] \o SubSeq(up[c], 1, n)
        m     == Head(input)
        early == m.cmd = "QUERY" /\ MatchesOf({m.info.sn}) = {}
    IN  /\ ServerTakes(c, input, SubSeq(up[c], n + 1, Len(up[c])))
        /\ trouble' = trouble \cup (IF early THEN {<<c.of, "early">>} ELSE {})
                              \cup (IF Len(input) > 1 THEN {<<c.of, "stranded">>} ELSE {})
        /\ UNCHANGED faults

(* TCP delivers the first bytes of a message alone: cmd is read as zero,   *)
(* or the body is, and the other bytes come later; read as a head, they    *)
(* are no command.  With something in the buffer, that is read instead,    *)
(* and the message is whole when the callback gets to it.                  *)
Pieces(m) == {[m EXCEPT !.cmd = "UNKNOWN"], [m EXCEPT !.info = NoInfo]}

ServerReadsPart(c) ==
  /\ up[c] # <<>> /\ Fault(c.of, "split")
  /\ \/ buf[c] # <<>> /\ ServerTakes(c, buf[c], up[c])
     \/ /\ buf[c] = <<>>
        /\ \E p \in Pieces(Head(up[c])) :
             ServerTakes(c, <<p>>, <<Remainder>> \o Tail(up[c]))

(* conn_event_cb of the server frees the bufferevent; the entry of the     *)
(* list that points to it stays.                                           *)
ServerEof(c) ==
  /\ server = "up" /\ c \in open \cap broken /\ up[c] = <<>>
  /\ open' = open \ {c} /\ buf' = [buf EXCEPT ![c] = <<>>]
  /\ NoFault
  /\ UNCHANGED <<server, list, netVars, peerVars, holeVars>>
---------------------------------------------------------------------------
(* user_cb, ten seconds after the start: the query is sent, and the answer *)
(* waited for, in the callback, without a timeout.  On a connection that   *)
(* is broken, and that conn_event_cb may have closed, it fails.            *)
Ask(d) ==
  /\ d # Target /\ pc[d] = "idle"
  /\ IF Conn(d) \in broken
     THEN pc' = [pc EXCEPT ![d] = "done"] /\ UNCHANGED up
     ELSE /\ pc' = [pc EXCEPT ![d] = "waiting"]
          /\ up' = SendTo(Conn(d), Msg("QUERY", [sn |-> Target, addr |-> None]), up)
  /\ NoFault
  /\ UNCHANGED <<serverVars, broken, down, inbuf, inc, dest, holeVars>>

(* connect_peer() begins: `while (--retry)'                                *)
Connects(e) == /\ sock' = [sock EXCEPT ![e] = "connecting"]
               /\ retry' = [retry EXCEPT ![e] = Retry - 1]

(* recv() returned: an answer, or its first bytes, or zero bytes, which is *)
(* UNKNOWN_CMD too.                                                        *)
AnswerRead(d, m) ==
  /\ pc[d] = "waiting"
  /\ \/ /\ m.cmd # "UNKNOWN"
        /\ pc' = [pc EXCEPT ![d] = "punching"]
        /\ dest' = [dest EXCEPT ![d] = m.info.addr]
        /\ Connects(<<"asker", Conn(d)>>)
     \/ /\ m.cmd = "UNKNOWN"
        /\ pc' = [pc EXCEPT ![d] = "done"]
        /\ UNCHANGED <<dest, sock, retry>>
  /\ UNCHANGED <<serverVars, broken, up, inbuf, inc, held, got>>

Answered(d) ==
  LET c == Conn(d) IN
  /\ \/ /\ down[c] # <<>> /\ AnswerRead(d, Head(down[c]))
        /\ down' = [down EXCEPT ![c] = Tail(@)]
     \/ /\ down[c] = <<>> /\ c \in broken /\ AnswerRead(d, Msg("UNKNOWN", NoInfo))
        /\ UNCHANGED down
  /\ NoFault

(* The other bytes of the answer are for conn_read_cb, and no command.     *)
AnsweredPart(d) ==
  LET c == Conn(d) IN
  /\ down[c] # <<>> /\ Fault(d, "split")
  /\ \E p \in Pieces(Head(down[c])) : AnswerRead(d, p)
  /\ down' = [down EXCEPT ![c] = Tail(@)]

(* conn_read_cb of Target starts a thread for the command it reads; what   *)
(* came with it stays in the buffer.  A thread that can only fail is left  *)
(* out: for an address of zero, one nobody has, or one with a thread.      *)
TargetTakes(input, later) ==
  LET a   == Head(input).info.addr
      end == <<"thread", a>>
  IN  /\ pc[Target] = "idle"
      /\ down' = [down EXCEPT ![Conn(Target)] = later]
      /\ inbuf' \in Left(input)
      /\ IF Head(input).cmd = "PUNCH_HOLE" /\ a \in AskerConns
            /\ a = Conn(a.of) /\ sock[end] = "none"
         THEN Connects(end) ELSE UNCHANGED <<sock, retry>>
      /\ UNCHANGED <<serverVars, broken, up, inc, pc, dest, held, got>>

TargetReads ==
  \E n \in 1 .. Len(down[Conn(Target)]) :
    LET came  == down[Conn(Target)]
        input == inbuf \o SubSeq(came, 1, n)
    IN  /\ TargetTakes(input, SubSeq(came, n + 1, Len(came)))
        /\ trouble' = trouble \cup {<<m.info.sn, "stranded">> : m \in ToSet(Tail(input))}
        /\ UNCHANGED faults

TargetReadsPart ==
  LET came == down[Conn(Target)] IN
  /\ came # <<>> /\ Fault(Head(came).info.sn, "split")
  /\ \/ inbuf # <<>> /\ TargetTakes(inbuf, came)
     \/ /\ inbuf = <<>>
        /\ \E p \in Pieces(Head(came)) : TargetTakes(<<p>>, <<Remainder>> \o Tail(came))
---------------------------------------------------------------------------
(* The turns of the loop of connect_peer(), with a sleep between them.     *)
(* After the last, or with a connection, user_cb or the thread ends.       *)
CountStuck(r) == r                   \* mutant: a loop that does not count
CountDown(r) == r - 1

Ended(e, how) ==
  /\ sock' = [sock EXCEPT ![e] = how] /\ retry' = [retry EXCEPT ![e] = 0]
  /\ pc' = IF e[1] = "asker" THEN [pc EXCEPT ![e[2].of] = "done"] ELSE pc

(* The address pair is in use by the connection the listener accepted.    *)
NotInUse(e) == FALSE                 \* mutant: it is shared
InUse(e) == e \in held

Attempt(e) ==
  /\ sock[e] = "between" /\ ~ InUse(e)
  /\ sock' = [sock EXCEPT ![e] = "connecting"]
  /\ NoFault /\ UNCHANGED <<serverVars, netVars, peerVars, retry, held, got>>

(* The routers: what an end sends reaches the process of the other if that *)
(* still has the address and, from there, has sent to this one.            *)
Reaches(e) ==
  IF e[1] = "asker" THEN dest[e[2].of] = Conn(Target) ELSE e[2] = Conn(e[2].of)
HoleOpen(e) == sock[e] # "none"

(* Both ends are connecting: a simultaneous open.  The asker sends "abc"   *)
(* and closes, the end of punch_hole() and of user_cb; the thread receives *)
(* it and ends.                                                            *)
Meet(c) ==
  LET asker == <<"asker", c>>  thread == <<"thread", c>> IN
  /\ \A e \in {asker, thread} : sock[e] = "connecting" /\ Reaches(e)
  /\ sock' = [sock EXCEPT ![asker] = "sent", ![thread] = "received"]
  /\ retry' = [retry EXCEPT ![asker] = 0, ![thread] = 0]
  /\ pc' = [pc EXCEPT ![c.of] = "done"]
  /\ got' = got \cup {c.of}
  /\ NoFault /\ UNCHANGED <<serverVars, netVars, inbuf, inc, dest, held>>

(* The other end is not connecting just now: its listener accepts, and     *)
(* listener_cb drops the socket without closing it.  An asker sends as     *)
(* above; a thread waits in recv(), without a timeout.                     *)
ListenerAccepts(e) ==
  /\ sock[e] = "connecting" /\ Reaches(e)
  /\ sock[Other(e)] # "connecting" /\ HoleOpen(Other(e))
  /\ Ended(e, IF e[1] = "asker" THEN "sent" ELSE "receiving")
  /\ held' = held \cup {Other(e)}
  /\ trouble' = trouble \cup {<<e[2].of, "listener">>}
  /\ UNCHANGED <<serverVars, netVars, inbuf, inc, dest, got, faults>>

(* connect() is refused or times out, or finds the address pair in use.    *)
(* The last turn does not end while the other end is still to come: the    *)
(* turns take minutes (timing assumption).                                 *)
Coming(e) ==
  \/ sock[e] \in {"between", "connecting"} /\ Reaches(e)
  \/ e[1] = "thread" /\ \E m \in ToSet(down[Conn(Target)]) : m.info.addr = e[2]
  \/ e[1] = "asker" /\ down[e[2]] # <<>>

NextTurn(e) ==
  /\ IF CountDown(retry[e]) = 0 THEN Ended(e, "failed")
     ELSE /\ sock' = [sock EXCEPT ![e] = "between"]
          /\ retry' = [retry EXCEPT ![e] = CountDown(@)] /\ UNCHANGED pc
  /\ NoFault /\ UNCHANGED <<serverVars, netVars, inbuf, inc, dest, held, got>>

WaitsInUse(e) ==                     \* mutant: waits while the pair is in use
  sock[e] = "connecting" /\ (retry[e] = 1 => ~ Coming(Other(e))) /\ NextTurn(e)

Fails(e) ==
  /\ \/ sock[e] = "connecting" /\ (retry[e] = 1 => ~ Coming(Other(e)))
     \/ sock[e] = "between" /\ InUse(e)
  /\ NextTurn(e)
---------------------------------------------------------------------------
EndStep(e) == Attempt(e) \/ Fails(e)

Step == \/ \E d \in Devices : Ask(d) \/ Answered(d)
        \/ \E c \in Conns : ServerReads(c) \/ ServerEof(c)
        \/ TargetReads
        \/ \E e \in Ends : EndStep(e)
        \/ \E c \in AskerConns : Meet(c)

Next == \/ Step
        \/ \E e \in Ends : ListenerAccepts(e)
        \/ \E d \in Devices : Restart(d)
        \/ \E c \in Conns : Break(c) \/ ServerReadsPart(c)
        \/ \E d \in Devices : AnsweredPart(d)
        \/ TargetReadsPart

Spec == Init /\ [][Next]_vars
FairSpec == Spec /\ WF_vars(Step)
---------------------------------------------------------------------------
Cmds == {"PING", "QUERY", "RESPONSE", "UNKNOWN", "PUNCH_HOLE"}
Info == [sn : Devices \cup {None}, addr : Conns \cup {None}]
Message == [cmd : Cmds, info : Info]
Reasons == {"restart", "broken", "split", "early", "stranded", "listener"}

(* The state keeps its type.                                               *)
TypeOK ==
  /\ server \in {"up", "aborted"}
  /\ list \in Seq([sn : Devices \cup {None}, addr : Conns])
  /\ open \subseteq Conns /\ broken \subseteq Conns
  /\ up \in [Conns -> Seq(Message)] /\ down \in [Conns -> Seq(Message)]
  /\ buf \in [Conns -> Seq(Message)] /\ inbuf \in Seq(Message)
  /\ inc \in [Devices -> 1 .. MaxFaults + 1]
  /\ pc \in [Devices -> {"idle", "waiting", "punching", "done", "exited"}]
  /\ dest \in [Devices -> Conns \cup {None}]
  /\ sock \in [Ends -> {"none", "between", "connecting", "sent",
                        "received", "receiving", "failed"}]
  /\ retry \in [Ends -> 0 .. Retry - 1]
  /\ held \subseteq Ends /\ got \subseteq Askers
  /\ faults \in 0 .. MaxFaults
  /\ trouble \subseteq (Devices \cup {None}) \X Reasons

(* The server aborts, by its assertion or by writing to a bufferevent it   *)
(* has freed, only after a query for a device that is not registered, a    *)
(* peer that was started again, a message that came in pieces, or a broken *)
(* connection of Target: nothing else the peers do, in whatever order,     *)
(* makes the search miss Target or find a dead connection.                 *)
ServerSurvives ==
  server = "up" \/ \E t \in trouble : \/ t[2] \in {"early", "restart", "split"}
                                      \/ t = <<Target, "broken">>

(* An address pair carries at most one connection, whichever of the three  *)
(* ways it comes about: a simultaneous open, or one of the two listeners.  *)
OneConnection ==
  \A c \in AskerConns :
    LET accepted == held \cap {<<"asker", c>>, <<"thread", c>>}
    IN  IF sock[<<"thread", c>>] = "received" THEN accepted = {} ELSE Cardinality(accepted) <= 1

(* In the end no asker is still in its callback, unless its query is       *)
(* stranded in the input buffer of the server, where nothing reads it, or  *)
(* came in pieces.                                                         *)
Blocked(d) == pc[d] \in {"waiting", "punching"}
AskersReturn ==
  <>[](\A d \in Askers : Blocked(d) => buf[Conn(d)] # <<>> \/ <<d, "split">> \in trouble)

(* In the end no thread of Target runs, unless the listener of the asker   *)
(* has accepted its connection, on which nobody sends.                     *)
Running(c) == sock[<<"thread", c>>] \in {"between", "connecting", "receiving"}
ThreadsEnd == <>[](\A c \in AskerConns : Running(c) => <<"asker", c>> \in held)

(* In the end the data of every asker has reached Target, unless something *)
(* went wrong for the asker or for Target, or the server has aborted.      *)
EveryAskerServed ==
  <>[](\A d \in Askers : \/ d \in got \/ server = "aborted"
                         \/ \E t \in trouble : t[1] \in {d, Target})
===========================================================================
