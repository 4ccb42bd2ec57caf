------------------------ MODULE PunchHoleTcpProofs ------------------------
(***************************************************************************)
(* For any number of devices, turns and faults: the types, what can stop   *)
(* the server, and that an address pair carries one connection.            *)
(***************************************************************************)
EXTENDS PunchHoleTcp, SequenceTheorems, FiniteSetTheorems, TLAPS

(* Each fault starts at most one peer again; an end in its loop has a turn *)
(* left; Target, that asks for nobody, stays in its loop.                  *)
IncBound == \A d \in Devices : inc[d] <= faults + 1
TurnLeft == \A e \in Ends : sock[e] \in {"between", "connecting"} => retry[e] >= 1
TargetLoops == pc[Target] \in {"idle", "exited"}
TypeInv == TypeOK /\ IncBound /\ TurnLeft /\ TargetLoops

(* What the ends of a hole know of each other: nothing has happened for a  *)
(* connection there has not been, or whose asker has not been answered; an *)
(* end whose listener has accepted does not connect.                       *)
FutureUnused == \A e \in Ends : e[2].n > inc[e[2].of] => sock[e] = "none"
AskerUnused ==
  \A d \in Askers : pc[d] \in {"idle", "waiting"} => sock[<<"asker", Conn(d)>>] = "none"
HeldRests == \A e \in held : sock[e] \notin {"none", "connecting", "received"}
MetBoth ==
  \A c \in AskerConns :
    /\ sock[<<"thread", c>>] = "received" => sock[<<"asker", c>>] = "sent" /\ <<"asker", c>> \notin held
    /\ sock[<<"asker", c>>] # "received"
HeldOnce == \A e \in held : Other(e) \notin held
HoleInv == FutureUnused /\ AskerUnused /\ HeldRests /\ MetBoth /\ HeldOnce

(* As long as nothing has happened that may stop the server: every peer is *)
(* in its first life, its ping is the first thing it sends and its only    *)
(* entry in the list, and Target's connection stands.                      *)
Calm == \A t \in trouble : /\ t[2] \notin {"early", "restart", "split"}
                           /\ t # <<Target, "broken">>
First(d) == [of |-> d, n |-> 1]
PingOf(c, m) == m.cmd = "PING" /\ m.info.sn = c.of /\ c = First(c.of)
QueryOf(m) == m.cmd = "QUERY" /\ m.info.sn = Target
UpOrder ==
  \A c \in Conns : \A i \in DOMAIN up[c] :
    \/ QueryOf(up[c][i])
    \/ /\ PingOf(c, up[c][i]) /\ i = 1 /\ buf[c] = <<>>
       /\ \A k \in DOMAIN list : list[k].addr # c
BufOrder == \A c \in Conns : \A i \in DOMAIN buf[c] : QueryOf(buf[c][i])
OneEntry ==
  /\ \A k \in DOMAIN list : list[k].addr = First(list[k].sn)
  /\ \A k, l \in DOMAIN list : list[k].sn = list[l].sn => k = l
CalmInv ==
  Calm => /\ \A d \in Devices : inc[d] = 1
          /\ server = "up" /\ First(Target) \in open \ broken
          /\ UpOrder /\ BufOrder /\ OneEntry

---------------------------------------------------------------------------
LEMMA Constants ==
  /\ Target \in Devices /\ None \notin Devices /\ Failing \subseteq Devices
  /\ Retry \in Nat /\ Retry >= 2 /\ MaxFaults \in Nat
  /\ Askers \subseteq Devices /\ AskerConns \subseteq Conns
BY DevicesAssumption, BoundsAssumption DEF Askers, AskerConns

LEMMA ConnType ==
  ASSUME TypeInv, NEW d \in Devices
  PROVE  Conn(d) \in Conns /\ (d # Target => Conn(d) \in AskerConns)
BY DEF TypeInv, TypeOK, Conn, Conns, AskerConns

LEMMA MessageType ==
  /\ NoInfo \in Info
  /\ \A cmd \in Cmds : \A info \in Info : Msg(cmd, info) \in Message
  /\ \A d \in Devices : Ping(d) \in Message
BY DEF NoInfo, Info, Msg, Message, Cmds, Ping

LEMMA EndType ==
  ASSUME NEW e \in Ends
  PROVE  /\ Other(e) \in Ends /\ Other(Other(e)) = e /\ Other(e) # e
         /\ e[2] \in AskerConns /\ e[1] \in {"asker", "thread"} /\ e = <<e[1], e[2]>>
BY DEF Ends, Other

LEMMA EndsOf ==
  ASSUME NEW c \in AskerConns
  PROVE  /\ <<"asker", c>> \in Ends /\ <<"thread", c>> \in Ends
         /\ Other(<<"asker", c>>) = <<"thread", c>> /\ Other(<<"thread", c>>) = <<"asker", c>>
BY DEF Ends, Other
---------------------------------------------------------------------------
(* The types in three parts, those of what is sent, of the ends, and the rest. *)
Boxes == [Conns -> Seq(Message)]
NetTypes == /\ up \in Boxes /\ down \in Boxes
            /\ buf \in Boxes /\ inbuf \in Seq(Message)
            /\ list \in Seq([sn : Devices \cup {None}, addr : Conns])
EndTypes == /\ sock \in [Ends -> {"none", "between", "connecting", "sent",
                                  "received", "receiving", "failed"}]
            /\ retry \in [Ends -> 0 .. Retry - 1]
            /\ held \subseteq Ends /\ got \subseteq Askers
RestTypes == /\ server \in {"up", "aborted"}
             /\ open \subseteq Conns /\ broken \subseteq Conns
             /\ inc \in [Devices -> 1 .. MaxFaults + 1]
             /\ pc \in [Devices -> {"idle", "waiting", "punching", "done", "exited"}]
             /\ dest \in [Devices -> Conns \cup {None}]
             /\ faults \in 0 .. MaxFaults
             /\ trouble \subseteq (Devices \cup {None}) \X Reasons
             /\ TargetLoops

LEMMA TypeParts ==
  /\ TypeInv <=> NetTypes /\ EndTypes /\ RestTypes /\ IncBound /\ TurnLeft
  /\ TypeInv' <=> NetTypes' /\ EndTypes' /\ RestTypes' /\ IncBound' /\ TurnLeft'
BY DEF TypeInv, TypeOK, Boxes, NetTypes, EndTypes, RestTypes

LEMMA Putting ==
  ASSUME NEW ms \in Boxes, NEW c \in Conns, NEW s \in Seq(Message)
  PROVE  [ms EXCEPT ![c] = s] \in Boxes
BY DEF Boxes

LEMMA Sending ==
  ASSUME NEW ms \in Boxes, NEW c \in Conns, NEW m \in Message
  PROVE  SendTo(c, m, ms) \in Boxes
BY DEF SendTo, Boxes

LEMMA FaultTypes ==
  ASSUME RestTypes, IncBound, NEW d, NEW why \in Reasons, Fault(d, why)
  PROVE  /\ faults' \in 0 .. MaxFaults /\ faults' = faults + 1
         /\ trouble' \subseteq (Devices \cup {None}) \X Reasons
         /\ d \in Devices
         /\ \A e \in Devices : inc[e] <= faults'
BY Constants DEF RestTypes, Fault, IncBound

LEMMA InitTypes == ASSUME Init PROVE TypeInv
<1>1. inc \in [Devices -> 1 .. MaxFaults + 1] /\ \A d \in Devices : Conn(d) \in Conns
  BY Constants DEF Init, Conn, Conns
<1>2. NetTypes
  <2>1. \A c \in Conns : c.of \in Devices
    BY DEF Conns
  <2>2. up \in Boxes
    BY <2>1, MessageType DEF Init, Boxes
  <2> QED
    BY <2>2 DEF Init, NetTypes, Boxes
<1>3. EndTypes /\ TurnLeft
  BY Constants DEF Init, EndTypes, TurnLeft
<1>4. RestTypes /\ IncBound
  BY <1>1, Constants DEF Init, RestTypes, TargetLoops, IncBound
<1> QED
  BY <1>2, <1>3, <1>4, TypeParts

LEMMA RestartTypes ==
  ASSUME TypeInv, NEW d \in Devices, Restart(d) PROVE TypeInv'
<1>0. NetTypes /\ EndTypes /\ RestTypes /\ IncBound /\ TurnLeft
  BY TypeParts
<1> USE <1>0
<1> DEFINE new == [of |-> d, n |-> inc[d] + 1]
<1>1. Fault(d, "restart")
  BY DEF Restart
<1>2. /\ faults' \in 0 .. MaxFaults /\ faults' = faults + 1
      /\ trouble' \subseteq (Devices \cup {None}) \X Reasons
      /\ \A e \in Devices : inc[e] <= faults'
  BY <1>1, FaultTypes DEF Reasons
<1>3. Conn(d) \in Conns
  BY ConnType
<1>4. new \in Conns /\ inc[d] + 1 \in 1 .. MaxFaults + 1
  BY <1>2, Constants DEF RestTypes, Conns
<1>5. NetTypes'
  <2>1. /\ up' = up \/ up' = [up EXCEPT ![new] = <<Ping(d)>>]
        /\ down' = [down EXCEPT ![Conn(d)] = <<>>]
        /\ (inbuf' = <<>> \/ inbuf' = inbuf) /\ buf' = buf /\ list' = list
    BY DEF Restart
  <2>2. /\ [up EXCEPT ![new] = <<Ping(d)>>] \in Boxes
        /\ [down EXCEPT ![Conn(d)] = <<>>] \in Boxes
        /\ <<>> \in Seq(Message)
    <3>1. <<Ping(d)>> \in Seq(Message)
      BY MessageType
    <3> QED
      BY <1>3, <1>4, <3>1 DEF NetTypes, Boxes
  <2> QED
    BY ONLY NetTypes, <2>1, <2>2, Zenon DEF NetTypes
<1>6. EndTypes'
  BY Constants DEF Restart, EndTypes
<1>7. RestTypes'
  <2>1. TargetLoops'
    BY Constants DEF Restart, RestTypes, TargetLoops
  <2> QED
    BY <1>2, <1>3, <1>4, <2>1 DEF Restart, RestTypes
<1>8. IncBound'
  BY <1>2 DEF Restart, IncBound, RestTypes, TargetLoops
<1>9. TurnLeft'
  BY DEF Restart, TurnLeft, EndTypes
<1> QED
  BY <1>5, <1>6, <1>7, <1>8, <1>9, TypeParts

LEMMA BreakTypes ==
  ASSUME TypeInv, NEW c \in Conns, Break(c) PROVE TypeInv'
<1>0. NetTypes /\ EndTypes /\ RestTypes /\ IncBound /\ TurnLeft
  BY TypeParts
<1> USE <1>0
<1>1. Fault(c.of, "broken")
  BY DEF Break
<1>2. /\ faults' \in 0 .. MaxFaults /\ faults' = faults + 1
      /\ trouble' \subseteq (Devices \cup {None}) \X Reasons
  BY <1>1, FaultTypes DEF Reasons
<1>3. NetTypes'
  <2>1. /\ up' = up \/ up' = [up EXCEPT ![c] = <<>>]
        /\ down' = down \/ down' = [down EXCEPT ![c] = <<>>]
        /\ buf' = buf /\ inbuf' = inbuf /\ list' = list
    BY DEF Break, serverVars, peerVars
  <2>2. [up EXCEPT ![c] = <<>>] \in Boxes /\ [down EXCEPT ![c] = <<>>] \in Boxes
    BY DEF NetTypes, Boxes
  <2> QED
    BY ONLY NetTypes, <2>1, <2>2, Zenon DEF NetTypes
<1>4. EndTypes' /\ TurnLeft'
  BY DEF Break, holeVars, EndTypes, TurnLeft
<1>5. RestTypes' /\ IncBound'
  BY <1>2 DEF Break, serverVars, peerVars, RestTypes, TargetLoops, IncBound
<1> QED
  BY <1>3, <1>4, <1>5, TypeParts

---------------------------------------------------------------------------
(* A loop takes the first of what it had left and of what has arrived.     *)
LEMMA Taking ==
  ASSUME NEW rest \in Seq(Message), NEW way \in Seq(Message), NEW n \in 1 .. Len(way),
         NEW input, input = rest \o SubSeq(way, 1, n)
  PROVE  /\ input \in Seq(Message) /\ Len(input) >= 1 /\ input # <<>> /\ Head(input) \in Message
         /\ Tail(input) \in Seq(Message)
         /\ SubSeq(way, n + 1, Len(way)) \in Seq(Message)
<1>1. SubSeq(way, 1, n) \in Seq(Message) /\ Len(SubSeq(way, 1, n)) = n
  BY SubSeqProperties
<1>2. input \in Seq(Message) /\ Len(input) = Len(rest) + n
  BY <1>1
<1>3. Len(input) >= 1 /\ input # <<>>
  <2>1. Len(rest) \in Nat /\ n \in Int /\ n >= 1
    OBVIOUS
  <2>2. Len(input) >= 1
    BY <1>2, <2>1
  <2>3. Len(<<>>) = 0
    OBVIOUS
  <2>4. SUFFICES ASSUME input = <<>> PROVE FALSE
    BY <2>2
  <2> QED
    BY ONLY <2>2, <2>3, <2>4
<1>5. Head(input) \in Message /\ Tail(input) \in Seq(Message)
  BY <1>2, <1>3, HeadTailProperties
<1>4. SubSeq(way, n + 1, Len(way)) \in Seq(Message)
  BY SubSeqProperties
<1> QED
  BY <1>2, <1>3, <1>4, <1>5

LEMMA Leaving ==
  ASSUME NEW input \in Seq(Message), input # <<>>
  PROVE  Head(input) \in Message /\ Left(input) \subseteq Seq(Message)
<1>1. Head(input) \in Message /\ Tail(input) \in Seq(Message)
  BY HeadTailProperties
<1>2. <<Remainder>> \in Seq(Message)
  BY MessageType DEF Remainder, Cmds
<1>3. SubSeq(input, 3, Len(input)) \in Seq(Message)
  BY SubSeqProperties
<1>4. <<Remainder>> \o SubSeq(input, 3, Len(input)) \in Seq(Message)
  BY <1>2, <1>3, ConcatProperties
<1> QED
  BY <1>1, <1>4 DEF Left

LEMMA PieceTypes ==
  ASSUME NEW s \in Seq(Message), s # <<>>, NEW p \in Pieces(Head(s))
  PROVE  /\ p \in Message /\ <<p>> \in Seq(Message) /\ <<p>> # <<>>
         /\ <<Remainder>> \o Tail(s) \in Seq(Message)
<1>1. Head(s) \in Message /\ Tail(s) \in Seq(Message)
  BY HeadTailProperties
<1>2. p \in Message
  BY <1>1, MessageType DEF Pieces, Message, Cmds
<1>3. <<p>> \in Seq(Message) /\ <<Remainder>> \in Seq(Message)
  BY <1>2, MessageType DEF Remainder, Cmds
<1>4. <<Remainder>> \o Tail(s) \in Seq(Message)
  BY <1>1, <1>3, ConcatProperties
<1>5. Len(<<p>>) = 1 /\ Len(<<>>) = 0
  OBVIOUS
<1> QED
  BY <1>2, <1>3, <1>4, <1>5

(* A step that records what went wrong, and one fault at most. *)
Charges == /\ faults' \in 0 .. MaxFaults /\ faults' >= faults
           /\ trouble' \subseteq (Devices \cup {None}) \X Reasons

LEMMA SplitCharges ==
  ASSUME RestTypes, IncBound, NEW d, Fault(d, "split")
  PROVE  Charges
BY FaultTypes DEF Charges, Reasons, RestTypes

LEMMA FoundType ==
  ASSUME NetTypes, NEW sn, NEW src, NEW query
  PROVE  Found(sn, src, query) \in Info
<1> DEFINE copied == Met(src, query) \cap MatchesOf({sn})
           last == {k \in copied : \A l \in copied : l <= k}
           pick(ks) == IF ks = {} THEN NoInfo ELSE list[CHOOSE k \in ks : TRUE]
<1>1. last \subseteq DOMAIN list
  BY DEF MatchesOf
<1>2. \A k \in DOMAIN list : list[k] \in Info
  <2>1. \A k \in DOMAIN list : list[k] \in [sn : Devices \cup {None}, addr : Conns]
    <3>1. DOMAIN list = 1 .. Len(list)
      BY DEF NetTypes
    <3> QED
      BY ONLY NetTypes, <3>1, ElementOfSeq, Zenon DEF NetTypes
  <2> QED
    BY <2>1 DEF Info
<1>3. ASSUME NEW ks, ks \subseteq DOMAIN list
      PROVE  pick(ks) \in Info
  <2>1. CASE ks = {}
    BY <2>1, MessageType
  <2>2. CASE ks # {}
    <3>1. (CHOOSE k \in ks : TRUE) \in ks
      BY <2>2
    <3> QED
      BY <1>2, <1>3, <2>2, <3>1
  <2> QED
    BY <2>1, <2>2
<1>4. Found(sn, src, query) = pick(last)
  BY DEF Found
<1> HIDE DEF last, pick
<1> QED
  BY <1>1, <1>3, <1>4

LEMMA PingTypes ==
  ASSUME TypeInv, NEW c \in Conns, NEW m \in Message, PingArrives(c, m)
  PROVE  /\ list' \in Seq([sn : Devices \cup {None}, addr : Conns])
         /\ down' \in Boxes /\ server' \in {"up", "aborted"} /\ broken' \subseteq Conns
<1>1. NetTypes /\ RestTypes
  BY TypeParts
<1>2. Registration(c, m) \in [sn : Devices \cup {None}, addr : Conns]
  BY DEF Registration, Message, Info
<1> QED
  BY <1>1, <1>2 DEF PingArrives, NetTypes, RestTypes

LEMMA QueryTypes ==
  ASSUME TypeInv, NEW c \in Conns, NEW m \in Message, QueryArrives(c, m)
  PROVE  /\ list' \in Seq([sn : Devices \cup {None}, addr : Conns])
         /\ down' \in Boxes /\ server' \in {"up", "aborted"} /\ broken' \subseteq Conns
<1>0. NetTypes /\ RestTypes
  BY TypeParts
<1> DEFINE query  == Found(m.info.sn, c.of, m.info.sn)
           src    == Found(c.of, c.of, m.info.sn)
           answer == SendTo(c, Msg("RESPONSE", query), down)
<1>1. query \in Info /\ src \in Info
  BY <1>0, FoundType
<1>2. Msg("RESPONSE", query) \in Message /\ PunchCmd(src, query) \in Message
  BY <1>1, MessageType DEF PunchCmd, Cmds
<1> HIDE DEF query, src
<1>3. answer \in Boxes
  BY <1>0, <1>2, Sending DEF NetTypes
<1> HIDE DEF answer
<1>4. \A b \in Conns : SendTo(b, PunchCmd(src, query), answer) \in Boxes
  BY <1>2, <1>3, Sending
<1>5. /\ list' = list
      /\ \/ Aborts
         \/ /\ down' \in {answer} \cup {SendTo(b, PunchCmd(src, query), answer) :
                                         b \in {o \in open : o.of = query.sn}}
            /\ server' = server /\ broken' = broken
         \/ /\ query.addr \in open
            /\ down' = SendTo(query.addr, PunchCmd(src, query), answer)
            /\ server' = server /\ broken' = broken
  BY DEF QueryArrives, query, src, answer
<1>6. CASE Aborts
  BY <1>0, <1>5, <1>6 DEF Aborts, NetTypes, RestTypes
<1>7. CASE /\ down' \in {answer} \cup {SendTo(b, PunchCmd(src, query), answer) :
                                         b \in {o \in open : o.of = query.sn}}
           /\ server' = server /\ broken' = broken
  <2>1. down' = answer \/ \E b \in open : down' = SendTo(b, PunchCmd(src, query), answer)
    BY <1>7
  <2> QED
    BY <1>0, <1>3, <1>4, <1>5, <1>7, <2>1 DEF NetTypes, RestTypes
<1>8. CASE /\ query.addr \in open
           /\ down' = SendTo(query.addr, PunchCmd(src, query), answer)
           /\ server' = server /\ broken' = broken
  BY <1>0, <1>4, <1>5, <1>8 DEF NetTypes, RestTypes
<1> QED
  BY <1>5, <1>6, <1>7, <1>8

LEMMA ServerTakesTypes ==
  ASSUME TypeInv, NEW c \in Conns, NEW input \in Seq(Message), input # <<>>,
         NEW later \in Seq(Message), ServerTakes(c, input, later), Charges
  PROVE  TypeInv'
<1>0. NetTypes /\ EndTypes /\ RestTypes /\ IncBound /\ TurnLeft
  BY TypeParts
<1>1. PICK left \in Left(input) :
      /\ up' = [up EXCEPT ![c] = later] /\ buf' = [buf EXCEPT ![c] = left]
      /\ \/ PingArrives(c, Head(input)) \/ QueryArrives(c, Head(input))
         \/ UNCHANGED <<server, list, broken, down>>
      /\ UNCHANGED <<open, peerVars, holeVars>>
  BY DEF ServerTakes
<1>2. Head(input) \in Message /\ left \in Seq(Message)
  BY Leaving
<1>3. up' \in Boxes /\ buf' \in Boxes
  BY <1>0, <1>1, <1>2, Putting DEF NetTypes
<1>4. /\ list' \in Seq([sn : Devices \cup {None}, addr : Conns])
      /\ down' \in Boxes /\ server' \in {"up", "aborted"} /\ broken' \subseteq Conns
  <2>1. CASE PingArrives(c, Head(input))
    BY <1>2, <2>1, PingTypes
  <2>2. CASE QueryArrives(c, Head(input))
    BY <1>2, <2>2, QueryTypes
  <2>3. CASE UNCHANGED <<server, list, broken, down>>
    BY <1>0, <2>3 DEF NetTypes, RestTypes
  <2> QED
    BY <1>1, <2>1, <2>2, <2>3
<1>5. NetTypes'
  BY <1>0, <1>1, <1>3, <1>4 DEF NetTypes, peerVars
<1>6. EndTypes' /\ TurnLeft'
  BY <1>0, <1>1 DEF holeVars, EndTypes, TurnLeft
<1>7. RestTypes'
  BY <1>0, <1>1, <1>4 DEF peerVars, RestTypes, TargetLoops, Charges
<1>8. IncBound'
  BY <1>0, <1>1, Constants DEF peerVars, RestTypes, IncBound, Charges
<1> QED
  BY <1>5, <1>6, <1>7, <1>8, TypeParts

LEMMA ServerReadsTypes ==
  ASSUME TypeInv, NEW c \in Conns, ServerReads(c) PROVE TypeInv'
<1>0. RestTypes /\ up[c] \in Seq(Message) /\ buf[c] \in Seq(Message)
  BY TypeParts DEF NetTypes, Boxes
<1>1. PICK n, input, early :
      /\ n \in 1 .. Len(up[c]) /\ input = buf[c] \o SubSeq(up[c], 1, n)
      /\ ServerTakes(c, input, SubSeq(up[c], n + 1, Len(up[c])))
      /\ trouble' = trouble \cup (IF early THEN {<<c.of, "early">>} ELSE {})
                            \cup (IF Len(input) > 1 THEN {<<c.of, "stranded">>} ELSE {})
      /\ UNCHANGED faults
  BY DEF ServerReads
<1>2. /\ input \in Seq(Message) /\ input # <<>>
      /\ SubSeq(up[c], n + 1, Len(up[c])) \in Seq(Message)
  BY <1>0, <1>1, Taking
<1>3. Charges
  <2>1. c.of \in Devices
    BY DEF Conns
  <2> QED
    BY <1>0, <1>1, <2>1, Constants DEF RestTypes, Reasons, Charges
<1> QED
  BY <1>1, <1>2, <1>3, ServerTakesTypes

LEMMA ServerReadsPartTypes ==
  ASSUME TypeInv, NEW c \in Conns, ServerReadsPart(c) PROVE TypeInv'
<1>1. up[c] \in Seq(Message) /\ buf[c] \in Seq(Message) /\ up[c] # <<>>
  BY TypeParts DEF NetTypes, Boxes, ServerReadsPart
<1>2. Charges
  BY TypeParts, SplitCharges DEF ServerReadsPart
<1>3. CASE buf[c] # <<>> /\ ServerTakes(c, buf[c], up[c])
  BY <1>1, <1>2, <1>3, ServerTakesTypes
<1>4. ASSUME NEW p \in Pieces(Head(up[c])), ServerTakes(c, <<p>>, <<Remainder>> \o Tail(up[c]))
      PROVE  TypeInv'
  BY <1>1, <1>2, <1>4, PieceTypes, ServerTakesTypes
<1> QED
  BY <1>3, <1>4 DEF ServerReadsPart

LEMMA ServerEofTypes ==
  ASSUME TypeInv, NEW c \in Conns, ServerEof(c) PROVE TypeInv'
<1>0. NetTypes /\ EndTypes /\ RestTypes /\ IncBound /\ TurnLeft
  BY TypeParts
<1>1. NetTypes'
  BY <1>0 DEF ServerEof, netVars, peerVars, NetTypes, Boxes
<1>2. EndTypes' /\ TurnLeft'
  BY <1>0 DEF ServerEof, holeVars, EndTypes, TurnLeft
<1>3. RestTypes' /\ IncBound'
  BY <1>0 DEF ServerEof, NoFault, netVars, peerVars, RestTypes, TargetLoops, IncBound
<1> QED
  BY <1>1, <1>2, <1>3, TypeParts

LEMMA AskTypes ==
  ASSUME TypeInv, NEW d \in Devices, Ask(d) PROVE TypeInv'
<1>0. NetTypes /\ EndTypes /\ RestTypes /\ IncBound /\ TurnLeft
  BY TypeParts
<1>1. NetTypes'
  <2> DEFINE query == Msg("QUERY", [sn |-> Target, addr |-> None])
  <2>1. query \in Message
    BY Constants DEF Msg, Message, Cmds, Info
  <2>2. SendTo(Conn(d), query, up) \in Boxes
    BY <1>0, <2>1, ConnType, Sending DEF NetTypes
  <2>3. /\ up' = up \/ up' = SendTo(Conn(d), query, up)
        /\ down' = down /\ buf' = buf /\ inbuf' = inbuf /\ list' = list
    BY DEF Ask, serverVars
  <2> HIDE DEF query
  <2> QED
    BY <1>0, <2>2, <2>3 DEF NetTypes
<1>2. EndTypes' /\ TurnLeft'
  BY <1>0 DEF Ask, holeVars, EndTypes, TurnLeft
<1>3. RestTypes' /\ IncBound'
  <2>1. TargetLoops'
    BY <1>0, Constants DEF Ask, RestTypes, TargetLoops
  <2> QED
    BY <1>0, <2>1 DEF Ask, NoFault, serverVars, RestTypes, IncBound
<1> QED
  BY <1>1, <1>2, <1>3, TypeParts

(* An end that begins to connect. *)
LEMMA ConnectsTypes ==
  ASSUME EndTypes, TurnLeft, NEW e \in Ends, Connects(e), UNCHANGED <<held, got>>
  PROVE  EndTypes' /\ TurnLeft'
<1>1. Retry - 1 \in 0 .. Retry - 1 /\ Retry - 1 >= 1
  BY Constants
<1>2. EndTypes'
  BY <1>1 DEF Connects, EndTypes
<1>3. TurnLeft'
  BY <1>1 DEF Connects, EndTypes, TurnLeft
<1> QED
  BY <1>2, <1>3

LEMMA AnswerReadTypes ==
  ASSUME TypeInv, NEW d \in Devices, NEW m \in Message, AnswerRead(d, m), Charges,
         down' = down \/ (down[Conn(d)] # <<>> /\ down' = [down EXCEPT ![Conn(d)] = Tail(@)])
  PROVE  TypeInv'
<1>0. /\ NetTypes /\ EndTypes /\ RestTypes /\ IncBound /\ TurnLeft
      /\ d # Target
  BY TypeParts DEF AnswerRead, RestTypes, TargetLoops
<1> DEFINE c == Conn(d)
<1>1. c \in Conns /\ c \in AskerConns
  BY <1>0, ConnType
<1>2. NetTypes'
  <2>1. down[c] # <<>> => Tail(down[c]) \in Seq(Message)
    BY <1>0, <1>1, HeadTailProperties DEF NetTypes, Boxes
  <2>2. down[c] # <<>> => [down EXCEPT ![c] = Tail(down[c])] \in Boxes
    BY <1>0, <1>1, <2>1, Putting DEF NetTypes
  <2>3. down' \in Boxes
    BY <1>0, <2>2 DEF NetTypes
  <2> QED
    BY <1>0, <2>3 DEF AnswerRead, serverVars, NetTypes
<1>3. EndTypes' /\ TurnLeft'
  <2>1. <<"asker", c>> \in Ends
    BY <1>1, EndsOf
  <2>2. CASE Connects(<<"asker", c>>) /\ UNCHANGED <<held, got>>
    BY <1>0, <2>1, <2>2, ConnectsTypes
  <2>3. CASE UNCHANGED <<sock, retry, held, got>>
    BY <1>0, <2>3 DEF EndTypes, TurnLeft
  <2> QED
    BY <2>2, <2>3 DEF AnswerRead
<1>4. RestTypes' /\ IncBound'
  <2>1. /\ pc' = [pc EXCEPT ![d] = "punching"] \/ pc' = [pc EXCEPT ![d] = "done"]
        /\ dest' = dest \/ dest' = [dest EXCEPT ![d] = m.info.addr]
        /\ UNCHANGED <<server, open, broken, inc>>
    BY DEF AnswerRead, serverVars
  <2>2. m.info.addr \in Conns \cup {None}
    BY DEF Message, Info
  <2>3. TargetLoops'
    BY <1>0, <2>1, Constants DEF RestTypes, TargetLoops
  <2>4. RestTypes'
    BY <1>0, <2>1, <2>2, <2>3 DEF RestTypes, Charges
  <2> QED
    BY <1>0, <2>1, <2>4, Constants DEF RestTypes, IncBound, Charges
<1> QED
  BY <1>2, <1>3, <1>4, TypeParts

LEMMA AnsweredTypes ==
  ASSUME TypeInv, NEW d \in Devices, Answered(d) PROVE TypeInv'
<1>1. NetTypes /\ RestTypes /\ Conn(d) \in Conns
  BY TypeParts, ConnType
<1>2. Charges
  BY <1>1, Constants DEF Answered, NoFault, RestTypes, Charges
<1>3. CASE down[Conn(d)] # <<>> /\ AnswerRead(d, Head(down[Conn(d)]))
           /\ down' = [down EXCEPT ![Conn(d)] = Tail(@)]
  <2>1. Head(down[Conn(d)]) \in Message
    BY <1>1, <1>3, HeadTailProperties DEF NetTypes, Boxes
  <2> QED
    BY <1>2, <1>3, <2>1, AnswerReadTypes
<1>4. CASE AnswerRead(d, Msg("UNKNOWN", NoInfo)) /\ UNCHANGED down
  <2>1. Msg("UNKNOWN", NoInfo) \in Message
    BY MessageType DEF Cmds
  <2> QED
    BY <1>2, <1>4, <2>1, AnswerReadTypes
<1> QED
  BY <1>3, <1>4 DEF Answered

LEMMA AnsweredPartTypes ==
  ASSUME TypeInv, NEW d \in Devices, AnsweredPart(d) PROVE TypeInv'
<1>1. /\ NetTypes /\ RestTypes /\ IncBound /\ down[Conn(d)] \in Seq(Message)
      /\ down[Conn(d)] # <<>>
  BY TypeParts, ConnType DEF NetTypes, Boxes, AnsweredPart
<1>2. Charges
  BY <1>1, SplitCharges DEF AnsweredPart
<1>3. PICK p \in Pieces(Head(down[Conn(d)])) : AnswerRead(d, p)
  BY DEF AnsweredPart
<1>4. p \in Message
  BY <1>1, PieceTypes
<1> QED
  BY <1>1, <1>2, <1>3, <1>4, AnswerReadTypes DEF AnsweredPart

LEMMA TargetTakesTypes ==
  ASSUME TypeInv, NEW input \in Seq(Message), input # <<>>,
         NEW later \in Seq(Message), TargetTakes(input, later), Charges
  PROVE  TypeInv'
<1>0. NetTypes /\ EndTypes /\ RestTypes /\ IncBound /\ TurnLeft
  BY TypeParts
<1>1. /\ down' = [down EXCEPT ![Conn(Target)] = later] /\ inbuf' \in Left(input)
      /\ (\E a \in AskerConns : Connects(<<"thread", a>>)) \/ UNCHANGED <<sock, retry>>
      /\ UNCHANGED <<serverVars, broken, up, inc, pc, dest, held, got>>
  BY DEF TargetTakes
<1>2. inbuf' \in Seq(Message)
  BY <1>1, Leaving
<1>3. down' \in Boxes
  BY <1>0, <1>1, ConnType, Constants, Putting DEF NetTypes
<1>4. NetTypes'
  BY <1>0, <1>1, <1>2, <1>3 DEF serverVars, NetTypes
<1>5. EndTypes' /\ TurnLeft'
  <2>1. CASE \E a \in AskerConns : Connects(<<"thread", a>>)
    BY <1>0, <1>1, <2>1, ConnectsTypes, EndsOf
  <2>2. CASE UNCHANGED <<sock, retry>>
    BY <1>0, <1>1, <2>2 DEF EndTypes, TurnLeft
  <2> QED
    BY <1>1, <2>1, <2>2
<1>6. RestTypes'
  BY <1>0, <1>1 DEF serverVars, RestTypes, TargetLoops, Charges
<1>7. IncBound'
  BY <1>0, <1>1, Constants DEF RestTypes, IncBound, Charges
<1> QED
  BY <1>4, <1>5, <1>6, <1>7, TypeParts

LEMMA TargetReadsTypes ==
  ASSUME TypeInv, TargetReads PROVE TypeInv'
<1> DEFINE came == down[Conn(Target)]
<1>1. PICK n, input :
      /\ n \in 1 .. Len(came) /\ input = inbuf \o SubSeq(came, 1, n)
      /\ TargetTakes(input, SubSeq(came, n + 1, Len(came)))
      /\ trouble' = trouble \cup {<<m.info.sn, "stranded">> : m \in ToSet(Tail(input))}
      /\ UNCHANGED faults
  BY DEF TargetReads
<1>2. RestTypes /\ came \in Seq(Message) /\ inbuf \in Seq(Message)
  BY TypeParts, ConnType, Constants DEF NetTypes, Boxes
<1>3. /\ input \in Seq(Message) /\ input # <<>> /\ Tail(input) \in Seq(Message)
      /\ SubSeq(came, n + 1, Len(came)) \in Seq(Message)
  BY <1>1, <1>2, Taking
<1>4. Charges
  <2>1. ASSUME NEW s \in Seq(Message), NEW m \in ToSet(s) PROVE m \in Message
    <3>1. PICK i \in DOMAIN s : s[i] = m
      BY <2>1 DEF ToSet
    <3> QED
      BY <3>1
  <2>2. \A m \in Message : m.info.sn \in Devices \cup {None}
    BY DEF Message, Info
  <2> HIDE DEF came
  <2>3. \A m \in ToSet(Tail(input)) : m.info.sn \in Devices \cup {None}
    BY <1>3, <2>1, <2>2
  <2>4. trouble' = trouble \cup {<<m.info.sn, "stranded">> : m \in ToSet(Tail(input))}
        /\ trouble \subseteq (Devices \cup {None}) \X Reasons /\ "stranded" \in Reasons
    BY <1>1, <1>2 DEF RestTypes, Reasons
  <2>5. trouble' \subseteq (Devices \cup {None}) \X Reasons
    BY ONLY <2>3, <2>4
  <2> QED
    BY <1>1, <1>2, <2>5, Constants DEF RestTypes, Charges
<1> HIDE DEF came
<1> QED
  BY <1>1, <1>3, <1>4, TargetTakesTypes

LEMMA TargetReadsPartTypes ==
  ASSUME TypeInv, TargetReadsPart PROVE TypeInv'
<1> DEFINE came == down[Conn(Target)]
<1>1. came \in Seq(Message) /\ inbuf \in Seq(Message) /\ came # <<>>
  BY TypeParts, ConnType, Constants DEF NetTypes, Boxes, TargetReadsPart
<1>2. Charges
  BY TypeParts, SplitCharges DEF TargetReadsPart
<1>3. \/ inbuf # <<>> /\ TargetTakes(inbuf, came)
      \/ \E p \in Pieces(Head(came)) : TargetTakes(<<p>>, <<Remainder>> \o Tail(came))
  BY DEF TargetReadsPart
<1> HIDE DEF came
<1>4. CASE inbuf # <<>> /\ TargetTakes(inbuf, came)
  BY <1>1, <1>2, <1>4, TargetTakesTypes
<1>5. ASSUME NEW p \in Pieces(Head(came)), TargetTakes(<<p>>, <<Remainder>> \o Tail(came))
      PROVE  TypeInv'
  BY <1>1, <1>2, <1>5, PieceTypes, TargetTakesTypes
<1> QED
  BY <1>3, <1>4, <1>5

(* An end that has ended: an asker's user_cb with it. *)
LEMMA EndedTypes ==
  ASSUME TypeInv, NEW e \in Ends, NEW how \in {"sent", "receiving", "failed"}, Ended(e, how)
  PROVE  /\ sock' \in [Ends -> {"none", "between", "connecting", "sent",
                                "received", "receiving", "failed"}]
         /\ retry' \in [Ends -> 0 .. Retry - 1] /\ TurnLeft'
         /\ pc' \in [Devices -> {"idle", "waiting", "punching", "done", "exited"}]
         /\ TargetLoops'
<1>0. EndTypes /\ RestTypes /\ TurnLeft
  BY TypeParts
<1>1. e[2].of \in Devices /\ e[2].of # Target
  BY EndType DEF AskerConns, Conns
<1>2. retry' \in [Ends -> 0 .. Retry - 1]
  BY <1>0, Constants DEF Ended, EndTypes
<1>3. TurnLeft'
  BY <1>0 DEF Ended, EndTypes, TurnLeft
<1>4. /\ pc' \in [Devices -> {"idle", "waiting", "punching", "done", "exited"}]
      /\ TargetLoops'
  <2>1. pc' = pc \/ pc' = [pc EXCEPT ![e[2].of] = "done"]
    BY DEF Ended
  <2> QED
    BY <1>0, <1>1, <2>1, Constants DEF RestTypes, TargetLoops
<1> QED
  BY <1>0, <1>2, <1>3, <1>4 DEF Ended, EndTypes

LEMMA AttemptTypes ==
  ASSUME TypeInv, NEW e \in Ends, Attempt(e) PROVE TypeInv'
<1>0. NetTypes /\ EndTypes /\ RestTypes /\ IncBound /\ TurnLeft
  BY TypeParts
<1>1. NetTypes'
  BY <1>0 DEF Attempt, serverVars, netVars, peerVars, NetTypes
<1>2. EndTypes' /\ TurnLeft'
  BY <1>0 DEF Attempt, EndTypes, TurnLeft
<1>3. RestTypes' /\ IncBound'
  BY <1>0 DEF Attempt, NoFault, serverVars, netVars, peerVars, RestTypes, TargetLoops, IncBound
<1> QED
  BY <1>1, <1>2, <1>3, TypeParts

LEMMA FailsTypes ==
  ASSUME TypeInv, NEW e \in Ends, Fails(e) PROVE TypeInv'
<1>0. NetTypes /\ EndTypes /\ RestTypes /\ IncBound /\ TurnLeft
  BY TypeParts
<1>1. NetTypes'
  BY <1>0 DEF Fails, NextTurn, serverVars, netVars, NetTypes
<1>2. UNCHANGED <<server, open, broken, inc, dest, faults, trouble, held, got>>
  BY DEF Fails, NextTurn, serverVars, netVars, NoFault
<1>3. CASE Ended(e, "failed")
  BY <1>0, <1>1, <1>2, <1>3, EndedTypes, TypeParts DEF EndTypes, RestTypes, IncBound
<1>4. CASE /\ sock' = [sock EXCEPT ![e] = "between"] /\ CountDown(retry[e]) # 0
           /\ retry' = [retry EXCEPT ![e] = CountDown(@)] /\ UNCHANGED pc
  <2>1. retry[e] - 1 \in 1 .. Retry - 1
    <3>1. sock[e] \in {"between", "connecting"}
      BY DEF Fails, NextTurn
    <3>2. retry[e] \in 0 .. Retry - 1 /\ retry[e] >= 1 /\ retry[e] - 1 # 0
      BY <1>0, <1>4, <3>1 DEF EndTypes, TurnLeft, CountDown
    <3> QED
      BY <3>2, Constants
  <2>2. retry' = [retry EXCEPT ![e] = retry[e] - 1]
    BY <1>4 DEF CountDown
  <2>3. retry' \in [Ends -> 0 .. Retry - 1] /\ retry'[e] >= 1
        /\ \A f \in Ends \ {e} : retry'[f] = retry[f] /\ sock'[f] = sock[f]
    BY <1>0, <1>4, <2>1, <2>2 DEF EndTypes
  <2>4. EndTypes' /\ TurnLeft'
    BY <1>0, <1>2, <1>4, <2>3 DEF EndTypes, TurnLeft
  <2>5. RestTypes' /\ IncBound'
    BY <1>0, <1>2, <1>4 DEF RestTypes, TargetLoops, IncBound
  <2> QED
    BY <1>1, <2>4, <2>5, TypeParts
<1> QED
  BY <1>3, <1>4 DEF Fails, NextTurn

LEMMA MeetTypes ==
  ASSUME TypeInv, NEW c \in AskerConns, Meet(c) PROVE TypeInv'
<1>0. NetTypes /\ EndTypes /\ RestTypes /\ IncBound /\ TurnLeft
  BY TypeParts
<1>1. c.of \in Devices /\ c.of # Target /\ c.of \in Askers
  BY DEF AskerConns, Conns, Askers
<1>2. NetTypes'
  BY <1>0 DEF Meet, serverVars, netVars, NetTypes
<1>3. EndTypes'
  BY <1>0, <1>1, EndsOf, Constants DEF Meet, EndTypes
<1>4. TurnLeft'
  BY <1>0, EndsOf DEF Meet, EndTypes, TurnLeft
<1>5. RestTypes' /\ IncBound'
  <2>1. TargetLoops'
    BY <1>0, <1>1, Constants DEF Meet, RestTypes, TargetLoops
  <2> QED
    BY <1>0, <1>1, <2>1 DEF Meet, NoFault, serverVars, netVars, RestTypes, IncBound
<1> QED
  BY <1>2, <1>3, <1>4, <1>5, TypeParts

LEMMA ListenerAcceptsTypes ==
  ASSUME TypeInv, NEW e \in Ends, ListenerAccepts(e) PROVE TypeInv'
<1>0. NetTypes /\ EndTypes /\ RestTypes /\ IncBound /\ TurnLeft
  BY TypeParts
<1>1. NetTypes'
  BY <1>0 DEF ListenerAccepts, serverVars, netVars, NetTypes
<1>2. PICK how \in {"sent", "receiving", "failed"} : Ended(e, how)
  BY DEF ListenerAccepts
<1>3. /\ UNCHANGED <<server, open, broken, inc, dest, faults, got>>
      /\ held' = held \cup {Other(e)} /\ trouble' = trouble \cup {<<e[2].of, "listener">>}
  BY DEF ListenerAccepts, serverVars, netVars
<1>4. Other(e) \in Ends /\ e[2].of \in Devices
  BY EndType DEF AskerConns, Conns
<1>5. EndTypes' /\ TurnLeft' /\ TargetLoops'
      /\ pc' \in [Devices -> {"idle", "waiting", "punching", "done", "exited"}]
  BY <1>0, <1>2, <1>3, <1>4, EndedTypes DEF EndTypes
<1>6. RestTypes' /\ IncBound'
  BY <1>0, <1>3, <1>4, <1>5 DEF RestTypes, IncBound, Reasons
<1> QED
  BY <1>1, <1>5, <1>6, TypeParts

LEMMA TypeStep == TypeInv /\ [Next]_vars => TypeInv'
<1> SUFFICES ASSUME TypeInv, [Next]_vars PROVE TypeInv'
  OBVIOUS
<1>1. ASSUME NEW d \in Devices, Ask(d) \/ Answered(d) \/ AnsweredPart(d) \/ Restart(d)
      PROVE  TypeInv'
  BY <1>1, AskTypes, AnsweredTypes, AnsweredPartTypes, RestartTypes
<1>2. ASSUME NEW c \in Conns,
             ServerReads(c) \/ ServerReadsPart(c) \/ ServerEof(c) \/ Break(c)
      PROVE  TypeInv'
  BY <1>2, ServerReadsTypes, ServerReadsPartTypes, ServerEofTypes, BreakTypes
<1>3. ASSUME TargetReads \/ TargetReadsPart PROVE TypeInv'
  BY <1>3, TargetReadsTypes, TargetReadsPartTypes
<1>4. ASSUME NEW e \in Ends, EndStep(e) \/ ListenerAccepts(e) PROVE TypeInv'
  BY <1>4, AttemptTypes, FailsTypes, ListenerAcceptsTypes DEF EndStep
<1>5. ASSUME NEW c \in AskerConns, Meet(c) PROVE TypeInv'
  BY <1>5, MeetTypes
<1>6. ASSUME UNCHANGED vars PROVE TypeInv'
  BY <1>6, TypeParts DEF vars, serverVars, netVars, peerVars, holeVars, NetTypes, EndTypes,
     RestTypes, TargetLoops, IncBound, TurnLeft
<1> QED
  BY <1>1, <1>2, <1>3, <1>4, <1>5, <1>6 DEF Next, Step

(* Whatever the devices and the faults, the state keeps its type: the turns *)
(* of connect_peer() stay between 0 and retry, what is sent stays a message *)
(* whose address is a connection there may be.                              *)
THEOREM TcpTypeCorrect == Spec => []TypeOK
<1>1. Init => TypeInv
  BY InitTypes
<1>2. TypeInv /\ [Next]_vars => TypeInv'
  BY TypeStep
<1>3. TypeInv => TypeOK
  BY DEF TypeInv
<1> QED
  BY <1>1, <1>2, <1>3, PTL DEF Spec
---------------------------------------------------------------------------
LEMMA InitHole == ASSUME Init PROVE HoleInv
<1>1. \A e \in Ends : sock[e] = "none"
  BY DEF Init
<1>2. held = {}
  BY DEF Init
<1>3. \A c \in AskerConns : sock[<<"asker", c>>] = "none" /\ sock[<<"thread", c>>] = "none"
  BY <1>1, EndsOf
<1>4. \A d \in Askers : Conn(d) \in AskerConns
  BY Constants DEF Init, Conn, Conns, Askers, AskerConns
<1> QED
  BY <1>1, <1>2, <1>3, <1>4
  DEF HoleInv, FutureUnused, AskerUnused, HeldRests, MetBoth, HeldOnce

(* A step that touches no end. *)
LEMMA NoEndMoves ==
  ASSUME TypeInv, HoleInv, UNCHANGED <<sock, held, inc>>,
         \A d \in Askers : pc'[d] \in {"idle", "waiting"} => pc[d] \in {"idle", "waiting"}
  PROVE  HoleInv'
BY DEF HoleInv, FutureUnused, AskerUnused, HeldRests, MetBoth, HeldOnce, Conn

(* A step in which one end moves, to connecting only if its listener has   *)
(* not accepted, and the other's listener may accept.                      *)
LEMMA OneEndMoves ==
  ASSUME TypeInv, HoleInv, NEW e \in Ends,
         NEW to \in {"between", "connecting", "sent", "receiving", "failed"},
         sock' = [sock EXCEPT ![e] = to], inc' = inc, sock[e] \notin {"sent", "received"},
         e[2].n <= inc[e[2].of],
         e[1] = "asker" /\ e[2] = Conn(e[2].of) => pc'[e[2].of] \notin {"idle", "waiting"},
         \A d \in Askers : pc'[d] \in {"idle", "waiting"} => pc[d] \in {"idle", "waiting"},
         to = "connecting" => e \notin held,
         held \subseteq held',
         \A f \in held' \ held : /\ f = Other(e) /\ e \notin held
                                 /\ sock[f] \notin {"none", "connecting", "received"}
  PROVE  HoleInv'
<1>0. /\ FutureUnused /\ AskerUnused /\ HeldRests /\ MetBoth /\ HeldOnce
      /\ sock \in [Ends -> {"none", "between", "connecting", "sent",
                            "received", "receiving", "failed"}]
      /\ inc \in [Devices -> 1 .. MaxFaults + 1] /\ held \subseteq Ends
  BY DEF HoleInv, TypeInv, TypeOK
<1>1. sock'[e] = to /\ \A f \in Ends \ {e} : sock'[f] = sock[f]
  BY <1>0
<1>2. held' \subseteq Ends
  BY <1>0, EndType
<1>3. FutureUnused'
  <2>1. e[2].of \in Devices /\ e[2].n \in Nat
    BY EndType, Constants DEF AskerConns, Conns
  <2>2. inc[e[2].of] \in Nat
    BY <1>0, <2>1, Constants
  <2> SUFFICES ASSUME NEW f \in Ends, f[2].n > inc[f[2].of] PROVE sock'[f] = "none"
    BY DEF FutureUnused
  <2>3. f # e
    BY <2>1, <2>2
  <2> QED
    BY <1>0, <1>1, <2>3 DEF FutureUnused
<1>4. AskerUnused'
  <2> SUFFICES ASSUME NEW d \in Askers, pc'[d] \in {"idle", "waiting"}
               PROVE  sock'[<<"asker", Conn(d)>>] = "none"
    BY DEF AskerUnused, Conn
  <2>1. d \in Devices /\ Conn(d) \in AskerConns /\ Conn(d).of = d
    BY ConnType, Constants DEF Askers, Conn
  <2>2. <<"asker", Conn(d)>> \in Ends /\ sock[<<"asker", Conn(d)>>] = "none"
    BY <1>0, <2>1, EndsOf DEF AskerUnused
  <2>3. <<"asker", Conn(d)>> # e
    BY <2>1
  <2> QED
    BY <1>1, <2>2, <2>3
<1>5. HeldRests'
  <2> SUFFICES ASSUME NEW f \in held' PROVE sock'[f] \notin {"none", "connecting", "received"}
    BY DEF HeldRests
  <2>1. CASE f = e
    BY <1>1, <2>1, EndType
  <2>2. CASE f # e
    BY <1>0, <1>1, <1>2, <2>2 DEF HeldRests
  <2> QED
    BY <2>1, <2>2
<1>6. MetBoth'
  <2> SUFFICES ASSUME NEW c \in AskerConns
               PROVE  /\ sock'[<<"thread", c>>] = "received" =>
                           sock'[<<"asker", c>>] = "sent" /\ <<"asker", c>> \notin held'
                      /\ sock'[<<"asker", c>>] # "received"
    BY DEF MetBoth
  <2>1. <<"asker", c>> \in Ends /\ <<"thread", c>> \in Ends /\ Other(<<"asker", c>>) = <<"thread", c>>
    BY EndsOf
  <2>2. sock'[<<"asker", c>>] # "received"
    BY <1>0, <1>1, <2>1 DEF MetBoth
  <2>3. ASSUME sock'[<<"thread", c>>] = "received"
        PROVE  sock'[<<"asker", c>>] = "sent" /\ <<"asker", c>> \notin held'
    <3>1. <<"thread", c>> # e /\ sock[<<"thread", c>>] = "received"
      BY <1>1, <2>1, <2>3
    <3>2. sock[<<"asker", c>>] = "sent" /\ <<"asker", c>> \notin held
      BY <1>0, <3>1 DEF MetBoth
    <3>3. <<"asker", c>> # e
      BY <3>2
    <3>4. <<"asker", c>> \notin held'
      BY <2>1, <3>1, <3>2, EndType
    <3> QED
      BY <1>1, <2>1, <3>2, <3>3, <3>4
  <2> QED
    BY <2>2, <2>3
<1>7. HeldOnce'
  <2> SUFFICES ASSUME NEW f \in held' PROVE Other(f) \notin held'
    BY DEF HeldOnce
  <2>1. Other(Other(e)) = e /\ Other(e) # e /\ Other(Other(f)) = f /\ f \in Ends
    BY <1>2, EndType
  <2> QED
    BY <1>0, <2>1 DEF HeldOnce
<1> QED
  BY <1>3, <1>4, <1>5, <1>6, <1>7 DEF HoleInv

LEMMA AnswerReadHole ==
  ASSUME TypeInv, HoleInv, NEW d \in Devices, NEW m, AnswerRead(d, m) PROVE HoleInv'
<1>1. /\ d \in Askers /\ Conn(d) \in AskerConns /\ Conn(d).of = d /\ Conn(d).n = inc[d]
      /\ inc[d] \in Int /\ pc \in [Devices -> {"idle", "waiting", "punching", "done", "exited"}]
      /\ pc[d] = "waiting" /\ UNCHANGED <<held, inc>>
  <2>1. d # Target /\ pc[d] = "waiting" /\ UNCHANGED <<held, inc>>
    BY DEF AnswerRead, TypeInv, TargetLoops
  <2> QED
    BY <2>1, ConnType DEF Askers, Conn, TypeInv, TypeOK
<1>2. pc' = [pc EXCEPT ![d] = "punching"] \/ pc' = [pc EXCEPT ![d] = "done"]
  BY DEF AnswerRead
<1>3. /\ \A x \in Askers : pc'[x] \in {"idle", "waiting"} => pc[x] \in {"idle", "waiting"}
      /\ pc'[d] \notin {"idle", "waiting"}
  BY <1>1, <1>2, Constants
<1>4. CASE Connects(<<"asker", Conn(d)>>)
  <2> DEFINE e == <<"asker", Conn(d)>>
  <2>1. e \in Ends /\ sock[e] = "none" /\ e[2] = Conn(d)
    BY <1>1, EndsOf DEF HoleInv, AskerUnused
  <2>2. e \notin held
    BY <2>1 DEF HoleInv, HeldRests
  <2>3. sock' = [sock EXCEPT ![e] = "connecting"]
    BY <1>4 DEF Connects
  <2> HIDE DEF e
  <2>4. e[2].n <= inc[e[2].of] /\ pc'[e[2].of] \notin {"idle", "waiting"}
    BY <1>1, <1>3, <2>1
  <2> QED
    BY <1>1, <1>3, <2>1, <2>2, <2>3, <2>4, OneEndMoves
<1>5. CASE UNCHANGED sock
  BY <1>1, <1>3, <1>5, NoEndMoves
<1> QED
  BY <1>4, <1>5 DEF AnswerRead

LEMMA TargetTakesHole ==
  ASSUME TypeInv, HoleInv, NEW input, NEW later, TargetTakes(input, later) PROVE HoleInv'
<1>1. UNCHANGED <<pc, held, inc>>
  BY DEF TargetTakes
<1>2. CASE \E a \in AskerConns : /\ a = Conn(a.of) /\ sock[<<"thread", a>>] = "none"
                                 /\ Connects(<<"thread", a>>)
  <2>1. PICK a \in AskerConns : /\ a = Conn(a.of) /\ sock[<<"thread", a>>] = "none"
                                /\ sock' = [sock EXCEPT ![<<"thread", a>>] = "connecting"]
    BY <1>2 DEF Connects
  <2> DEFINE e == <<"thread", a>>
  <2>2. /\ e \in Ends /\ e \notin held /\ e[1] = "thread" /\ e[2] = a
        /\ sock[e] = "none" /\ sock' = [sock EXCEPT ![e] = "connecting"]
    BY <2>1, EndsOf DEF HoleInv, HeldRests
  <2>3. a.n <= inc[a.of]
    BY <2>1 DEF Conn, AskerConns, Conns, TypeInv, TypeOK
  <2> HIDE DEF e
  <2> QED
    BY <1>1, <2>2, <2>3, OneEndMoves
<1>3. CASE UNCHANGED sock
  BY <1>1, <1>3, NoEndMoves
<1> QED
  BY <1>2, <1>3 DEF TargetTakes

(* An end in its loop belongs to a connection there has been. *)
LEMMA PastEnd ==
  ASSUME TypeInv, HoleInv, NEW e \in Ends, sock[e] # "none"
  PROVE  /\ e[2].n <= inc[e[2].of] /\ e[2].of \in Askers
         /\ e[1] = "asker" /\ e[2] = Conn(e[2].of) => pc[e[2].of] \notin {"idle", "waiting"}
<1>1. e[2].of \in Askers /\ e[2].n \in Int /\ inc[e[2].of] \in Int /\ e = <<e[1], e[2]>>
  BY EndType, Constants DEF AskerConns, Conns, Askers, TypeInv, TypeOK
<1>2. e[2].n <= inc[e[2].of]
  BY <1>1 DEF HoleInv, FutureUnused
<1>3. e[1] = "asker" /\ e[2] = Conn(e[2].of) => pc[e[2].of] \notin {"idle", "waiting"}
  BY <1>1 DEF HoleInv, AskerUnused
<1> QED
  BY <1>1, <1>2, <1>3

LEMMA AttemptHole ==
  ASSUME TypeInv, HoleInv, NEW e \in Ends, Attempt(e) PROVE HoleInv'
<1>1. /\ sock[e] = "between" /\ e \notin held /\ UNCHANGED <<pc, held, inc>>
      /\ sock' = [sock EXCEPT ![e] = "connecting"]
  BY DEF Attempt, InUse, peerVars
<1> QED
  BY <1>1, PastEnd, OneEndMoves

(* After Ended(e, how) the asker of e is in no callback. *)
LEMMA EndedCalls ==
  ASSUME TypeInv, HoleInv, NEW e \in Ends, NEW how, Ended(e, how), sock[e] # "none"
  PROVE  /\ e[1] = "asker" /\ e[2] = Conn(e[2].of) => pc'[e[2].of] \notin {"idle", "waiting"}
         /\ \A d \in Askers : pc'[d] \in {"idle", "waiting"} => pc[d] \in {"idle", "waiting"}
<1>1. /\ pc \in [Devices -> {"idle", "waiting", "punching", "done", "exited"}]
      /\ e[2].of \in Devices
      /\ \/ pc' = pc /\ e[1] # "asker"
         \/ pc' = [pc EXCEPT ![e[2].of] = "done"]
  BY EndType DEF Ended, AskerConns, Conns, TypeInv, TypeOK
<1> QED
  BY <1>1, Constants

LEMMA FailsHole ==
  ASSUME TypeInv, HoleInv, NEW e \in Ends, Fails(e) PROVE HoleInv'
<1>1. sock[e] \in {"between", "connecting"} /\ UNCHANGED <<held, inc>>
  BY DEF Fails, NextTurn
<1>2. CASE Ended(e, "failed")
  <2>1. sock' = [sock EXCEPT ![e] = "failed"]
    BY <1>2 DEF Ended
  <2> QED
    BY <1>1, <1>2, <2>1, PastEnd, EndedCalls, OneEndMoves
<1>3. CASE sock' = [sock EXCEPT ![e] = "between"] /\ UNCHANGED pc
  BY <1>1, <1>3, PastEnd, OneEndMoves
<1> QED
  BY <1>2, <1>3 DEF Fails, NextTurn

LEMMA ListenerAcceptsHole ==
  ASSUME TypeInv, HoleInv, NEW e \in Ends, ListenerAccepts(e) PROVE HoleInv'
<1>1. /\ sock[e] = "connecting" /\ held' = held \cup {Other(e)} /\ UNCHANGED inc
      /\ sock[Other(e)] \notin {"none", "connecting"}
  BY DEF ListenerAccepts, HoleOpen
<1>2. e \notin held
  BY <1>1 DEF HoleInv, HeldRests
<1>3. sock[Other(e)] # "received"
  <2>1. e[2] \in AskerConns /\ e \in {<<"asker", e[2]>>, <<"thread", e[2]>>}
    BY EndType
  <2>2. Other(e) \in {<<"asker", e[2]>>, <<"thread", e[2]>>} \ {e}
    BY <2>1, EndsOf, EndType
  <2> QED
    BY <1>1, <2>1, <2>2 DEF HoleInv, MetBoth
<1>4. PICK to \in {"sent", "receiving"} : Ended(e, to)
  BY DEF ListenerAccepts
<1>5. sock' = [sock EXCEPT ![e] = to]
  BY <1>4 DEF Ended
<1> QED
  BY <1>1, <1>2, <1>3, <1>4, <1>5, PastEnd, EndedCalls, OneEndMoves

LEMMA MeetHole ==
  ASSUME TypeInv, HoleInv, NEW c \in AskerConns, Meet(c) PROVE HoleInv'
<1> DEFINE asker == <<"asker", c>>
           thread == <<"thread", c>>
<1>0. /\ FutureUnused /\ AskerUnused /\ HeldRests /\ MetBoth /\ HeldOnce
      /\ sock \in [Ends -> {"none", "between", "connecting", "sent",
                            "received", "receiving", "failed"}]
      /\ pc \in [Devices -> {"idle", "waiting", "punching", "done", "exited"}]
      /\ held \subseteq Ends
  BY DEF HoleInv, TypeInv, TypeOK
<1>1. asker \in Ends /\ thread \in Ends /\ c.of \in Devices
  BY EndsOf DEF AskerConns, Conns
<1>2. /\ sock[asker] = "connecting" /\ sock[thread] = "connecting"
      /\ sock' = [sock EXCEPT ![asker] = "sent", ![thread] = "received"]
      /\ pc' = [pc EXCEPT ![c.of] = "done"] /\ UNCHANGED <<held, inc>>
  BY DEF Meet
<1>3. sock'[asker] = "sent" /\ sock'[thread] = "received"
      /\ \A f \in Ends \ {asker, thread} : sock'[f] = sock[f]
  BY <1>0, <1>1, <1>2
<1>4. FutureUnused'
  BY <1>0, <1>1, <1>2, <1>3 DEF FutureUnused
<1>5. AskerUnused'
  <2> SUFFICES ASSUME NEW d \in Askers, pc'[d] \in {"idle", "waiting"}
               PROVE  sock'[<<"asker", Conn(d)>>] = "none"
    BY <1>2 DEF AskerUnused, Conn
  <2>1. d # c.of /\ pc[d] \in {"idle", "waiting"} /\ d \in Devices
    BY <1>0, <1>1, <1>2, Constants
  <2>2. Conn(d) # c /\ Conn(d) \in AskerConns
    BY <2>1, ConnType DEF Conn, Askers
  <2> QED
    BY <1>0, <1>3, <2>1, <2>2, EndsOf DEF AskerUnused
<1>6. HeldRests'
  BY <1>0, <1>1, <1>2, <1>3 DEF HeldRests
<1>7. MetBoth'
  <2> SUFFICES ASSUME NEW x \in AskerConns
               PROVE  /\ sock'[<<"thread", x>>] = "received" =>
                           sock'[<<"asker", x>>] = "sent" /\ <<"asker", x>> \notin held'
                      /\ sock'[<<"asker", x>>] # "received"
    BY DEF MetBoth
  <2>1. CASE x = c
    BY <1>0, <1>1, <1>2, <1>3, <2>1 DEF HeldRests
  <2>2. CASE x # c
    BY <1>0, <1>2, <1>3, <2>2, EndsOf DEF MetBoth
  <2> QED
    BY <2>1, <2>2
<1>8. HeldOnce'
  BY <1>0, <1>2 DEF HeldOnce
<1> QED
  BY <1>4, <1>5, <1>6, <1>7, <1>8 DEF HoleInv

LEMMA RestartHole ==
  ASSUME TypeInv, HoleInv, NEW d \in Devices, Restart(d) PROVE HoleInv'
<1> DEFINE mine == {e \in Ends : e[2] = Conn(d) \/ (d = Target /\ e[1] = "thread")}
<1>0. /\ FutureUnused /\ AskerUnused /\ HeldRests /\ MetBoth /\ HeldOnce
      /\ inc \in [Devices -> 1 .. MaxFaults + 1] /\ held \subseteq Ends
      /\ pc \in [Devices -> {"idle", "waiting", "punching", "done", "exited"}]
  BY DEF HoleInv, TypeInv, TypeOK
<1>1. /\ sock' = [e \in Ends |-> IF e \in mine THEN "none" ELSE sock[e]]
      /\ held' = held \ mine /\ inc' = [inc EXCEPT ![d] = inc[d] + 1]
      /\ pc' = [pc EXCEPT ![d] = "idle"] \/ pc' = [pc EXCEPT ![d] = "exited"]
  BY DEF Restart
<1>2. /\ \A e \in Ends : IF e \in mine THEN sock'[e] = "none" ELSE sock'[e] = sock[e]
      /\ inc[d] \in Int /\ inc'[d] = inc[d] + 1 /\ \A x \in Devices \ {d} : inc'[x] = inc[x]
      /\ \A x \in Devices \ {d} : pc'[x] = pc[x]
  BY <1>0, <1>1
<1>3. \A e \in Ends : e[2].n \in Int /\ e[2].of \in Devices /\ e[2].of # Target
  BY EndType DEF AskerConns, Conns
<1>4. FutureUnused'
  <2> SUFFICES ASSUME NEW e \in Ends, e[2].n > inc'[e[2].of] PROVE sock'[e] = "none"
    BY DEF FutureUnused
  <2>1. e[2].n > inc[e[2].of]
    BY <1>0, <1>2, <1>3, Constants
  <2> QED
    BY <1>0, <1>2, <2>1 DEF FutureUnused
<1>5. AskerUnused'
  <2> SUFFICES ASSUME NEW x \in Askers, pc'[x] \in {"idle", "waiting"}
               PROVE  sock'[<<"asker", Conn(x)'>>] = "none"
    BY DEF AskerUnused
  <2>1. x \in Devices /\ Conn(x)' \in AskerConns /\ <<"asker", Conn(x)'>> \in Ends
    BY RestartTypes, ConnType, EndsOf, Constants DEF Askers, Conn, Conns, AskerConns, TypeInv, TypeOK
  <2>2. CASE x = d
    <3>1. Conn(x)'.of = d /\ Conn(x)'.n > inc[d]
      BY <1>2, <2>2 DEF Conn
    <3> QED
      BY <1>0, <1>2, <2>1, <3>1 DEF FutureUnused
  <2>3. CASE x # d
    <3>1. Conn(x)' = Conn(x)
      BY <1>2, <2>1, <2>3 DEF Conn
    <3> QED
      BY <1>0, <1>2, <2>1, <2>3, <3>1 DEF AskerUnused
  <2> QED
    BY <2>2, <2>3
<1>6. HeldRests' /\ HeldOnce'
  BY <1>0, <1>1, <1>2 DEF HeldRests, HeldOnce
<1>7. MetBoth'
  <2> SUFFICES ASSUME NEW c \in AskerConns
               PROVE  /\ sock'[<<"thread", c>>] = "received" =>
                           sock'[<<"asker", c>>] = "sent" /\ <<"asker", c>> \notin held'
                      /\ sock'[<<"asker", c>>] # "received"
    BY DEF MetBoth
  <2>1. <<"asker", c>> \in Ends /\ <<"thread", c>> \in Ends
    BY EndsOf
  <2>2. sock'[<<"asker", c>>] # "received"
    BY <1>0, <1>2, <2>1 DEF MetBoth
  <2>3. ASSUME sock'[<<"thread", c>>] = "received"
        PROVE  sock'[<<"asker", c>>] = "sent" /\ <<"asker", c>> \notin held'
    <3>1. <<"thread", c>> \notin mine /\ sock[<<"thread", c>>] = "received"
      BY <1>2, <2>1, <2>3
    <3>2. <<"asker", c>> \notin mine
      BY <2>1, <3>1
    <3> QED
      BY <1>0, <1>1, <1>2, <2>1, <3>1, <3>2 DEF MetBoth
  <2> QED
    BY <2>2, <2>3
<1> QED
  BY <1>4, <1>5, <1>6, <1>7 DEF HoleInv

LEMMA HoleStep == TypeInv /\ HoleInv /\ [Next]_vars => HoleInv'
<1> SUFFICES ASSUME TypeInv, HoleInv, [Next]_vars PROVE HoleInv'
  OBVIOUS
<1>1. ASSUME NEW d \in Devices, Ask(d) PROVE HoleInv'
  <2>1. \A x \in Askers : pc'[x] \in {"idle", "waiting"} => pc[x] \in {"idle", "waiting"}
    BY <1>1, Constants DEF Ask, TypeInv, TypeOK
  <2> QED
    BY <1>1, <2>1, NoEndMoves DEF Ask, holeVars
<1>2. ASSUME NEW d \in Devices, Answered(d) \/ AnsweredPart(d) \/ Restart(d) PROVE HoleInv'
  <2>1. Restart(d) \/ \E m : AnswerRead(d, m)
    BY <1>2 DEF Answered, AnsweredPart
  <2> QED
    BY <2>1, AnswerReadHole, RestartHole
<1>3. ASSUME NEW c \in Conns,
             ServerReads(c) \/ ServerReadsPart(c) \/ ServerEof(c) \/ Break(c)
      PROVE  HoleInv'
  <2>1. UNCHANGED <<peerVars, holeVars>>
    BY <1>3 DEF ServerReads, ServerReadsPart, ServerTakes, ServerEof, Break
  <2> QED
    BY <2>1, NoEndMoves DEF peerVars, holeVars
<1>4. ASSUME TargetReads \/ TargetReadsPart PROVE HoleInv'
  <2>1. \E input, later : TargetTakes(input, later)
    BY <1>4 DEF TargetReads, TargetReadsPart
  <2> QED
    BY <2>1, TargetTakesHole
<1>5. ASSUME NEW e \in Ends, EndStep(e) \/ ListenerAccepts(e) PROVE HoleInv'
  BY <1>5, AttemptHole, FailsHole, ListenerAcceptsHole DEF EndStep
<1>6. ASSUME NEW c \in AskerConns, Meet(c) PROVE HoleInv'
  BY <1>6, MeetHole
<1>7. ASSUME UNCHANGED vars PROVE HoleInv'
  BY <1>7, NoEndMoves DEF vars, peerVars, holeVars
<1> QED
  BY <1>1, <1>2, <1>3, <1>4, <1>5, <1>6, <1>7 DEF Next, Step

(* Whatever the turns of the two connect_peer() and the listeners do, and  *)
(* whichever process is started again: an address pair carries at most one *)
(* connection, and none that a listener accepted once both ends have met.  *)
THEOREM OneConnectionHolds == Spec => []OneConnection
<1>1. Init => TypeInv /\ HoleInv
  BY InitTypes, InitHole
<1>2. TypeInv /\ HoleInv /\ [Next]_vars => TypeInv' /\ HoleInv'
  BY TypeStep, HoleStep
<1>3. TypeInv /\ HoleInv => OneConnection
  <2> SUFFICES ASSUME HoleInv, NEW c \in AskerConns
               PROVE  LET accepted == held \cap {<<"asker", c>>, <<"thread", c>>}
                      IN  IF sock[<<"thread", c>>] = "received" THEN accepted = {}
                          ELSE Cardinality(accepted) <= 1
    BY DEF OneConnection
  <2> DEFINE accepted == held \cap {<<"asker", c>>, <<"thread", c>>}
  <2>1. ASSUME sock[<<"thread", c>>] = "received" PROVE accepted = {}
    BY <2>1 DEF HoleInv, HeldRests, MetBoth
  <2>2. accepted = {} \/ \E e : accepted = {e}
    BY EndsOf DEF HoleInv, HeldOnce
  <2> HIDE DEF accepted
  <2>3. Cardinality(accepted) <= 1
    <3>1. Cardinality(accepted) = 0 \/ Cardinality(accepted) = 1
      BY <2>2, FS_EmptySet, FS_Singleton, Zenon
    <3> QED
      BY <3>1
  <2> QED
    BY <2>1, <2>3 DEF accepted
<1> QED
  BY <1>1, <1>2, <1>3, PTL DEF Spec
---------------------------------------------------------------------------
(* A step that neither reads nor sends on the way to the server. *)
LEMMA StaysCalm ==
  ASSUME CalmInv, UNCHANGED <<server, list, open, buf, broken, up, inc>>, trouble \subseteq trouble'
  PROVE  CalmInv'
<1>1. Calm' => Calm
  BY DEF Calm
<1> QED
  BY <1>1 DEF CalmInv, UpOrder, BufOrder, OneEntry

(* A step that leaves nothing calm. *)
LEMMA NotCalm ==
  ASSUME NEW d, NEW why, Fault(d, why), why \in {"restart", "split"} \/ <<d, why>> = <<Target, "broken">>
  PROVE  CalmInv'
<1> DEFINE t == <<d, why>>
<1>1. t \in trouble' /\ t[2] = why
  BY DEF Fault
<1>2. t[2] \in {"restart", "split"} \/ t = <<Target, "broken">>
  BY <1>1
<1> HIDE DEF t
<1> QED
  BY <1>1, <1>2 DEF CalmInv, Calm

LEMMA InitCalm == ASSUME Init PROVE CalmInv
<1>1. \A d \in Devices : Conn(d) = First(d) /\ First(d) \in Conns /\ First(d).of = d
  BY Constants DEF Init, Conn, First, Conns
<1>2. open = {First(d) : d \in Devices}
  BY <1>1 DEF Init
<1>3. UpOrder
  <2> SUFFICES ASSUME NEW c \in Conns, NEW i \in DOMAIN up[c]
               PROVE  /\ PingOf(c, up[c][i]) /\ i = 1 /\ buf[c] = <<>>
                      /\ \A k \in DOMAIN list : list[k].addr # c
    BY DEF UpOrder
  <2>1. up[c] = IF c \in open THEN <<Ping(c.of)>> ELSE <<>>
    BY DEF Init
  <2>2. c \in open /\ i = 1 /\ up[c][i] = Ping(c.of)
    BY <2>1
  <2>3. PingOf(c, Ping(c.of))
    BY <1>1, <1>2, <2>2 DEF PingOf, Ping, Msg
  <2> QED
    BY <2>2, <2>3 DEF Init
<1>4. BufOrder /\ OneEntry
  BY DEF Init, BufOrder, OneEntry
<1> QED
  BY <1>1, <1>2, <1>3, <1>4, Constants DEF Init, CalmInv

LEMMA BreakCalm ==
  ASSUME TypeInv, CalmInv, NEW c \in Conns, Break(c) PROVE CalmInv'
<1>1. CASE c.of = Target
  BY <1>1, NotCalm DEF Break
<1>2. CASE c.of # Target
  <2>1. /\ UNCHANGED <<server, list, open, buf, inc>> /\ broken' = broken \cup {c}
        /\ trouble \subseteq trouble'
        /\ up' = up \/ up' = [up EXCEPT ![c] = <<>>]
    BY DEF Break, Fault, serverVars, peerVars
  <2>2. c # First(Target)
    BY <1>2 DEF First
  <2>3. \A x \in Conns : up'[x] = up[x] \/ up'[x] = <<>>
    BY <2>1 DEF TypeInv, TypeOK
  <2>4. Calm' => Calm
    BY <2>1 DEF Calm
  <2>5. UpOrder => UpOrder'
    BY <2>1, <2>3 DEF UpOrder
  <2> QED
    BY <2>1, <2>2, <2>4, <2>5 DEF CalmInv, BufOrder, OneEntry
<1> QED
  BY <1>1, <1>2

LEMMA ServerEofCalm ==
  ASSUME TypeInv, CalmInv, NEW c \in Conns, ServerEof(c) PROVE CalmInv'
<1>1. /\ UNCHANGED <<server, list, broken, up, inc, trouble>> /\ open' = open \ {c}
      /\ buf' = [buf EXCEPT ![c] = <<>>] /\ c \in broken
  BY DEF ServerEof, NoFault, netVars, peerVars
<1>2. \A x \in Conns : buf'[x] = buf[x] \/ buf'[x] = <<>>
  BY <1>1 DEF TypeInv, TypeOK
<1>3. Calm' => Calm
  BY <1>1 DEF Calm
<1>4. UpOrder => UpOrder'
  BY <1>1, <1>2 DEF UpOrder
<1>5. BufOrder => BufOrder'
  BY <1>2 DEF BufOrder
<1> QED
  BY <1>1, <1>3, <1>4, <1>5 DEF CalmInv, OneEntry

LEMMA AskCalm ==
  ASSUME TypeInv, CalmInv, NEW d \in Devices, Ask(d) PROVE CalmInv'
<1> DEFINE query == Msg("QUERY", [sn |-> Target, addr |-> None])
           c == Conn(d)
<1>1. /\ UNCHANGED <<server, list, open, buf, broken, inc, trouble>>
      /\ up' = up \/ up' = [up EXCEPT ![c] = Append(up[c], query)]
  BY DEF Ask, SendTo, NoFault, serverVars
<1>2. QueryOf(query)
  BY DEF QueryOf, Msg
<1>3. CASE up' = up
  BY <1>1, <1>3, StaysCalm
<1>4. CASE up' = [up EXCEPT ![c] = Append(up[c], query)]
  <2> HIDE DEF query
  <2>1. c \in Conns /\ up \in [Conns -> Seq(Message)]
    BY ConnType DEF TypeInv, TypeOK
  <2>2. up'[c] = Append(up[c], query) /\ \A x \in Conns \ {c} : up'[x] = up[x]
    BY <1>4, <2>1
  <2>3. ASSUME NEW i \in DOMAIN up'[c]
        PROVE  QueryOf(up'[c][i]) \/ (i \in DOMAIN up[c] /\ up'[c][i] = up[c][i])
    <3>1. up[c] \in Seq(Message)
      BY <2>1
    <3>2. DOMAIN Append(up[c], query) = 1 .. Len(up[c]) + 1 /\ Len(up[c]) \in Nat
          /\ DOMAIN up[c] = 1 .. Len(up[c])
      BY <3>1
    <3>3. CASE i = Len(up[c]) + 1
      BY <1>2, <2>2, <3>1, <3>3
    <3>4. CASE i \in 1 .. Len(up[c])
      BY <2>2, <3>1, <3>2, <3>4
    <3> QED
      BY <2>2, <2>3, <3>2, <3>3, <3>4
  <2>4. UpOrder => UpOrder'
    <3> SUFFICES ASSUME UpOrder, NEW x \in Conns, NEW i \in DOMAIN up'[x]
                 PROVE  \/ QueryOf(up'[x][i])
                        \/ /\ PingOf(x, up'[x][i]) /\ i = 1 /\ buf'[x] = <<>>
                           /\ \A k \in DOMAIN list' : list'[k].addr # x
      BY DEF UpOrder
    <3>1. CASE x = c
      BY <1>1, <2>1, <2>3, <3>1 DEF UpOrder
    <3>2. CASE x # c
      BY <1>1, <2>2, <3>2 DEF UpOrder
    <3> QED
      BY <3>1, <3>2
  <2>5. Calm' => Calm
    BY <1>1 DEF Calm
  <2> QED
    BY <1>1, <2>4, <2>5 DEF CalmInv, BufOrder, OneEntry
<1> QED
  BY <1>1, <1>3, <1>4

LEMMA FirstAndRest ==
  ASSUME NEW s \in Seq(Message), s # <<>>
  PROVE  /\ Head(s) = s[1] /\ DOMAIN Tail(s) = 1 .. Len(s) - 1
         /\ \A i \in 1 .. Len(s) - 1 : Tail(s)[i] = s[i + 1]
<1>1. /\ Tail(s) \in Seq(Message) /\ Len(Tail(s)) = Len(s) - 1
      /\ \A i \in 1 .. Len(Tail(s)) : Tail(s)[i] = s[i + 1]
  BY HeadTailProperties
<1>2. DOMAIN Tail(s) = 1 .. Len(Tail(s))
  BY <1>1
<1>3. Head(s) = s[1]
  OBVIOUS
<1> QED
  BY <1>1, <1>2, <1>3

(* What the server reads, and what it leaves, while all is calm. *)
LEMMA CalmInput ==
  ASSUME TypeInv, UpOrder, BufOrder, NEW c \in Conns, NEW n \in 1 .. Len(up[c]),
         NEW input, input = buf[c] \o SubSeq(up[c], 1, n)
  PROVE  /\ \/ QueryOf(Head(input))
            \/ PingOf(c, Head(input)) /\ \A k \in DOMAIN list : list[k].addr # c
         /\ \A i \in DOMAIN Tail(input) : QueryOf(Tail(input)[i])
         /\ LET rest == SubSeq(up[c], n + 1, Len(up[c]))
            IN  \A i \in DOMAIN rest : QueryOf(rest[i])
<1> DEFINE b == buf[c]
           u == up[c]
           rest == SubSeq(u, n + 1, Len(u))
<1>1. b \in Seq(Message) /\ u \in Seq(Message) /\ Len(b) \in Nat /\ Len(u) \in Nat
  BY DEF TypeInv, TypeOK
<1>2. \A i \in 1 .. Len(b) : QueryOf(b[i])
  BY <1>1 DEF BufOrder
<1>3. \A i \in 1 .. Len(u) :
        \/ QueryOf(u[i])
        \/ PingOf(c, u[i]) /\ i = 1 /\ b = <<>> /\ \A k \in DOMAIN list : list[k].addr # c
  BY <1>1 DEF UpOrder
<1>4. /\ Len(input) = Len(b) + n /\ input \in Seq(Message) /\ input # <<>>
      /\ \A i \in 1 .. Len(b) : input[i] = b[i]
      /\ \A i \in Len(b) + 1 .. Len(b) + n : input[i] = u[i - Len(b)]
  <2>1. SubSeq(u, 1, n) \in Seq(Message) /\ Len(SubSeq(u, 1, n)) = n
        /\ \A i \in 1 .. n : SubSeq(u, 1, n)[i] = u[i]
    BY <1>1
  <2>2. input \in Seq(Message) /\ input # <<>>
    BY <1>1, Taking
  <2>3. /\ Len(input) = Len(b) + Len(SubSeq(u, 1, n))
        /\ \A i \in 1 .. Len(b) + Len(SubSeq(u, 1, n)) :
             input[i] = IF i <= Len(b) THEN b[i] ELSE SubSeq(u, 1, n)[i - Len(b)]
    BY <1>1, <2>1, ConcatProperties
  <2> HIDE DEF b, u
  <2>4. n \in Nat
    OBVIOUS
  <2>5. Len(input) = Len(b) + n
    BY <2>1, <2>3
  <2>6. \A i \in 1 .. Len(b) : input[i] = b[i]
    BY <1>1, <2>1, <2>3, <2>4
  <2>7. \A i \in Len(b) + 1 .. Len(b) + n : input[i] = u[i - Len(b)]
    BY <1>1, <2>1, <2>3, <2>4
  <2> QED
    BY <2>2, <2>5, <2>6, <2>7
<1>5. Head(input) = input[1] /\ DOMAIN Tail(input) = 1 .. Len(input) - 1
      /\ \A i \in 1 .. Len(input) - 1 : Tail(input)[i] = input[i + 1]
  BY ONLY <1>4, FirstAndRest, Zenon
<1>6. DOMAIN rest = 1 .. Len(u) - n /\ \A i \in 1 .. Len(u) - n : rest[i] = u[i + n]
  BY <1>1
<1> HIDE DEF b, u, rest
<1>7. \/ QueryOf(Head(input))
      \/ PingOf(c, Head(input)) /\ \A k \in DOMAIN list : list[k].addr # c
  <2>1. CASE Len(b) >= 1
    BY <1>1, <1>2, <1>4, <1>5, <2>1
  <2>2. CASE Len(b) = 0
    <3>1. input[1] = u[1] /\ 1 \in 1 .. Len(u)
      BY <1>4, <2>2 DEF u
    <3> QED
      BY <1>3, <1>5, <3>1
  <2> QED
    BY <1>1, <2>1, <2>2
<1>8. \A i \in DOMAIN Tail(input) : QueryOf(Tail(input)[i])
  <2>0. n \in Nat /\ Len(b) \in Nat
    BY <1>1
  <2>3. ASSUME \A i \in 2 .. Len(b) + n : QueryOf(input[i])
        PROVE  \A i \in DOMAIN Tail(input) : QueryOf(Tail(input)[i])
    <3>1. \A i \in 1 .. Len(input) - 1 : i + 1 \in 2 .. Len(b) + n
      BY <2>0, <1>4
    <3> QED
      BY ONLY <1>5, <2>3, <3>1
  <2> SUFFICES ASSUME NEW i \in 2 .. Len(b) + n PROVE QueryOf(input[i])
    BY <2>3
  <2>1. CASE i <= Len(b)
    BY <1>1, <1>2, <1>4, <2>1
  <2>2. CASE i > Len(b)
    <3>1. input[i] = u[i - Len(b)] /\ i - Len(b) \in 1 .. Len(u)
      BY <1>1, <1>4, <2>2 DEF u
    <3>2. b = <<>> => Len(b) = 0
      OBVIOUS
    <3>3. ~ (i - Len(b) = 1 /\ b = <<>>)
      BY <1>1, <3>2
    <3> QED
      BY <1>3, <3>1, <3>3
  <2>4. i <= Len(b) \/ i > Len(b)
    BY ONLY <2>0, i \in 2 .. Len(b) + n
  <2> QED
    BY <2>1, <2>2, <2>4
<1>9. \A i \in DOMAIN rest : QueryOf(rest[i])
  <2> SUFFICES ASSUME NEW i \in 1 .. Len(u) - n PROVE QueryOf(u[i + n])
    BY <1>6
  <2>1. i + n \in 1 .. Len(u) /\ i + n # 1
    BY <1>1
  <2> QED
    BY <1>3, <2>1
<1> QED
  BY <1>7, <1>8, <1>9 DEF rest, u

(* While every device has one entry, the search copies Target's whole. *)
LEMMA LookupFindsTarget ==
  ASSUME TypeInv, OneEntry, NEW src, NEW k \in DOMAIN list, list[k].sn = Target
  PROVE  Found(Target, src, Target) = list[k]
<1>0. DOMAIN list \subseteq Int
  BY DEF TypeInv, TypeOK
<1>1. MatchesOf({Target}) = {k}
  BY DEF MatchesOf, OneEntry
<1>2. k \in Met(src, Target)
  <2> DEFINE before == {l \in MatchesOf({src, Target}) : l < k}
  <2>1. before = {} \/ \E x : before = {x}
    <3> SUFFICES ASSUME NEW x \in before, NEW y \in before PROVE x = y
      OBVIOUS
    <3>1. /\ x \in DOMAIN list /\ y \in DOMAIN list /\ x # k /\ y # k
          /\ list[x].sn \in {src, Target} /\ list[y].sn \in {src, Target}
      BY <1>0 DEF MatchesOf
    <3>2. list[x].sn = src /\ list[y].sn = src
      BY <3>1 DEF OneEntry
    <3> QED
      BY <3>1, <3>2 DEF OneEntry
  <2>2. k \in MatchesOf({src, Target})
    BY DEF MatchesOf
  <2>3. Cardinality(before) < 2
    <3> HIDE DEF before
    <3>1. Cardinality(before) = 0 \/ Cardinality(before) = 1
      BY <2>1, FS_EmptySet, FS_Singleton, Zenon
    <3> QED
      BY <3>1
  <2> QED
    BY <2>2, <2>3 DEF Met
<1> DEFINE copied == Met(src, Target) \cap MatchesOf({Target})
           last   == {x \in copied : \A l \in copied : l <= x}
           pick(ks) == IF ks = {} THEN NoInfo ELSE list[CHOOSE x \in ks : TRUE]
<1>3. Found(Target, src, Target) = pick(last)
  BY DEF Found
<1>4. copied = {k}
  BY <1>1, <1>2
<1>5. last = {k}
  <2> HIDE DEF copied
  <2> QED
    BY <1>0, <1>4
<1> HIDE DEF last
<1>6. pick({k}) = list[k]
  OBVIOUS
<1> HIDE DEF pick
<1> QED
  BY <1>3, <1>5, <1>6

LEMMA PingCalm ==
  ASSUME TypeInv, OneEntry, NEW c \in Conns, NEW m, PingOf(c, m), PingArrives(c, m),
         \A k \in DOMAIN list : list[k].addr # c
  PROVE  /\ OneEntry' /\ UNCHANGED <<server, broken>>
         /\ \A x \in Conns \ {c} : (\A k \in DOMAIN list : list[k].addr # x) =>
                                    (\A k \in DOMAIN list' : list'[k].addr # x)
<1> DEFINE entry == [sn |-> m.info.sn, addr |-> c]
           Entry == [sn : Devices \cup {None}, addr : Conns]
<1>1. entry.sn = c.of /\ entry.addr = c /\ c = First(entry.sn) /\ entry \in Entry
  BY DEF PingOf, Conns
<1>2. list \in Seq(Entry) /\ list' = <<entry>> \o list /\ UNCHANGED <<server, broken>>
  BY DEF PingArrives, Registration, TypeInv, TypeOK
<1> HIDE DEF entry, Entry
<1>3. /\ DOMAIN list = 1 .. Len(list) /\ Len(list) \in Nat
      /\ DOMAIN list' = 1 .. Len(list) + 1 /\ list'[1] = entry
      /\ \A k \in 2 .. Len(list) + 1 : list'[k] = list[k - 1]
  BY <1>1, <1>2
<1>4. \A k \in DOMAIN list' : \/ k = 1 /\ list'[k] = entry
                              \/ k # 1 /\ k - 1 \in DOMAIN list /\ list'[k] = list[k - 1]
  BY <1>3
<1>5. \A k \in DOMAIN list : list[k].sn # c.of
  BY <1>1 DEF OneEntry
<1>6. \A k \in DOMAIN list' : list'[k].addr = First(list'[k].sn)
  BY <1>1, <1>4 DEF OneEntry
<1>7. ASSUME NEW k \in DOMAIN list', NEW l \in DOMAIN list', list'[k].sn = list'[l].sn
      PROVE  k = l
  <2>1. CASE k = 1
    BY <1>1, <1>4, <1>5, <1>7, <2>1
  <2>2. CASE l = 1
    BY <1>1, <1>4, <1>5, <1>7, <2>2
  <2>3. CASE k # 1 /\ l # 1
    <3>1. k - 1 = l - 1
      BY <1>4, <1>7, <2>3 DEF OneEntry
    <3>2. k \in Int /\ l \in Int
      BY <1>3
    <3> QED
      BY <3>1, <3>2
  <2> QED
    BY <2>1, <2>2, <2>3
<1>8. \A x \in Conns \ {c} : (\A k \in DOMAIN list : list[k].addr # x) =>
                              (\A k \in DOMAIN list' : list'[k].addr # x)
  BY <1>1, <1>4
<1> QED
  BY <1>2, <1>6, <1>7, <1>8 DEF OneEntry

LEMMA QueryCalm ==
  ASSUME TypeInv, OneEntry, First(Target) \in open, NEW c \in Conns, NEW m, QueryOf(m),
         QueryArrives(c, m), MatchesOf({Target}) # {}
  PROVE  UNCHANGED <<server, list, broken>>
<1>1. PICK k \in DOMAIN list : list[k].sn = Target
  BY DEF MatchesOf
<1>2. m.info.sn = Target
  BY DEF QueryOf
<1>3. Found(Target, c.of, Target).addr = First(Target)
  BY <1>1, LookupFindsTarget DEF OneEntry
<1> QED
  BY <1>2, <1>3 DEF QueryArrives

LEMMA ServerReadsCalm ==
  ASSUME TypeInv, CalmInv, NEW c \in Conns, ServerReads(c) PROVE CalmInv'
<1> SUFFICES ASSUME Calm' PROVE CalmInv'
  BY DEF CalmInv
<1>1. PICK n, input, left :
      /\ n \in 1 .. Len(up[c])
      /\ LET m     == Head(input)
             early == m.cmd = "QUERY" /\ MatchesOf({m.info.sn}) = {}
         IN  /\ input = buf[c] \o SubSeq(up[c], 1, n)
             /\ up' = [up EXCEPT ![c] = SubSeq(up[c], n + 1, Len(up[c]))]
             /\ left \in Left(input) /\ buf' = [buf EXCEPT ![c] = left]
             /\ \/ PingArrives(c, m) \/ QueryArrives(c, m)
                \/ m.cmd = "UNKNOWN" /\ UNCHANGED <<server, list, broken, down>>
             /\ trouble \subseteq trouble'
             /\ early => <<c.of, "early">> \in trouble'
             /\ UNCHANGED <<open, inc>>
  BY DEF ServerReads, ServerTakes, peerVars
<1> DEFINE m == Head(input)
<1>2. /\ Calm /\ \A d \in Devices : inc[d] = 1
      /\ server = "up" /\ First(Target) \in open \ broken
      /\ UpOrder /\ BufOrder /\ OneEntry
  BY <1>1 DEF CalmInv, Calm
<1>3. /\ \/ QueryOf(m)
         \/ PingOf(c, m) /\ \A k \in DOMAIN list : list[k].addr # c
      /\ \A i \in DOMAIN Tail(input) : QueryOf(Tail(input)[i])
      /\ LET rest == SubSeq(up[c], n + 1, Len(up[c]))
          IN  \A i \in DOMAIN rest : QueryOf(rest[i])
  BY <1>1, <1>2, CalmInput
<1>4. /\ up'[c] = SubSeq(up[c], n + 1, Len(up[c])) /\ buf'[c] = Tail(input)
      /\ \A x \in Conns \ {c} : up'[x] = up[x] /\ buf'[x] = buf[x]
  <2>1. m # Remainder
    BY <1>3 DEF QueryOf, PingOf, Remainder, Msg
  <2>2. left = Tail(input)
    BY <1>1, <2>1 DEF Left
  <2> QED
    BY <1>1, <2>2 DEF TypeInv, TypeOK
<1>5. /\ OneEntry' /\ UNCHANGED <<server, broken>>
      /\ \A x \in Conns \ {c} : (\A k \in DOMAIN list : list[k].addr # x) =>
                                 (\A k \in DOMAIN list' : list'[k].addr # x)
  <2> HIDE DEF m
  <2>1. CASE QueryOf(m)
    <3>1. QueryArrives(c, m)
      BY <1>1, <2>1 DEF m, QueryOf, PingArrives
    <3>2. MatchesOf({Target}) # {}
      <4>1. SUFFICES ASSUME MatchesOf({Target}) = {} PROVE FALSE
        OBVIOUS
      <4> DEFINE t == <<c.of, "early">>
      <4>2. t \in trouble' /\ t[2] = "early"
        BY <1>1, <2>1, <4>1 DEF m, QueryOf
      <4> HIDE DEF t
      <4> QED
        BY <4>2 DEF Calm
    <3>3. UNCHANGED <<server, list, broken>>
      BY <1>2, <2>1, <3>1, <3>2, QueryCalm
    <3> QED
      BY <1>2, <3>3 DEF OneEntry
  <2>2. CASE PingOf(c, m) /\ \A k \in DOMAIN list : list[k].addr # c
    <3>1. PingArrives(c, m)
      BY <1>1, <2>2 DEF m, PingOf, QueryArrives
    <3> QED
      BY <1>2, <2>2, <3>1, PingCalm
  <2> QED
    BY <1>3, <2>1, <2>2 DEF m
<1>6. UpOrder'
  <2> SUFFICES ASSUME NEW x \in Conns, NEW i \in DOMAIN up'[x]
               PROVE  \/ QueryOf(up'[x][i])
                      \/ /\ PingOf(x, up'[x][i]) /\ i = 1 /\ buf'[x] = <<>>
                         /\ \A k \in DOMAIN list' : list'[k].addr # x
    BY DEF UpOrder
  <2>1. CASE x = c
    BY <1>3, <1>4, <2>1
  <2>2. CASE x # c
    BY <1>2, <1>4, <1>5, <2>2 DEF UpOrder
  <2> QED
    BY <2>1, <2>2
<1>7. BufOrder'
  BY <1>2, <1>3, <1>4 DEF BufOrder
<1> QED
  BY <1>1, <1>2, <1>5, <1>6, <1>7 DEF CalmInv

LEMMA CalmStep == TypeInv /\ CalmInv /\ [Next]_vars => CalmInv'
<1> SUFFICES ASSUME TypeInv, CalmInv, [Next]_vars PROVE CalmInv'
  OBVIOUS
<1>1. ASSUME NEW d \in Devices, Ask(d) PROVE CalmInv'
  BY <1>1, AskCalm
<1>2. ASSUME NEW d \in Devices, Answered(d) PROVE CalmInv'
  BY <1>2, StaysCalm DEF Answered, AnswerRead, NoFault, serverVars
<1>3. ASSUME NEW d \in Devices, Restart(d) PROVE CalmInv'
  BY <1>3, NotCalm DEF Restart
<1>4. ASSUME NEW c \in Conns, ServerReads(c) \/ ServerEof(c) \/ Break(c) PROVE CalmInv'
  BY <1>4, ServerReadsCalm, ServerEofCalm, BreakCalm
<1>5. ASSUME \/ \E c \in Conns : ServerReadsPart(c)
             \/ \E d \in Devices : AnsweredPart(d)
             \/ TargetReadsPart
      PROVE  CalmInv'
  <2>1. \E d : Fault(d, "split")
    BY <1>5 DEF ServerReadsPart, AnsweredPart, TargetReadsPart
  <2> QED
    BY <2>1, NotCalm
<1>6. ASSUME TargetReads PROVE CalmInv'
  <2>1. UNCHANGED <<server, list, open, buf, broken, up, inc>> /\ trouble \subseteq trouble'
    BY <1>6 DEF TargetReads, TargetTakes, serverVars
  <2> QED
    BY <2>1, StaysCalm
<1>7. ASSUME NEW e \in Ends, EndStep(e) \/ ListenerAccepts(e) PROVE CalmInv'
  BY <1>7, StaysCalm
  DEF EndStep, Attempt, Fails, NextTurn, ListenerAccepts, NoFault, serverVars, netVars, peerVars
<1>8. ASSUME NEW c \in AskerConns, Meet(c) PROVE CalmInv'
  BY <1>8, StaysCalm DEF Meet, NoFault, serverVars, netVars
<1>9. ASSUME UNCHANGED vars PROVE CalmInv'
  BY <1>9, StaysCalm DEF vars, serverVars, netVars, peerVars
<1> QED
  BY <1>1, <1>2, <1>3, <1>4, <1>5, <1>6, <1>7, <1>8, <1>9 DEF Next, Step

(* In whatever order any number of askers ping, query and lose their        *)
(* connections, the server does not abort: it takes a query for a device   *)
(* not yet registered, a restart, a message in pieces, or a broken         *)
(* connection of Target.                                                   *)
THEOREM ServerSurvival == Spec => []ServerSurvives
<1>1. Init => TypeInv /\ CalmInv
  BY InitTypes, InitCalm
<1>2. TypeInv /\ CalmInv /\ [Next]_vars => TypeInv' /\ CalmInv'
  BY TypeStep, CalmStep
<1>3. CalmInv => ServerSurvives
  BY DEF CalmInv, Calm, ServerSurvives
<1> QED
  BY <1>1, <1>2, <1>3, PTL DEF Spec
===========================================================================
