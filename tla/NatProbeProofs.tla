-------------------------- MODULE NatProbeProofs --------------------------
(***************************************************************************)
(* What the probe promises, for every number of IPs the server's table     *)
(* holds, every order of resolving them and every fault of the network.    *)
(***************************************************************************)
EXTENDS NatProbe, FiniteSetTheorems, TLAPS

(* The questions answered from a socket the client never sends to, and the *)
(* networks such an answer gets through.                                   *)
OtherPort == {"FULL_CONE_NAT", "RESTRICTED_CONE_NAT"}
Open == {"PUBLIC_NETWORK", "FULL_CONE_NAT", "RESTRICTED_CONE_NAT"}

(* Datagrams carry ids already in use, and the server saw the address the  *)
(* router gives the client towards it.                                     *)
Flight == /\ \A q \in requests : q.msgid <= msgid /\ q.from = Mapped(q.dst)
          /\ \A r \in replies : r.msgid <= msgid

(* While an id is in use, what carries it belongs to the question and the  *)
(* IP it was made for.                                                     *)
InUse == pc = "recv" \/ (pc = "send" /\ retry < NP_RETRY_SEND_NUM)
Current ==
  InUse =>
    /\ \A q \in requests : q.msgid = msgid => q.type = Type /\ q.dst = ipAddr[i]
    /\ \A r \in replies : r.msgid = msgid =>
         /\ r.addr = Mapped(ipAddr[i])
         /\ Type \in OtherPort => r.src.port # NP_SERVER_PORT

Control ==
  /\ pc = "start" => i = 1 /\ j = 0 /\ retry = NP_RETRY_SEND_NUM
  /\ pc \in {"send", "recv"} => ipAddr \in Orders
  /\ pc = "send" => retry >= 1
  /\ pc = "recv" => retry < NP_RETRY_SEND_NUM
  /\ InUse => i <= N /\ j < Need
  /\ j <= Need
  /\ pc # "done" => networkType = NP_UNKNOWN

(* The answers counted so far came from different IPs, in the order they   *)
(* were asked, and one that left from the other port came through an open  *)
(* network.                                                                *)
Answers ==
  /\ j >= 1 => /\ ipAddr \in Orders
               /\ \E a \in 1 .. i - 1 : recv[1] = Mapped(ipAddr[a])
  /\ j = 2 => \E a, b \in 1 .. i - 1 : /\ a < b
                                       /\ recv[1] = Mapped(ipAddr[a])
                                       /\ recv[2] = Mapped(ipAddr[b])
  /\ (Type \in OtherPort /\ j >= 1) => nat \in Open

IInv == TypeOK /\ Flight /\ Current /\ Control /\ Answers /\ VerdictIsReal
---------------------------------------------------------------------------
LEMMA CountOfIps == N \in 2 .. 5
BY IpsAssumption DEF N, NP_PUBLIC_IP_NUM

LEMMA OrderLen == ASSUME NEW s \in Orders
                  PROVE  Len(s) = N /\ s \in [1 .. N -> Ips]
BY CountOfIps DEF Orders

LEMMA PhaseTypes == ASSUME TypeOK
                    PROVE  /\ Len(Phases) = 5 /\ Type \in NetworkTypes /\ Need \in 1 .. 2
                           /\ Type = Phases[phase]
BY DEF TypeOK, Phases, Type, NetworkTypes, Need

LEMMA MappedType == ASSUME NEW d \in Ips PROVE Mapped(d) \in Addresses
BY DEF Mapped, Addresses, NoAddr

(* An answer leaves from the address of a bound entry, and the answer to a *)
(* full or a restricted cone question from the port beside the one asked.  *)
LEMMA ReplySource ==
  ASSUME TypeOK, Up, NEW type \in NetworkTypes, NEW k \in 0 .. 2 * N - 1,
         Listens(k), process(type, k) # NoSock
  PROVE  LET src == SourceOf(process(type, k))
         IN  /\ \E m \in bound : src = [ip |-> Addr(m).ip, port |-> Addr(m).port]
             /\ src \in [ip : Ips \cup {NoIp}, port : 0 .. 2]
             /\ type \in OtherPort => src.port # NP_SERVER_PORT
<1>1. N \in 2 .. 5 /\ k \in Nat /\ k < 2 * N /\ k \in bound
  BY CountOfIps DEF Listens
<1>2. k % 2 = 0
  BY <1>1 DEF Listens, Addr, NP_SERVER_PORT
<1>3. \A m \in 0 .. 4 * N - 1 : Addr(m).sock # NoSock => m \in bound /\ Addr(m).sock = m + 1
  BY <1>1 DEF Addr, NoSock, Fd
<1>4. PICK m \in {k, k + 1, k + 3} :
        /\ process(type, k) = Addr(m).sock
        /\ type \in OtherPort => m # k
  <2>1. (k + 1 + NP_PUBLIC_IP_NUM) % Size = k + 3
    BY <1>1 DEF NP_PUBLIC_IP_NUM, Size
  <2>2. CASE type = "FULL_CONE_NAT"
    BY <2>1, <2>2, <1>1 DEF process, process_full_cone_nat
  <2>3. CASE type = "RESTRICTED_CONE_NAT"
    BY <2>3, <1>1 DEF process, process_restricted_cone_nat
  <2>4. CASE type \notin OtherPort
    BY <2>4, <1>1 DEF process, OtherPort
  <2> QED BY <2>2, <2>3, <2>4 DEF OtherPort
<1>5. m \in 0 .. 4 * N - 1
  BY <1>1, <1>2, <1>4
<1>6. m \in bound /\ process(type, k) = m + 1
  BY <1>3, <1>4, <1>5
<1>7. SourceOf(process(type, k)) = [ip |-> Addr(m).ip, port |-> Addr(m).port]
  BY <1>1, <1>5, <1>6 DEF SourceOf
<1>8. m \in 0 .. 2 * N - 1
  BY <1>6 DEF TypeOK
<1>9. Addr(m).ip \in Ips
  <2>1. serverIps \in [1 .. N -> Ips]
    BY OrderLen DEF TypeOK, Up
  <2>2. (m \div 2) + 1 \in 1 .. N
    BY <1>8, <1>1
  <2> QED BY <2>1, <2>2, <1>8, <1>1 DEF Addr
<1>10. Addr(m).port = 1 + (m % 2) /\ m % 2 \in 0 .. 1
  BY <1>5, <1>8, <1>1 DEF Addr, NP_SERVER_PORT
<1>11. type \in OtherPort => m % 2 = 1
  BY <1>4, <1>2, <1>1
<1> QED BY <1>6, <1>7, <1>9, <1>10, <1>11 DEF NP_SERVER_PORT
---------------------------------------------------------------------------
LEMMA InitIInv == Init => IInv
<1> SUFFICES ASSUME Init PROVE IInv
  OBVIOUS
<1>1. TypeOK
  <2>1. /\ serverIps \in Orders \cup {<<>>} /\ bound \subseteq 0 .. 2 * N - 1
        /\ starts \in 0 .. MaxStarts /\ requests \subseteq Request /\ replies \subseteq Reply
    BY BoundsAssumption DEF Init, ServerInit
  <2>2. recv \in [1 .. 2 -> Addresses]
    BY DEF Init, Addresses
  <2>3. phase \in 1 .. Len(Phases) /\ i \in 1 .. N + 1 /\ j \in 0 .. 2
        /\ retry \in 0 .. NP_RETRY_SEND_NUM /\ msgid \in Nat
    BY CountOfIps DEF Init, Phases, NP_RETRY_SEND_NUM
  <2>4. /\ nat \in NetworkTypes /\ contacted \subseteq Ips
        /\ pc \in {"start", "send", "recv", "done"} /\ ipAddr \in Orders \cup {<<>>}
        /\ networkType \in NetworkTypes \cup {NP_UNKNOWN} /\ disturbed \in BOOLEAN
    BY DEF Init
  <2> QED BY <2>1, <2>2, <2>3, <2>4 DEF TypeOK
<1>2. Type = "PUBLIC_NETWORK"
  BY DEF Init, Type, Phases
<1> QED
  BY <1>1, <1>2 DEF Init, ServerInit, IInv, Flight, Current, InUse, Control, Need, Answers,
     VerdictIsReal, OtherPort, NP_UNKNOWN, NP_RETRY_SEND_NUM

(* What a step of the server can disturb: its own state and the replies.   *)
LEMMA ServerStepKeeps ==
  ASSUME IInv, ServerStarts \/ ServerExits \/ ServerReads
  PROVE  IInv'
<1>1. UNCHANGED <<requests, nat, contacted, clientVars>>
  BY DEF ServerStarts, ServerExits, ServerReads, CreateSocket, Exit, ReadCallback
<1>2. /\ Type' = Type /\ Need' = Need /\ InUse' = InUse /\ msgid' = msgid
      /\ \A d \in Ips : Mapped(d)' = Mapped(d)
  BY <1>1 DEF clientVars, loopVars, Type, Need, InUse, Mapped
<1>3. \A r \in replies' \ replies :
        /\ r \in Reply /\ r.msgid <= msgid
        /\ InUse /\ r.msgid = msgid =>
             /\ r.addr = Mapped(ipAddr[i])
             /\ Type \in OtherPort => r.src.port # NP_SERVER_PORT
  <2>1. CASE ServerStarts \/ ServerExits
    BY <2>1 DEF ServerStarts, ServerExits, CreateSocket, Exit
  <2>2. CASE ServerReads
    <3>1. PICK req \in requests, k \in 0 .. 2 * N - 1 :
            /\ Listens(k) /\ process(req.type, k) # NoSock
            /\ replies' = replies \cup {ReplyTo(req, process(req.type, k))}
      BY <2>2 DEF ServerReads, ReadCallback
    <3>2. req \in Request /\ req.msgid <= msgid
      BY DEF IInv, TypeOK, Flight
    <3>3. req.type \in NetworkTypes /\ req.from \in Addresses /\ req.msgid \in Nat
      BY <3>2 DEF Request
    <3>4. LET src == SourceOf(process(req.type, k))
          IN  /\ src \in [ip : Ips \cup {NoIp}, port : 0 .. 2]
              /\ req.type \in OtherPort => src.port # NP_SERVER_PORT
      BY <2>2, <3>1, <3>3, ReplySource DEF IInv, ServerReads, ReadCallback
    <3>5. InUse /\ req.msgid = msgid => req.type = Type /\ req.from = Mapped(ipAddr[i])
      BY DEF IInv, Flight, Current
    <3> DEFINE r == ReplyTo(req, process(req.type, k))
    <3>6. r \in Reply
      BY <3>3, <3>4 DEF Reply, ReplyTo
    <3> QED BY <3>1, <3>2, <3>4, <3>5, <3>6 DEF ReplyTo
  <2> QED BY <2>1, <2>2
<1>4. TypeOK'
  <2>1. serverIps' \in Orders \cup {<<>>} /\ bound' \subseteq 0 .. 2 * N - 1
        /\ starts' \in 0 .. MaxStarts
    <3>1. CASE ServerStarts
      BY <3>1, BoundsAssumption DEF ServerStarts, CreateSocket, IInv, TypeOK
    <3>2. CASE ServerExits
      BY <3>2 DEF ServerExits, Exit, IInv, TypeOK
    <3>3. CASE ServerReads
      BY <3>3 DEF ServerReads, ReadCallback, IInv, TypeOK
    <3> QED BY <3>1, <3>2, <3>3
  <2>2. disturbed' \in BOOLEAN
    BY DEF ServerStarts, ServerExits, ServerReads, IInv, TypeOK
  <2>3. replies' \subseteq Reply
    BY <1>3 DEF IInv, TypeOK
  <2> QED BY <1>1, <2>1, <2>2, <2>3 DEF IInv, TypeOK, clientVars, loopVars
<1>5. Flight'
  <2>1. \A q \in requests' : q.msgid <= msgid' /\ q.from = Mapped(q.dst)'
    BY <1>1, <1>2 DEF IInv, Flight, TypeOK, Request
  <2>2. \A r \in replies' : r.msgid <= msgid'
    BY <1>2, <1>3 DEF IInv, Flight
  <2> QED BY <2>1, <2>2 DEF Flight
<1>6. Current'
  BY <1>1, <1>2, <1>3 DEF IInv, Current, clientVars, loopVars, Mapped
<1>7. Control' /\ Answers' /\ VerdictIsReal'
  BY <1>1, <1>2 DEF IInv, Control, Answers, VerdictIsReal, clientVars, loopVars, Mapped
<1> QED BY <1>4, <1>5, <1>6, <1>7 DEF IInv
---------------------------------------------------------------------------
LEMMA ResolveKeeps == ASSUME IInv, ResolveServer \/ ResolveFails PROVE IInv'
<1>1. UNCHANGED <<serverVars, nat, contacted, loopVars, msgid, recv, networkType>>
  BY DEF ResolveServer, ResolveFails
<1>2. pc = "start" /\ i = 1 /\ j = 0 /\ retry = NP_RETRY_SEND_NUM /\ networkType = NP_UNKNOWN
  BY DEF ResolveServer, ResolveFails, IInv, Control
<1>3. ipAddr' \in Orders \cup {<<>>} /\ pc' \in {"send", "done"} /\ disturbed' \in BOOLEAN
      /\ (pc' = "send" => ipAddr' \in Orders)
  BY DEF ResolveServer, ResolveFails, IInv, TypeOK
<1>4. TypeOK'
  BY <1>1, <1>3 DEF IInv, TypeOK, loopVars, serverVars
<1>5. Flight'
  BY <1>1 DEF IInv, Flight, serverVars, Mapped
<1>6. Need' = Need /\ Need \in 1 .. 2
  BY <1>1, PhaseTypes DEF IInv, Need, Type, loopVars
<1>7. Current' /\ Control' /\ Answers' /\ VerdictIsReal'
  BY <1>1, <1>2, <1>3, <1>6, CountOfIps
  DEF Current, InUse, Control, Answers, VerdictIsReal, loopVars, NP_RETRY_SEND_NUM, NP_UNKNOWN
<1> QED BY <1>4, <1>5, <1>7 DEF IInv

LEMMA AskingFacts ==
  ASSUME IInv, Asking
  PROVE  /\ ipAddr \in Orders /\ Len(ipAddr) = N /\ i \in 1 .. N /\ ipAddr[i] \in Ips
         /\ j < Need /\ retry \in 1 .. 2 /\ networkType = NP_UNKNOWN
         /\ MsgidToUse \in Nat
         /\ \/ retry = 2 /\ MsgidToUse = msgid + 1
            \/ retry = 1 /\ MsgidToUse = msgid /\ InUse
<1>1. ipAddr \in Orders /\ retry >= 1 /\ networkType = NP_UNKNOWN
  BY DEF IInv, Asking, Control
<1>2. Len(ipAddr) = N /\ ipAddr \in [1 .. N -> Ips]
  BY <1>1, OrderLen
<1>3. i \in 1 .. N
  BY <1>2, CountOfIps DEF Asking, IInv, TypeOK
<1> QED BY <1>1, <1>2, <1>3 DEF Asking, IInv, TypeOK, MsgidToUse, InUse, NP_RETRY_SEND_NUM

LEMMA SendKeeps == ASSUME IInv, SendMsg PROVE IInv'
<1>1. Asking /\ msgid' = MsgidToUse /\ retry' = retry - 1 /\ pc' = "recv"
      /\ requests' = Recent(requests, MsgidToUse) \cup
                       {[msgid |-> MsgidToUse, type |-> Type, dst |-> ipAddr[i],
                         from |-> Mapped(ipAddr[i])]}
      /\ replies' \subseteq replies /\ contacted' = contacted \cup {ipAddr[i]}
      /\ UNCHANGED <<serverIps, bound, starts, nat, ipAddr, phase, i, j, recv, networkType,
                     disturbed>>
  BY DEF SendMsg, Recent
<1> DEFINE new == [msgid |-> MsgidToUse, type |-> Type, dst |-> ipAddr[i],
                   from |-> Mapped(ipAddr[i])]
<1>2. requests' \subseteq requests \cup {new}
  BY <1>1 DEF Recent
<1> HIDE DEF new
<1>3. /\ ipAddr \in Orders /\ i \in 1 .. N /\ ipAddr[i] \in Ips
      /\ j < Need /\ retry \in 1 .. 2 /\ networkType = NP_UNKNOWN /\ MsgidToUse \in Nat
      /\ \/ retry = 2 /\ MsgidToUse = msgid + 1
         \/ retry = 1 /\ MsgidToUse = msgid /\ InUse
  BY <1>1, AskingFacts
<1>4. /\ Type' = Type /\ Need' = Need /\ Type \in NetworkTypes
      /\ \A d \in Ips : Mapped(d)' = Mapped(d)
  BY <1>1, PhaseTypes DEF IInv, Type, Need, Mapped
<1>5. new \in Request /\ new.msgid = msgid' /\ new.type = Type /\ new.dst = ipAddr[i]
      /\ new.from = Mapped(new.dst)
  BY <1>1, <1>3, <1>4, MappedType DEF new, Request
<1>6. TypeOK'
  <2>1. requests' \subseteq Request /\ replies' \subseteq Reply
    BY <1>1, <1>2, <1>5 DEF IInv, TypeOK
  <2>2. contacted' \subseteq Ips /\ retry' \in 0 .. NP_RETRY_SEND_NUM /\ msgid' \in Nat
    BY <1>1, <1>3 DEF IInv, TypeOK, NP_RETRY_SEND_NUM
  <2> QED BY <1>1, <2>1, <2>2 DEF IInv, TypeOK
<1>7. Flight'
  <2>1. ASSUME NEW q \in requests' PROVE q.msgid <= msgid' /\ q.from = Mapped(q.dst)'
    <3>1. CASE q = new
      BY <3>1, <1>1, <1>3, <1>4, <1>5
    <3>2. CASE q \in requests
      BY <3>2, <1>1, <1>3, <1>4 DEF IInv, Flight, TypeOK, Request
    <3> QED BY <3>1, <3>2, <1>2
  <2>2. ASSUME NEW r \in replies' PROVE r.msgid <= msgid'
    BY <1>1, <1>3 DEF IInv, Flight, TypeOK, Reply
  <2> QED BY <2>1, <2>2 DEF Flight
<1>8. Current'
  <2>1. ASSUME NEW q \in requests', q.msgid = msgid' PROVE q.type = Type /\ q.dst = ipAddr[i]
    <3>1. CASE q = new
      BY <3>1, <1>5
    <3>2. CASE q \in requests
      BY <2>1, <3>2, <1>1, <1>3 DEF IInv, Flight, Current, TypeOK, Request
    <3> QED BY <3>1, <3>2, <1>2
  <2>2. ASSUME NEW r \in replies', r.msgid = msgid'
        PROVE  /\ r.addr = Mapped(ipAddr[i])
               /\ Type \in OtherPort => r.src.port # NP_SERVER_PORT
    BY <2>2, <1>1, <1>3 DEF IInv, Flight, Current, TypeOK, Reply
  <2> QED BY <2>1, <2>2, <1>1, <1>3, <1>4 DEF Current
<1>9. Control' /\ Answers' /\ VerdictIsReal'
  <2>1. Control'
    BY <1>1, <1>3, <1>4, PhaseTypes DEF IInv, TypeOK, Control, InUse, NP_RETRY_SEND_NUM
  <2>2. Answers'
    BY <1>1, <1>4 DEF IInv, Answers, Mapped
  <2>3. VerdictIsReal'
    BY <1>1 DEF IInv, VerdictIsReal
  <2> QED BY <2>1, <2>2, <2>3
<1> QED BY <1>6, <1>7, <1>8, <1>9 DEF IInv

(* An attempt that ends without its answer, or is never made.              *)
LEMMA FailedAttemptKeeps ==
  ASSUME IInv, SendMsgFails \/ RecvStale \/ RecvTimeout
  PROVE  IInv'
<1>1. /\ UNCHANGED <<serverVars, nat, contacted, ipAddr, phase, j, networkType>>
      /\ pc' = "send"
      /\ \/ NextIp
         \/ pc = "recv" /\ retry > 0 /\ UNCHANGED <<i, retry, msgid>>
  BY DEF SendMsgFails, RecvStale, RecvTimeout, AttemptFailed, Asking, Delivers
<1>2. /\ ipAddr \in Orders /\ i \in 1 .. N /\ j < Need /\ networkType = NP_UNKNOWN
      /\ msgid' \in Nat /\ msgid' >= msgid
  <2>1. CASE SendMsgFails
    <3>1. Asking /\ msgid' = MsgidToUse
      BY <2>1 DEF SendMsgFails
    <3> QED BY <3>1, AskingFacts DEF IInv, TypeOK
  <2>2. CASE RecvStale \/ RecvTimeout
    <3>1. pc = "recv" /\ msgid' = msgid
      BY <2>2 DEF RecvStale, RecvTimeout, Delivers, AttemptFailed
    <3> QED BY <3>1 DEF IInv, Control, InUse, TypeOK
  <2> QED BY <2>1, <2>2
<1>3. recv' \in [1 .. 2 -> Addresses] /\ \A k \in 1 .. j : recv'[k] = recv[k]
  <2>1. CASE RecvStale
    <3>1. PICK r \in replies : recv' = [recv EXCEPT ![j + 1] = r.addr]
      BY <2>1 DEF RecvStale
    <3>2. r.addr \in Addresses
      BY DEF IInv, TypeOK, Reply
    <3>3. j + 1 \in 1 .. 2
      BY <1>2, PhaseTypes DEF IInv, TypeOK
    <3> QED BY <3>1, <3>2, <3>3 DEF IInv, TypeOK
  <2>2. CASE SendMsgFails \/ RecvTimeout
    BY <2>2 DEF SendMsgFails, RecvTimeout, IInv, TypeOK
  <2> QED BY <2>1, <2>2
<1>4. disturbed' \in BOOLEAN
  BY DEF SendMsgFails, RecvStale, RecvTimeout, IInv, TypeOK
<1>5. i' \in 1 .. N + 1 /\ i' >= i /\ retry' \in 1 .. 2
  BY <1>1, <1>2, CountOfIps DEF NextIp, NP_RETRY_SEND_NUM, IInv, TypeOK
<1>6. Type' = Type /\ Need' = Need /\ \A d \in Ips : Mapped(d)' = Mapped(d)
  BY <1>1 DEF Type, Need, Mapped
<1>7. InUse' => pc = "recv" /\ UNCHANGED <<i, msgid>> /\ InUse
  BY <1>1 DEF InUse, NextIp, NP_RETRY_SEND_NUM
<1>8. TypeOK'
  BY <1>1, <1>2, <1>3, <1>4, <1>5 DEF IInv, TypeOK, serverVars, NP_RETRY_SEND_NUM
<1>9. Flight'
  <2>1. \A q \in requests : q.msgid \in Nat /\ q.dst \in Ips
    BY DEF IInv, TypeOK, Request
  <2>2. \A r \in replies : r.msgid \in Nat
    BY DEF IInv, TypeOK, Reply
  <2> QED BY <1>1, <1>2, <1>6, <2>1, <2>2 DEF IInv, Flight, TypeOK, serverVars
<1>10. Current'
  BY <1>1, <1>6, <1>7 DEF IInv, Current, serverVars, Mapped
<1>11. Control'
  BY <1>1, <1>2, <1>5, <1>6, <1>7 DEF IInv, Control, InUse, NP_RETRY_SEND_NUM
<1>12. Answers' /\ VerdictIsReal'
  <2>1. \A a \in 1 .. i - 1 : a \in 1 .. i' - 1 /\ Mapped(ipAddr[a])' = Mapped(ipAddr[a])
    <3>1. \A a \in 1 .. i - 1 : a \in 1 .. i' - 1
      <4>1. i \in Int /\ i' \in Int
        BY <1>2, <1>5, CountOfIps
      <4>2. i' >= i
        BY <1>5
      <4>3. \A m, n \in Int : n >= m => \A a \in 1 .. m - 1 : a \in 1 .. n - 1
        OBVIOUS
      <4> QED BY <4>1, <4>2, <4>3
    <3>2. nat' = nat /\ ipAddr' = ipAddr
      BY <1>1
    <3> QED BY <3>1, <3>2 DEF Mapped
  <2>2. Answers'
    BY <1>1, <1>3, <1>6, <2>1 DEF IInv, Answers, TypeOK
  <2>3. VerdictIsReal'
    BY <1>1 DEF IInv, VerdictIsReal
  <2> QED BY <2>2, <2>3
<1> QED BY <1>8, <1>9, <1>10, <1>11, <1>12 DEF IInv

(* An answer counted for a question about the other port came through an   *)
(* open network.                                                           *)
LEMMA AnswerKeeps == ASSUME IInv, RecvAnswer PROVE IInv'
<1>1. /\ UNCHANGED <<serverVars, nat, contacted, ipAddr, phase, msgid, networkType, disturbed>>
      /\ pc = "recv" /\ pc' = "send" /\ j' = j + 1 /\ i' = i + 1 /\ retry' = 2
  BY DEF RecvAnswer, NextIp, Delivers, NP_RETRY_SEND_NUM
<1>2. PICK r \in replies : /\ LetsIn(r.src, r.addr) /\ r.msgid = msgid
                           /\ recv' = [recv EXCEPT ![j + 1] = r.addr]
  BY DEF RecvAnswer, Delivers, IsTheAnswer
<1>3. /\ InUse /\ ipAddr \in Orders /\ i \in 1 .. N /\ j < Need /\ networkType = NP_UNKNOWN
      /\ j \in 0 .. 1
  BY <1>1, PhaseTypes DEF IInv, Control, InUse, TypeOK
<1>4. /\ r.addr = Mapped(ipAddr[i]) /\ r.addr \in Addresses
      /\ Type \in OtherPort => r.src.port # NP_SERVER_PORT
  BY <1>2, <1>3 DEF IInv, Current, TypeOK, Reply
<1>5. Type \in OtherPort => nat \in Open
  BY <1>2, <1>4 DEF LetsIn, IInv, TypeOK, NetworkTypes, Open
<1>6. Type' = Type /\ Need' = Need /\ ~ InUse'
  BY <1>1 DEF Type, Need, InUse, NP_RETRY_SEND_NUM
<1>7. /\ recv' \in [1 .. 2 -> Addresses] /\ recv'[j + 1] = Mapped(ipAddr[i])
      /\ \A k \in 1 .. j : recv'[k] = recv[k]
  BY <1>2, <1>3, <1>4 DEF IInv, TypeOK
<1>8. TypeOK'
  BY <1>1, <1>3, <1>7, CountOfIps DEF IInv, TypeOK, serverVars, NP_RETRY_SEND_NUM
<1>9. Flight' /\ Current' /\ VerdictIsReal'
  BY <1>1, <1>6 DEF IInv, Flight, Current, VerdictIsReal, serverVars, Mapped
<1>10. Control'
  BY <1>1, <1>3, <1>6, PhaseTypes, CountOfIps DEF IInv, Control, NP_RETRY_SEND_NUM
<1>11. Answers'
  <2>1. \A a \in 1 .. N : Mapped(ipAddr[a])' = Mapped(ipAddr[a])
    BY <1>1 DEF Mapped
  <2>2. i' - 1 = i
    BY <1>1, <1>3
  <2>3. CASE j = 0
    BY <2>1, <2>2, <2>3, <1>1, <1>3, <1>5, <1>6, <1>7 DEF Answers
  <2>4. CASE j = 1
    <3>1. PICK a \in 1 .. i - 1 : recv[1] = Mapped(ipAddr[a])
      BY <2>4 DEF IInv, Answers
    <3>2. a \in 1 .. N /\ a < i /\ recv'[1] = Mapped(ipAddr[a]) /\ recv'[2] = Mapped(ipAddr[i])
      BY <3>1, <2>4, <1>3, <1>7, CountOfIps
    <3>3. a \in 1 .. i' - 1 /\ i \in 1 .. i' - 1
      BY <3>1, <2>2, <1>3
    <3> QED BY <3>2, <3>3, <2>1, <2>4, <1>1, <1>3, <1>5, <1>6 DEF Answers
  <2> QED BY <2>3, <2>4, <1>3
<1> QED BY <1>8, <1>9, <1>10, <1>11 DEF IInv

(* A verdict is given on answers that came through the network they tell   *)
(* of.                                                                     *)
LEMMA JudgeKeeps == ASSUME IInv, Judge PROVE IInv'
<1>1. /\ Asked /\ UNCHANGED <<serverVars, nat, contacted, ipAddr, msgid, recv>>
      /\ disturbed' \in BOOLEAN
  BY DEF Judge, IInv, TypeOK
<1>2. /\ pc = "send" /\ networkType = NP_UNKNOWN /\ ipAddr \in Orders
  BY <1>1 DEF Asked, IInv, Control
<1>3. PICK seen \in BOOLEAN :
        \/ /\ Conclusive(seen) /\ networkType' = Type /\ pc' = "done" /\ UNCHANGED loopVars
        \/ /\ UNCHANGED networkType /\ phase < Len(Phases)
           /\ phase' = phase + 1 /\ i' = 1 /\ j' = 0 /\ retry' = NP_RETRY_SEND_NUM
           /\ UNCHANGED pc
        \/ /\ UNCHANGED networkType /\ pc' = "done" /\ UNCHANGED loopVars
  BY DEF Judge
<1>4. Type \in NetworkTypes /\ Need \in 1 .. 2 /\ Len(Phases) = 5
  BY PhaseTypes DEF IInv
<1>5. TypeOK'
  BY <1>1, <1>2, <1>3, <1>4, CountOfIps
  DEF IInv, TypeOK, serverVars, loopVars, NP_RETRY_SEND_NUM
<1>6. Flight'
  BY <1>1 DEF IInv, Flight, serverVars, Mapped
<1>7. ~ InUse'
  BY <1>2, <1>3 DEF InUse, NP_RETRY_SEND_NUM
<1>8. Current'
  BY <1>7 DEF Current
<1>9. Control'
  <2>1. j' <= Need'
    <3>1. CASE UNCHANGED loopVars
      BY <3>1 DEF IInv, Control, Need, Type, loopVars
    <3>2. CASE j' = 0
      BY <3>2 DEF Need
    <3> QED BY <3>1, <3>2, <1>3
  <2>2. pc' \in {"send", "done"} /\ (pc' = "send" => retry' = NP_RETRY_SEND_NUM)
    BY <1>2, <1>3
  <2> QED BY <2>1, <2>2, <1>1, <1>2, <1>3, <1>7 DEF Control, NP_RETRY_SEND_NUM
<1>10. Answers'
  <2>1. CASE UNCHANGED loopVars
    BY <2>1, <1>1 DEF IInv, Answers, loopVars, Type, Mapped
  <2>2. CASE j' = 0
    BY <2>2 DEF Answers
  <2> QED BY <2>1, <2>2, <1>3
<1>11. VerdictIsReal'
  <2>1. CASE UNCHANGED networkType
    BY <2>1, <1>1 DEF IInv, VerdictIsReal
  <2>2. CASE Conclusive(seen) /\ networkType' = Type
    <3>1. j = Need /\ j >= 1
      BY <2>2, <1>4 DEF Conclusive, Enough
    <3>2. ASSUME Type = "PUBLIC_NETWORK" PROVE nat = "PUBLIC_NETWORK"
      <4>1. PICK a \in 1 .. i - 1 : recv[1] = Mapped(ipAddr[a])
        BY <3>1 DEF IInv, Answers
      <4>2. recv[1].ip = OwnIp
        BY <3>2, <2>2 DEF Conclusive
      <4> QED BY <4>1, <4>2 DEF Mapped, OwnIp, RouterIp
    <3>3. ASSUME Type = "SYMMETRIC_NAT" PROVE nat = "SYMMETRIC_NAT"
      <4>1. j = 2
        BY <3>1, <3>3 DEF Need
      <4>2. PICK a, b \in 1 .. i - 1 : recv[1] = Mapped(ipAddr[a]) /\ recv[2] = Mapped(ipAddr[b])
        BY <4>1 DEF IInv, Answers
      <4>3. AddressesDiffer
        BY <2>2, <3>3 DEF Conclusive
      <4> QED BY <4>2, <4>3 DEF AddressesDiffer, Mapped
    <3>4. Type \in OtherPort => nat \in Open
      BY <3>1 DEF IInv, Answers
    <3> QED BY <2>2, <3>2, <3>3, <3>4, <1>1 DEF VerdictIsReal, OtherPort, Open
  <2> QED BY <1>3, <2>1, <2>2
<1> QED BY <1>5, <1>6, <1>8, <1>9, <1>10, <1>11 DEF IInv

LEMMA StutterKeeps == ASSUME IInv, UNCHANGED vars PROVE IInv'
BY DEF IInv, TypeOK, Flight, Current, InUse, Control, Answers, VerdictIsReal, Mapped, Type,
   Need, vars, serverVars, clientVars, loopVars
---------------------------------------------------------------------------
(* The invariant holds for every number of IPs, resolved in any order, and *)
(* whatever is lost, late or repeated (np_send_and_recv_msg).              *)
THEOREM ProbeInvariance == Spec => []IInv
<1>1. IInv /\ [Next]_vars => IInv'
  BY ServerStepKeeps, ResolveKeeps, SendKeeps, FailedAttemptKeeps, AnswerKeeps, JudgeKeeps,
     StutterKeeps DEF Next, Client
<1> QED BY InitIInv, <1>1, PTL DEF Spec

(* The state of client, server and network keeps its type.                 *)
THEOREM ProbeTypeCorrect == Spec => []TypeOK
<1>1. IInv => TypeOK
  BY DEF IInv
<1> QED BY ProbeInvariance, <1>1, PTL

(* No verdict is more open than the network the client is in, late answers *)
(* to earlier questions included (np_is_*()).                              *)
THEOREM NoOpenerVerdict == Spec => []VerdictIsReal
<1>1. IInv => VerdictIsReal
  BY DEF IInv
<1> QED BY ProbeInvariance, <1>1, PTL

LEMMA TwoServersDiffer ==
  ASSUME IInv, Type = "SYMMETRIC_NAT", nat = "SYMMETRIC_NAT", j = 2
  PROVE  AddressesDiffer
<1>1. PICK a, b \in 1 .. i - 1 :
        a < b /\ recv[1] = Mapped(ipAddr[a]) /\ recv[2] = Mapped(ipAddr[b])
  BY DEF IInv, Answers
<1>2. ipAddr \in Orders /\ a \in 1 .. N /\ b \in 1 .. N
  BY <1>1, CountOfIps DEF IInv, Answers, TypeOK
<1>3. ipAddr[a] # ipAddr[b]
  BY <1>1, <1>2, CountOfIps DEF Orders
<1> QED BY <1>1, <1>3 DEF AddressesDiffer, Mapped

(* Two answers to the symmetric question come from two servers and so show *)
(* two addresses behind a symmetric router (np_is_symmetric_nat).          *)
THEOREM SymmetricShows == Spec => []SymmetricIsSeen
<1>1. IInv => SymmetricIsSeen
  BY TwoServersDiffer DEF SymmetricIsSeen
<1> QED BY ProbeInvariance, <1>1, PTL

(* For every number of IPs the server answers from sockets it bound on     *)
(* them, never from an entry of the table it did not fill                  *)
(* (process_full_cone_nat, process_restricted_cone_nat).                   *)
THEOREM OwnSockets == Spec => RepliesFromOwnSockets
<1> DEFINE FromBound == \A r \in replies' \ replies :
             \E k \in bound : r.src = [ip |-> Addr(k).ip, port |-> Addr(k).port]
<1>1. ASSUME IInv, [Next]_vars PROVE [FromBound]_serverVars
  <2>1. CASE ServerReads
    <3>1. PICK req \in requests, k \in 0 .. 2 * N - 1 :
            /\ Up /\ Listens(k) /\ process(req.type, k) # NoSock
            /\ replies' = replies \cup {ReplyTo(req, process(req.type, k))}
      BY <2>1 DEF ServerReads, ReadCallback
    <3>2. req.type \in NetworkTypes
      BY <1>1 DEF IInv, TypeOK, Request
    <3>3. \E m \in bound :
            SourceOf(process(req.type, k)) = [ip |-> Addr(m).ip, port |-> Addr(m).port]
      BY <1>1, <3>1, <3>2, ReplySource DEF IInv
    <3> QED BY <3>1, <3>3 DEF ReplyTo
  <2>2. CASE ~ ServerReads
    <3>1. replies' \subseteq replies \/ UNCHANGED serverVars
      BY <1>1, <2>2 DEF Next, Client, ServerStarts, ServerExits, CreateSocket, Exit,
         ResolveServer, ResolveFails, SendMsg, SendMsgFails, RecvAnswer, RecvStale,
         RecvTimeout, Judge, Recent, vars, serverVars
    <3> QED BY <3>1
  <2> QED BY <2>1, <2>2
<1> QED BY ProbeInvariance, <1>1, PTL DEF Spec, RepliesFromOwnSockets
---------------------------------------------------------------------------
(* While nothing has gone wrong: the question that names the network is    *)
(* not passed over.  When it is asked every attempt brings its answer,     *)
(* only the full-cone question may lack one, from the last IP of the       *)
(* server's table, which has no entry three further on.                    *)
Clean ==
  ~ disturbed =>
    /\ \A p \in 1 .. phase - 1 : Phases[p] # nat
    /\ pc = "recv" => ipAddr[i] \in contacted
    /\ (Type = nat /\ pc # "done") =>
         /\ Type # "FULL_CONE_NAT" => j = i - 1
         /\ Type = "FULL_CONE_NAT" /\ j = 0 =>
              \A a \in 1 .. i - 1 : Up /\ ipAddr[a] = serverIps[N]
    /\ CleanVerdict

(* Every IP the client resolved is in the server's table.                  *)
LEMMA OrdersMeet ==
  ASSUME NEW s \in Orders, NEW ip \in Ips
  PROVE  \E a \in 1 .. N : s[a] = ip
<1>1. N \in Nat /\ IsFiniteSet(Ips) /\ N = Cardinality(Ips)
  BY CountOfIps, IpsAssumption DEF N
<1>2. s \in Injection(1 .. N, Ips)
  BY OrderLen DEF Orders, Injection, IsInjective
<1>3. Cardinality(1 .. N) = N
  BY <1>1, FS_Interval
<1>4. s \in Surjection(1 .. N, Ips)
  BY <1>1, <1>2, <1>3, FS_Injection, Zenon
<1> QED BY <1>4 DEF Surjection

(* A server with all its sockets answers the question that names the       *)
(* network, the full-cone question from every IP but its last.             *)
LEMMA NamingQuestionAnswered ==
  ASSUME IInv, Clean, ~ disturbed, pc = "recv", Healthy, Type = nat,
         Type = "FULL_CONE_NAT" => ipAddr[i] # serverIps[N]
  PROVE  Answerable
<1>1. N \in 2 .. 5 /\ ipAddr[i] \in Ips /\ ipAddr[i] \in contacted
  <2>1. ipAddr \in Orders /\ i \in 1 .. N
    BY CountOfIps DEF IInv, Control, InUse, TypeOK
  <2> QED BY <2>1, CountOfIps, OrderLen DEF Clean
<1>2. PICK a \in 1 .. N : serverIps[a] = ipAddr[i]
  BY <1>1, OrdersMeet DEF Healthy, Up, IInv, TypeOK
<1> DEFINE k == 2 * (a - 1)
<1>3. /\ k \in 0 .. 2 * N - 1 /\ k + 1 \in 0 .. 2 * N - 1 /\ k + 1 \in Nat
      /\ k \div 2 + 1 = a /\ (k + 1) \div 2 + 1 = a /\ k % 2 = 0 /\ (k + 1) % 2 = 1
  BY <1>1
<1>4. a # N => /\ k + 3 \in 0 .. 2 * N - 1 /\ (k + 1 + NP_PUBLIC_IP_NUM) % Size = k + 3
               /\ (k + 3) % 2 = 1
  BY <1>1 DEF NP_PUBLIC_IP_NUM, Size
<1> HIDE DEF k
<1>5. \A m \in 0 .. 2 * N - 1 : /\ m \in bound /\ m < 4 * N /\ m < 2 * N
                                /\ Addr(m).sock = m + 1
                                /\ Addr(m).port = 1 + (m % 2)
                                /\ Addr(m).ip = serverIps[(m \div 2) + 1]
  <2> TAKE m \in 0 .. 2 * N - 1
  <2>1. m \in bound /\ m < 4 * N /\ m < 2 * N /\ ~ (m >= 4 * N)
    BY <1>1 DEF Healthy
  <2>2. Addr(m) = [ip |-> serverIps[(m \div 2) + 1], port |-> NP_SERVER_PORT + (m % 2),
                   sock |-> Fd(m)]
    BY <2>1, Zenon DEF Addr
  <2> QED BY <2>1, <2>2 DEF Fd, NP_SERVER_PORT
<1>6. Listens(k) /\ Addr(k).ip = ipAddr[i]
  BY <1>2, <1>3, <1>5 DEF Listens, NP_SERVER_PORT
<1> DEFINE fd == process(Type, k)
<1>7. CASE Type \notin OtherPort
  <2>1. fd = k + 1
    BY <1>7, <1>3, <1>5 DEF process, OtherPort
  <2>2. fd # 0 /\ fd # NoSock /\ fd - 1 = k
    BY <2>1, <1>3 DEF NoSock
  <2> HIDE DEF fd
  <2>3. SourceOf(fd) = [ip |-> ipAddr[i], port |-> NP_SERVER_PORT]
    <3>1. Addr(k).ip = ipAddr[i]
      BY <1>6
    <3>2. Addr(k).port = 1 + (k % 2) /\ k % 2 = 0
      BY <1>3, <1>5
    <3>3. Addr(k).port = NP_SERVER_PORT
      BY <3>2 DEF NP_SERVER_PORT
    <3>4. SourceOf(fd) = [ip |-> Addr(fd - 1).ip, port |-> Addr(fd - 1).port]
      BY <2>2, Zenon DEF SourceOf
    <3> QED BY <2>2, <3>1, <3>3, <3>4, Zenon
  <2>4. LetsIn(SourceOf(fd), Mapped(ipAddr[i]))
    BY <2>3, <1>1, <1>7 DEF LetsIn, Mapped, OtherPort
  <2> QED BY <2>2, <2>4, <1>3, <1>6 DEF Answerable, fd
<1>8. CASE Type = "RESTRICTED_CONE_NAT"
  <2>1. fd = k + 2
    BY <1>8, <1>3, <1>5 DEF process, process_restricted_cone_nat
  <2>2. fd # 0 /\ fd # NoSock /\ fd - 1 = k + 1
    BY <2>1, <1>3 DEF NoSock
  <2> HIDE DEF fd
  <2>3. SourceOf(fd).ip = ipAddr[i]
    BY <2>2, <1>2, <1>3, <1>5 DEF SourceOf
  <2>4. LetsIn(SourceOf(fd), Mapped(ipAddr[i]))
    BY <2>3, <1>1, <1>8 DEF LetsIn
  <2> QED BY <2>2, <2>4, <1>3, <1>6 DEF Answerable, fd
<1>9. CASE Type = "FULL_CONE_NAT"
  <2>1. a # N
    BY <1>2, <1>9
  <2>2. fd = k + 4
    BY <2>1, <1>9, <1>3, <1>4, <1>5 DEF process, process_full_cone_nat
  <2>3. fd # NoSock
    BY <2>2, <1>3 DEF NoSock
  <2> HIDE DEF fd
  <2>4. LetsIn(SourceOf(fd), Mapped(ipAddr[i]))
    BY <1>9 DEF LetsIn
  <2> QED BY <2>3, <2>4, <1>3, <1>6 DEF Answerable, fd
<1> QED BY <1>7, <1>8, <1>9 DEF OtherPort
---------------------------------------------------------------------------
LEMMA InitClean == Init => Clean
BY DEF Init, Clean, CleanVerdict

LEMMA ServerStepClean ==
  ASSUME IInv, Clean, ServerStarts \/ ServerExits \/ ServerReads
  PROVE  Clean'
<1> SUFFICES ASSUME ~ disturbed' PROVE Clean'
  BY DEF Clean
<1>1. UNCHANGED <<nat, contacted, clientVars, disturbed>>
  BY DEF ServerStarts, ServerExits, ServerReads
<1>2. Type' = Type
  BY <1>1 DEF clientVars, loopVars, Type
<1>3. Up => Up' /\ serverIps' = serverIps
  BY DEF ServerStarts, ServerExits, ServerReads, CreateSocket, ReadCallback, Up
<1> QED BY <1>1, <1>2, <1>3 DEF Clean, CleanVerdict, clientVars, loopVars, Up

LEMMA ResolveClean ==
  ASSUME IInv, Clean, ResolveServer \/ ResolveFails
  PROVE  Clean'
<1> SUFFICES ASSUME ~ disturbed' PROVE Clean'
  BY DEF Clean
<1>1. /\ pc = "start" /\ pc' = "send" /\ i = 1 /\ j = 0
      /\ UNCHANGED <<nat, phase, i, j, disturbed>>
  BY DEF ResolveServer, ResolveFails, IInv, Control, loopVars
<1> QED BY <1>1 DEF Clean, CleanVerdict, Type

LEMMA SendClean == ASSUME IInv, Clean, SendMsg PROVE Clean'
<1>1. /\ pc = "send" /\ pc' = "recv" /\ contacted' = contacted \cup {ipAddr[i]}
      /\ UNCHANGED <<serverIps, nat, ipAddr, phase, i, j, disturbed>>
  BY DEF SendMsg, Asking
<1> QED BY <1>1 DEF Clean, CleanVerdict, Type, Up

LEMMA FailedAttemptClean ==
  ASSUME IInv, Clean, SendMsgFails \/ RecvStale \/ RecvTimeout
  PROVE  Clean'
<1> SUFFICES ASSUME ~ disturbed' PROVE Clean'
  BY DEF Clean
<1>1. /\ pc = "recv" /\ pc' = "send" /\ Healthy /\ ~ Answerable /\ ~ disturbed
      /\ UNCHANGED <<serverVars, nat, contacted, ipAddr, phase, j>>
      /\ i' = i \/ i' = i + 1
  BY DEF SendMsgFails, RecvStale, RecvTimeout, AttemptFailed, NextIp
<1>2. Type = nat => Type = "FULL_CONE_NAT" /\ Up /\ ipAddr[i] = serverIps[N]
  BY <1>1, NamingQuestionAnswered DEF Healthy
<1>3. i \in 1 .. N /\ N \in Nat
  BY <1>1, CountOfIps DEF IInv, Control, InUse, TypeOK
<1>4. \A a \in 1 .. i' - 1 : a \in 1 .. i - 1 \/ a = i
  BY <1>1, <1>3
<1>5. Type' = Type /\ Up' = Up /\ serverIps' = serverIps
  BY <1>1 DEF Type, Up, serverVars
<1> QED BY <1>1, <1>2, <1>4, <1>5 DEF Clean, CleanVerdict

LEMMA AnswerClean == ASSUME IInv, Clean, RecvAnswer PROVE Clean'
<1>1. /\ pc = "recv" /\ pc' = "send" /\ j' = j + 1 /\ i' = i + 1
      /\ UNCHANGED <<serverVars, nat, contacted, ipAddr, phase, disturbed>>
  BY DEF RecvAnswer, NextIp, Delivers
<1>2. i \in Int /\ j \in Nat
  BY CountOfIps DEF IInv, TypeOK
<1> QED BY <1>1, <1>2 DEF Clean, CleanVerdict, Type

(* Asked to the end, the question that names the network has its answers   *)
(* and they are conclusive.                                                *)
LEMMA NamingQuestionConclusive ==
  ASSUME IInv, Clean, ~ disturbed, Asked, Type = nat
  PROVE  Conclusive(TRUE)
<1>1. pc = "send" /\ ipAddr \in Orders /\ Len(ipAddr) = N /\ N \in 2 .. 5
  BY CountOfIps, OrderLen DEF Asked, IInv, Control
<1>2. j = Need
  <2> SUFFICES ASSUME j # Need, i > N PROVE FALSE
    BY <1>1 DEF Asked, Enough
  <2>1. i = N + 1 /\ j \in 0 .. 2 /\ Need \in 1 .. 2
    BY <1>1, PhaseTypes DEF IInv, TypeOK
  <2>2. CASE Type # "FULL_CONE_NAT"
    <3>1. j = i - 1
      BY <2>2, <1>1 DEF Clean
    <3> QED BY <3>1, <2>1, <1>1 DEF IInv, Control
  <2>3. CASE Type = "FULL_CONE_NAT" /\ j = 0
    <3>1. 1 \in 1 .. i - 1 /\ 2 \in 1 .. i - 1 /\ 1 \in 1 .. N /\ 2 \in 1 .. N
      BY <1>1, <2>1
    <3>2. ipAddr[1] = ipAddr[2]
      BY <3>1, <2>3, <1>1 DEF Clean
    <3> QED BY <3>1, <3>2, <1>1 DEF Orders
  <2>4. CASE Type = "FULL_CONE_NAT" /\ j # 0
    BY <2>4, <2>1 DEF IInv, Control, Need
  <2> QED BY <2>2, <2>3, <2>4
<1>3. ASSUME Type = "PUBLIC_NETWORK" PROVE recv[1].ip = OwnIp
  <2>1. PICK a \in 1 .. i - 1 : recv[1] = Mapped(ipAddr[a])
    BY <1>2, <1>3 DEF IInv, Answers, Need
  <2>2. nat = "PUBLIC_NETWORK"
    BY <1>3
  <2> QED BY <2>1, <2>2 DEF Mapped
<1>4. ASSUME Type = "SYMMETRIC_NAT" PROVE AddressesDiffer
  BY <1>2, <1>4, TwoServersDiffer DEF Need, SymmetricIsSeen
<1> QED BY <1>2, <1>3, <1>4 DEF Conclusive, Enough

LEMMA JudgeClean == ASSUME IInv, Clean, Judge PROVE Clean'
<1> SUFFICES ASSUME ~ disturbed' PROVE Clean'
  BY DEF Clean
<1>1. Asked /\ pc = "send" /\ ~ disturbed /\ UNCHANGED nat
  BY DEF Judge, Asked
<1>2. PICK seen \in BOOLEAN :
        /\ Type = "PUBLIC_NETWORK" => seen
        /\ \/ Conclusive(seen) /\ networkType' = Type /\ pc' = "done" /\ UNCHANGED loopVars
           \/ /\ ~ Conclusive(seen) /\ phase < Len(Phases)
              /\ phase' = phase + 1 /\ i' = 1 /\ j' = 0 /\ UNCHANGED pc
           \/ ~ Conclusive(seen) /\ phase = Len(Phases) /\ pc' = "done"
  <2>1. phase <= Len(Phases) /\ phase \in Int /\ Len(Phases) \in Int
    BY PhaseTypes DEF IInv, TypeOK
  <2>2. PICK seen \in BOOLEAN :
          /\ disturbed' = (disturbed \/ (Type = "PUBLIC_NETWORK" /\ ~ seen))
          /\ IF Conclusive(seen)
             THEN networkType' = Type /\ pc' = "done" /\ UNCHANGED loopVars
             ELSE IF phase < Len(Phases)
                  THEN phase' = phase + 1 /\ i' = 1 /\ j' = 0 /\ UNCHANGED pc
                  ELSE pc' = "done"
    BY DEF Judge
  <2>3. Type = "PUBLIC_NETWORK" => seen
    BY <2>2
  <2> QED BY <2>1, <2>2, <2>3
<1>3. VerdictIsReal'
  BY JudgeKeeps DEF IInv
<1>4. phase \in 1 .. 5 /\ Type = Phases[phase] /\ Len(Phases) = 5 /\ nat \in NetworkTypes
  BY PhaseTypes DEF IInv, TypeOK
<1>5. \A p \in 1 .. phase - 1 : Phases[p] # nat
  BY <1>1 DEF Clean
<1>6. CASE Type = nat
  <2>1. Conclusive(seen)
    BY <1>1, <1>2, <1>6, NamingQuestionConclusive DEF Conclusive
  <2>2. networkType' = nat /\ pc' = "done" /\ phase' = phase
    BY <2>1, <1>2, <1>6 DEF loopVars
  <2> QED BY <2>2, <1>1, <1>5 DEF Clean, CleanVerdict
<1>7. CASE Type # nat
  <2>1. \A p \in 1 .. phase : Phases[p] # nat
    BY <1>4, <1>5, <1>7
  <2>2. phase # 5
    BY <2>1, <1>4 DEF Phases, NetworkTypes
  <2>3. CASE phase' = phase + 1 /\ i' = 1 /\ j' = 0 /\ UNCHANGED pc
    <3>1. \A p \in 1 .. phase' - 1 : Phases[p] # nat'
      BY <2>1, <2>3, <1>1, <1>4
    <3> QED BY <3>1, <2>3, <1>1 DEF Clean, CleanVerdict
  <2>4. CASE Conclusive(seen) /\ networkType' = Type /\ pc' = "done" /\ UNCHANGED loopVars
    <3>1. \/ networkType' = nat
          \/ nat = "RESTRICTED_CONE_NAT" /\ networkType' = "FULL_CONE_NAT"
      <4>1. phase \in 1 .. 4
        BY <2>2, <1>4
      <4>2. /\ phase = 1 => networkType' = "PUBLIC_NETWORK"
            /\ phase = 2 => networkType' = "SYMMETRIC_NAT"
            /\ phase = 3 => networkType' = "FULL_CONE_NAT" /\ nat # "FULL_CONE_NAT"
                            /\ nat # "PUBLIC_NETWORK"
            /\ phase = 4 => networkType' = "RESTRICTED_CONE_NAT" /\ nat # "FULL_CONE_NAT"
                            /\ nat # "PUBLIC_NETWORK"
        BY <2>1, <2>4, <1>4 DEF Phases
      <4> QED BY <4>1, <4>2, <1>1, <1>3 DEF VerdictIsReal
    <3>2. phase' = phase
      BY <2>4 DEF loopVars
    <3> QED BY <3>1, <3>2, <2>4, <1>1, <1>5 DEF Clean, CleanVerdict
  <2> QED BY <2>2, <2>3, <2>4, <1>2, <1>4
<1> QED BY <1>6, <1>7

LEMMA StutterClean == ASSUME Clean, UNCHANGED vars PROVE Clean'
BY DEF Clean, CleanVerdict, Type, Up, vars, serverVars, clientVars, loopVars

(* For every number of IPs, every order of resolving them and every        *)
(* network: when no datagram is lost or late, all sockets of the server    *)
(* are bound and no call fails, the probe names the network type, a        *)
(* restricted cone possibly as a full one (np_network_type_probe).         *)
THEOREM CleanVerdictGiven == Spec => []CleanVerdict
<1>1. IInv /\ Clean /\ [Next]_vars => Clean'
  BY ServerStepClean, ResolveClean, SendClean, FailedAttemptClean, AnswerClean, JudgeClean,
     StutterClean DEF Next, Client
<1>2. Clean => CleanVerdict
  BY DEF Clean, CleanVerdict
<1> QED BY InitClean, ProbeInvariance, <1>1, <1>2, PTL DEF Spec
===========================================================================
