----------------------------- MODULE NatProbe -----------------------------
(***************************************************************************)
(* nat_probe_client behind a router, probing nat_probe_server: five        *)
(* questions in a row, the first conclusive one names the network type.    *)
(* The router is external; it is the RFC 3489 NAT of the kind in nat.      *)
(***************************************************************************)
EXTENDS NatProbeServer

NP_RETRY_SEND_NUM == 2
NP_UNKNOWN == "UNKNOWN"

Phases == <<"PUBLIC_NETWORK", "SYMMETRIC_NAT", "FULL_CONE_NAT",
            "RESTRICTED_CONE_NAT", "PORT_RESTRICTED_CONE_NAT">>

VARIABLES
  nat,          \* the kind of network the client really is in
  contacted,    \* IPs the router has seen the client's socket send to
  pc,           \* where np_network_type_probe() is
  ipAddr,       \* ip_addr, the server's IPs in the order the client resolved them
  phase,        \* the question being asked, an index of Phases
  i, j, retry,  \* of np_send_and_recv_msg(): IP tried, answers so far, attempts left
  msgid,        \* the message id in use
  recv,         \* addresses in recv_msg[0] and recv_msg[1]
  networkType,  \* s_network_type
  disturbed     \* did a fault (of network, server or socket) touch the probe?

loopVars == <<phase, i, j, retry>>
clientVars == <<pc, ipAddr, loopVars, msgid, recv, networkType>>
vars == <<serverVars, nat, contacted, clientVars, disturbed>>

(* The address a server sees, and the router's filter on what comes back.  *)
(* A symmetric router has a port of its own for each destination.          *)
OwnIp == "own"
RouterIp == "router"
NoAddr == [ip |-> NoIp, port |-> NoIp]
Mapped(dst) ==
  [ip   |-> IF nat = "PUBLIC_NETWORK" THEN OwnIp ELSE RouterIp,
   port |-> IF nat = "SYMMETRIC_NAT" THEN dst ELSE NoIp]
LetsIn(src, addr) ==
  CASE nat = "RESTRICTED_CONE_NAT"      -> src.ip \in contacted
    [] nat = "PORT_RESTRICTED_CONE_NAT" -> src.ip \in contacted /\ src.port = NP_SERVER_PORT
    [] nat = "SYMMETRIC_NAT"            -> src = [ip |-> addr.port, port |-> NP_SERVER_PORT]
    [] OTHER                            -> TRUE

Init == /\ ServerInit
        /\ nat \in NetworkTypes
        /\ contacted = {}
        /\ pc = "start" /\ ipAddr = <<>>
        /\ phase = 1 /\ i = 1 /\ j = 0 /\ retry = NP_RETRY_SEND_NUM
        /\ msgid = 0
        /\ recv = [k \in 1 .. 2 |-> NoAddr]
        /\ networkType = NP_UNKNOWN
        /\ disturbed = FALSE
---------------------------------------------------------------------------
(* np_get_server_ip()                                                      *)
ResolveServer == /\ pc = "start"
                 /\ ipAddr' \in Orders
                 /\ pc' = "send"
                 /\ UNCHANGED <<serverVars, nat, contacted, loopVars, msgid, recv,
                                networkType, disturbed>>

ResolveFails == /\ pc = "start"
                /\ pc' = "done" /\ disturbed' = TRUE
                /\ UNCHANGED <<serverVars, nat, contacted, ipAddr, loopVars, msgid, recv,
                               networkType>>
---------------------------------------------------------------------------
(* np_send_and_recv_msg()                                                  *)
Type == Phases[phase]
Need == IF Type = "SYMMETRIC_NAT" THEN 2 ELSE 1      \* send_msg_num
Asking == pc = "send" /\ i <= Len(ipAddr) /\ j < Need

NextIpKeepsRetry ==                   \* mutant: retry_num is set once per question
  i' = i + 1 /\ UNCHANGED retry

NextIp == i' = i + 1 /\ retry' = NP_RETRY_SEND_NUM

(* generate_msgid(), once for each IP: the attempts share the id           *)
MsgidToUse == IF retry = NP_RETRY_SEND_NUM THEN msgid + 1 ELSE msgid

Recent(datagrams, id) == {d \in datagrams : d.msgid + MaxLate >= id}

SendMsg ==
  /\ Asking
  /\ msgid' = MsgidToUse
  /\ requests' = Recent(requests, MsgidToUse) \cup
                   {[msgid |-> MsgidToUse, type |-> Type, dst |-> ipAddr[i],
                     from |-> Mapped(ipAddr[i])]}
  /\ replies' = Recent(replies, MsgidToUse)
  /\ contacted' = contacted \cup {ipAddr[i]}
  /\ retry' = retry - 1
  /\ pc' = "recv"
  /\ UNCHANGED <<serverIps, bound, starts, nat, ipAddr, phase, i, j, recv,
                 networkType, disturbed>>

SendMsgFails ==
  /\ Asking
  /\ msgid' = MsgidToUse
  /\ NextIp
  /\ disturbed' = TRUE
  /\ UNCHANGED <<serverVars, nat, contacted, pc, ipAddr, phase, j, recv, networkType>>

(* an attempt without its answer: try again or go on to the next IP        *)
AttemptFailed == /\ pc' = "send"
                 /\ IF retry > 0 THEN UNCHANGED <<i, retry>> ELSE NextIp
                 /\ UNCHANGED <<ipAddr, phase, j, msgid, networkType>>

Delivers(r) == pc = "recv" /\ r \in replies /\ LetsIn(r.src, r.addr)

AnyReplyIsTheAnswer(r) == TRUE        \* mutant: the id is not compared

IsTheAnswer(r) == r.msgid = msgid

RecvAnswer ==
  /\ \E r \in replies : /\ Delivers(r) /\ IsTheAnswer(r)
                        /\ recv' = [recv EXCEPT ![j + 1] = r.addr]
  /\ j' = j + 1
  /\ NextIp
  /\ pc' = "send"
  /\ UNCHANGED <<serverVars, nat, contacted, ipAddr, phase, msgid, networkType, disturbed>>

RecvStale ==
  /\ \E r \in replies : /\ Delivers(r) /\ ~ IsTheAnswer(r)
                        /\ recv' = [recv EXCEPT ![j + 1] = r.addr]
  /\ AttemptFailed
  /\ disturbed' = TRUE
  /\ UNCHANGED <<serverVars, nat, contacted>>

(* With all its sockets bound, would the server answer this request in a   *)
(* way the router lets in?                                                 *)
Answerable ==
  \E k \in 0 .. 2 * N - 1 :
    LET fd == process(Type, k)
    IN  /\ Listens(k) /\ Addr(k).ip = ipAddr[i] /\ fd # NoSock
        /\ LetsIn(SourceOf(fd), Mapped(ipAddr[i]))
Healthy == Up /\ bound = 0 .. 2 * N - 1

RecvBlocks == FALSE                   \* mutant: recvfrom() without SO_RCVTIMEO

RecvTimeout ==
  /\ pc = "recv"
  /\ AttemptFailed
  /\ disturbed' = (disturbed \/ ~ Healthy \/ Answerable)
  /\ UNCHANGED <<serverVars, nat, contacted, recv>>
---------------------------------------------------------------------------
(* np_is_*(): what the answers say.  is_local_ip() may miss an address of  *)
(* the device: it looks at the interfaces that fit in 128 bytes.           *)
Enough == j = Need

SymmetricIfBothDiffer ==              \* mutant: && for || in the comparison
  recv[1].ip # recv[2].ip /\ recv[1].port # recv[2].port

AddressesDiffer == recv[1].ip # recv[2].ip \/ recv[1].port # recv[2].port

Conclusive(seen) ==
  /\ Enough
  /\ Type = "PUBLIC_NETWORK" => recv[1].ip = OwnIp /\ seen
  /\ Type = "SYMMETRIC_NAT" => AddressesDiffer

Asked == pc = "send" /\ (i > Len(ipAddr) \/ Enough)

Judge ==
  /\ Asked
  /\ \E seen \in BOOLEAN :
       /\ disturbed' = (disturbed \/ (Type = "PUBLIC_NETWORK" /\ ~ seen))
       /\ IF Conclusive(seen)
          THEN networkType' = Type /\ pc' = "done" /\ UNCHANGED loopVars
          ELSE /\ UNCHANGED networkType
               /\ IF phase < Len(Phases)
                  THEN /\ phase' = phase + 1 /\ i' = 1 /\ j' = 0
                       /\ retry' = NP_RETRY_SEND_NUM
                       /\ UNCHANGED pc
                  ELSE pc' = "done" /\ UNCHANGED loopVars
  /\ UNCHANGED <<serverVars, nat, contacted, ipAddr, msgid, recv>>
---------------------------------------------------------------------------
Client == \/ ResolveServer \/ ResolveFails
          \/ SendMsg \/ SendMsgFails
          \/ RecvAnswer \/ RecvStale \/ RecvTimeout
          \/ Judge

ServerStarts == CreateSocket /\ UNCHANGED <<nat, contacted, clientVars, disturbed>>
ServerExits == Exit /\ disturbed' = TRUE /\ UNCHANGED <<nat, contacted, clientVars>>
ServerReads == ReadCallback /\ UNCHANGED <<nat, contacted, clientVars, disturbed>>

Next == Client \/ ServerStarts \/ ServerExits \/ ServerReads

Spec == Init /\ [][Next]_vars
FairSpec == Spec /\ WF_vars(Client)
---------------------------------------------------------------------------
Addresses == {NoAddr} \cup [ip : {OwnIp, RouterIp}, port : Ips \cup {NoIp}]
Request == [msgid : Nat, type : NetworkTypes, dst : Ips, from : Addresses]
Reply == [msgid : Nat, addr : Addresses, src : [ip : Ips \cup {NoIp}, port : 0 .. 2]]

TypeOK ==
  /\ serverIps \in Orders \cup {<<>>} /\ bound \subseteq 0 .. 2 * N - 1
  /\ starts \in 0 .. MaxStarts
  /\ requests \subseteq Request /\ replies \subseteq Reply
  /\ nat \in NetworkTypes /\ contacted \subseteq Ips
  /\ pc \in {"start", "send", "recv", "done"}
  /\ ipAddr \in Orders \cup {<<>>}
  /\ phase \in 1 .. Len(Phases) /\ i \in 1 .. N + 1 /\ j \in 0 .. 2
  /\ retry \in 0 .. NP_RETRY_SEND_NUM /\ msgid \in Nat
  /\ recv \in [1 .. 2 -> Addresses]
  /\ networkType \in NetworkTypes \cup {NP_UNKNOWN} /\ disturbed \in BOOLEAN

(* Whatever the network and the server do, late answers to earlier         *)
(* questions included, a verdict is never more open than the network the   *)
(* client is in: PUBLIC and SYMMETRIC are exact, and a client said to be   *)
(* behind a full or a restricted cone can be reached from a port it never  *)
(* sent to (the order and the conditions of np_is_*()).                    *)
VerdictIsReal ==
  /\ networkType = "PUBLIC_NETWORK" => nat = "PUBLIC_NETWORK"
  /\ networkType = "SYMMETRIC_NAT" => nat = "SYMMETRIC_NAT"
  /\ networkType \in {"FULL_CONE_NAT", "RESTRICTED_CONE_NAT"}
       => nat \in {"PUBLIC_NETWORK", "FULL_CONE_NAT", "RESTRICTED_CONE_NAT"}

(* Behind a symmetric router two answers to the symmetric question show    *)
(* two addresses, even when answers of earlier questions or attempts are   *)
(* still arriving: they come from two servers (np_is_symmetric_nat).       *)
SymmetricIsSeen ==
  (Type = "SYMMETRIC_NAT" /\ nat = "SYMMETRIC_NAT" /\ j = 2) => AddressesDiffer

(* When no datagram is lost or late, all sockets of the server are bound   *)
(* and no call fails, the probe names the network type, but for a          *)
(* restricted cone, which it takes for a full one: the answer to the       *)
(* full-cone question leaves from an IP the symmetric question was sent to *)
(* (nat_probe_client.c:462-486, nat_probe_server.c:262-276).               *)
CleanVerdict ==
  (pc = "done" /\ ~ disturbed) =>
    \/ networkType = nat
    \/ nat = "RESTRICTED_CONE_NAT" /\ networkType = "FULL_CONE_NAT"

(* The probe ends, whatever is lost: each attempt times out and attempts   *)
(* are counted (np_send_and_recv_msg).                                     *)
ProbeEnds == <>(pc = "done")

(* ReadMe:8-14: a restricted cone is one of the types the probe reports.  *)
RestrictedIsReported ==
  (pc = "done" /\ ~ disturbed /\ nat = "RESTRICTED_CONE_NAT")
    => networkType = "RESTRICTED_CONE_NAT"
===========================================================================
