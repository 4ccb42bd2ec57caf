-------------------------- MODULE NatProbeServer --------------------------
(***************************************************************************)
(* nat_probe_server: for every IP of its domain it owns a socket on        *)
(* NP_SERVER_PORT and one on the next port.  A request read from the first *)
(* names the network type the client is testing for, and that decides the  *)
(* socket the answer leaves from.                                          *)
(*                                                                         *)
(* The network may lose, delay, reorder and repeat datagrams: those in     *)
(* requests and replies may be read at any time, again and again, or       *)
(* never, until MaxLate newer message ids are in use.                      *)
(***************************************************************************)
EXTENDS Integers, Sequences, FiniteSets

CONSTANTS Ips,       \* the IPs of the domain the server and the client resolve
          NoIp,      \* an IP of zero
          MaxStarts, \* times the server is started (bound)
          MaxUnbound,\* sockets a start of it cannot bind (bound)
          MaxLate    \* message ids after which a datagram is gone (bound)

NP_PUBLIC_IP_NUM == 2
Size == 20           \* NP_SERVER_SOCKET_NUM, entries of the table addr

(* create_socket() fills 4 entries per IP: the table holds five IPs.       *)
ASSUME IpsAssumption ==
  /\ IsFiniteSet(Ips) /\ NoIp \notin Ips
  /\ Cardinality(Ips) \in NP_PUBLIC_IP_NUM .. 5
ASSUME BoundsAssumption == MaxStarts \in Nat /\ MaxUnbound \in Nat /\ MaxLate \in Nat

N == Cardinality(Ips)
NP_SERVER_PORT == 1  \* the port; the sockets beside it are on the next one

NetworkTypes == {"PUBLIC_NETWORK", "FULL_CONE_NAT", "RESTRICTED_CONE_NAT",
                 "PORT_RESTRICTED_CONE_NAT", "SYMMETRIC_NAT"}

VARIABLES
  serverIps,   \* the server's IPs in the order it resolved them, <<>> while it is down
  bound,       \* indices of the table whose socket is bound
  starts,      \* times the server was started
  requests,    \* requests that may still arrive: [msgid, type, dst, from]
  replies      \* replies that may still arrive: [msgid, addr, src]

serverVars == <<serverIps, bound, starts, requests, replies>>

(* getaddrinfo() returns the addresses in any order                        *)
Orders == {s \in [1 .. N -> Ips] : \A a, b \in 1 .. N : s[a] = s[b] => a = b}

Up == serverIps # <<>>

ServerInit == /\ serverIps = <<>> /\ bound = {} /\ starts = 0
              /\ requests = {} /\ replies = {}
---------------------------------------------------------------------------
NoSock == -1
Fd(k) == k + 1      \* the descriptor of the k-th entry: any positive number

(* addr[k]: the loop that fills the table runs to twice the number of IPs, *)
(* so it leaves as many entries of IP zero behind the real ones; what it   *)
(* does not reach is zero, the descriptor too.                             *)
Addr(k) ==
  [ip   |-> IF k < 2 * N THEN serverIps[(k \div 2) + 1] ELSE NoIp,
   port |-> IF k < 4 * N THEN NP_SERVER_PORT + (k % 2) ELSE 0,
   sock |-> IF k >= 4 * N THEN 0 ELSE IF k \in bound THEN Fd(k) ELSE NoSock]

FullConeFarAway(i) ==                 \* mutant: steps over NP_MAX_PUBLIC_IP_NUM entries
  Addr((i + 1 + 10) % Size).sock

process_full_cone_nat(i) == Addr((i + 1 + NP_PUBLIC_IP_NUM) % Size).sock

process_restricted_cone_nat(i) == Addr(i + 1).sock

(* the socket that answers a request of this type read from entry i        *)
process(type, i) ==
  CASE type = "FULL_CONE_NAT"       -> process_full_cone_nat(i)
    [] type = "RESTRICTED_CONE_NAT" -> process_restricted_cone_nat(i)
    [] OTHER                        -> Addr(i).sock

(* where a datagram sent through descriptor fd appears to come from        *)
SourceOf(fd) == IF fd = 0 THEN [ip |-> NoIp, port |-> 0]
                ELSE [ip |-> Addr(fd - 1).ip, port |-> Addr(fd - 1).port]
---------------------------------------------------------------------------
(* create_socket(): a socket that cannot be bound is left out              *)
CreateSocket ==
  /\ ~ Up /\ starts < MaxStarts
  /\ starts' = starts + 1
  /\ serverIps' \in Orders
  /\ \E unbound \in SUBSET (0 .. 2 * N - 1) :
       Cardinality(unbound) <= MaxUnbound /\ bound' = (0 .. 2 * N - 1) \ unbound
  /\ UNCHANGED <<requests, replies>>

(* the event loop ends: SIGINT or an error of event_dispatch()             *)
Exit == /\ Up
        /\ serverIps' = <<>> /\ bound' = {}
        /\ UNCHANGED <<starts, requests, replies>>

(* entries whose socket has a read event                                   *)
Listens(i) == Addr(i).port = NP_SERVER_PORT /\ i \in bound

(* recv_msg() copies the id and the address a request came from into       *)
(* send_msg, which leaves through descriptor fd.                           *)
ReplyTo(req, fd) == [msgid |-> req.msgid, addr |-> req.from, src |-> SourceOf(fd)]

ReadCallback ==
  /\ Up
  /\ \E req \in requests, i \in 0 .. 2 * N - 1 :
       /\ Listens(i) /\ Addr(i).ip = req.dst
       /\ process(req.type, i) # NoSock
       /\ replies' = replies \cup {ReplyTo(req, process(req.type, i))}
  /\ UNCHANGED <<serverIps, bound, starts, requests>>
---------------------------------------------------------------------------
(* Every reply leaves from a socket the server bound on one of its IPs,    *)
(* whatever entries of the table the index arithmetic of process() meets:  *)
(* never from descriptor 0 of an entry create_socket() did not reach       *)
(* (nat_probe_server.c:262-292).                                           *)
RepliesFromOwnSockets ==
  [][\A r \in replies' \ replies :
       \E k \in bound : r.src = [ip |-> Addr(k).ip, port |-> Addr(k).port]]_serverVars
===========================================================================
