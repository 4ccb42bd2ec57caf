--------------------------- MODULE PunchHoleUdp ---------------------------
(***************************************************************************)
(* PunchHole over UDP: devices behind port-restricted routers register     *)
(* with a server by a ping; a device that wants to reach Target asks the   *)
(* server for its address, the server tells Target to punch a hole towards *)
(* the asker, and the asker sends its data five seconds later.  Nothing is *)
(* acknowledged or sent again.  Server and peers are one event loop each.  *)
(***************************************************************************)
EXTENDS Integers, Sequences, FiniteSets, FiniteSetsExt

CONSTANTS Devices,   \* device_sn of the peers
          Target,    \* the device everybody asks for, 2222
          Server,    \* the address of the server
          NoAddr,    \* an address of zero
          MaxFaults, \* datagrams lost or repeated, failed calls, restarts (bound)
          Failing    \* the devices they concern (bound)

Addresses == [of : Devices, n : Nat \ {0}]   \* of a router: the n-th mapping of a peer

ASSUME DevicesAssumption == /\ Target \in Devices /\ NoAddr \notin Devices
                            /\ Failing \subseteq Devices /\ MaxFaults \in Nat
ASSUME AddressAssumption == /\ Server # NoAddr
                            /\ Server \notin Addresses /\ NoAddr \notin Addresses

VARIABLES
  list,       \* s_pall_device_info, the newest entry first: [sn, addr]
  pc,         \* where each peer is: "starting", "idle", "sleeping" (in punch_hole)
  asked,      \* has user_cb run?
  pending,    \* the address punch_hole will send to
  mapping,    \* how many mappings the router has given the peer's socket
  holes,      \* addresses the router lets in: those the peer has sent to
  net,        \* datagrams on their way: [cmd, from, to, sn, info, copy]
  pinged,     \* every <<device, address>> a ping was tried from
  got,        \* devices whose data reached Target
  faults,     \* faults so far
  disturbed   \* the devices for whom something has gone wrong

peerVars == <<pc, asked, pending, mapping, holes>>
vars == <<list, peerVars, net, pinged, got, faults, disturbed>>

Askers == Devices \ {Target}
AddrOf(d) == [of |-> d, n |-> mapping[d]]
NoInfo == [sn |-> NoAddr, addr |-> NoAddr]       \* device info from calloc()
Datagram(cmd, from, to, sn, info) ==
  [cmd |-> cmd, from |-> from, to |-> to, sn |-> sn, info |-> info, copy |-> FALSE]

Init == /\ list = <<>>
        /\ pc = [d \in Devices |-> "starting"]
        /\ asked = [d \in Devices |-> FALSE]
        /\ pending = [d \in Devices |-> NoAddr]
        /\ mapping = [d \in Devices |-> 1]
        /\ holes = [d \in Devices |-> {}]
        /\ net = {} /\ pinged = {} /\ got = {}
        /\ faults = 0 /\ disturbed = {}

Fault(who) == /\ who = {} \/ who \cap Failing # {}
              /\ faults < MaxFaults /\ faults' = faults + 1
              /\ disturbed' = disturbed \cup who
NoFault == UNCHANGED <<faults, disturbed>>
Hurt(d) == IF d = Target THEN Askers ELSE {d}
---------------------------------------------------------------------------
(* A peer process dies and is started again, with the same local port;     *)
(* the router may still have its mapping or give it a new one, and what    *)
(* came meanwhile or waited in the old socket is gone.                     *)
Restart(d) ==
  /\ Fault(Hurt(d))
  /\ pc' = [pc EXCEPT ![d] = "starting"]
  /\ asked' = [asked EXCEPT ![d] = FALSE]
  /\ \/ UNCHANGED <<mapping, holes>>
     \/ /\ mapping' = [mapping EXCEPT ![d] = @ + 1]
        /\ holes' = [holes EXCEPT ![d] = {}]
  /\ \E late \in {{}, {m \in net : m.to = AddrOf(d)}} : net' = net \ late
  /\ UNCHANGED <<list, pending, pinged, got>>

(* sendto(); when it fails, or is interrupted, nothing is sent again. The  *)
(* filter of the router opens for the address of the receiver.             *)
SendTo(d, to, cmd, info, who) ==
  \/ /\ net' = net \cup {Datagram(cmd, AddrOf(d), to, d, info)}
     /\ holes' = [holes EXCEPT ![d] = @ \cup {to}]
     /\ NoFault
  \/ Fault(who) /\ UNCHANGED <<net, holes>>

(* ping_cb, made active before the loop, which also cancels its timer      *)
Ping(d) ==
  /\ pc[d] = "starting"
  /\ pc' = [pc EXCEPT ![d] = "idle"]
  /\ SendTo(d, Server, "PING", [sn |-> d, addr |-> NoAddr], Hurt(d))
  /\ pinged' = pinged \cup {<<d, AddrOf(d)>>}
  /\ UNCHANGED <<list, asked, pending, mapping, got>>

(* user_cb, ten seconds after the start                                    *)
Ask(d) ==
  /\ pc[d] = "idle" /\ d # Target /\ ~ asked[d]
  /\ asked' = [asked EXCEPT ![d] = TRUE]
  /\ SendTo(d, Server, "QUERY", [sn |-> Target, addr |-> NoAddr], {d})
  /\ UNCHANGED <<list, pc, pending, mapping, pinged, got>>
---------------------------------------------------------------------------
(* read_cb of the server                                                   *)
OwnAddress(m) == [sn |-> m.info.sn, addr |-> m.info.addr]  \* mutant: what the peer sent

Registration(m) == [sn |-> m.info.sn, addr |-> m.from]

PingArrives(m) ==
  /\ m \in net /\ m.to = Server /\ m.cmd = "PING"
  /\ list' = <<Registration(m)>> \o list                          \* list_add()
  /\ net' = net \ {m}
  /\ UNCHANGED <<peerVars, pinged, got, faults, disturbed>>

(* process_query_device_info_cmd(): the loop over the list counts matches  *)
(* of either device and stops at the second; of what it has met, the last  *)
(* match of a device is what it copied.                                    *)
MatchesOf(sns) == {k \in DOMAIN list : list[k].sn \in sns}

MetAll(src, query) == MatchesOf({src, query})  \* mutant: no stop at the second

Met(src, query) ==
  {k \in MatchesOf({src, query}) :
     Cardinality({l \in MatchesOf({src, query}) : l < k}) < 2}

Found(sn, src, query) ==
  LET copied == Met(src, query) \cap MatchesOf({sn})
      last   == {k \in copied : \A l \in copied : l <= k}
  IN  IF last = {} THEN NoInfo ELSE list[CHOOSE k \in last : TRUE]

(* Target is told to punch before the asker is answered; a failing send    *)
(* ends the handler, an interrupted one does not.                          *)
PunchSelf(src, query) ==             \* mutant: the queried device's own address
  Datagram("PUNCH_HOLE", Server, query.addr, NoAddr, query)

PunchCmd(src, query) ==
  Datagram("PUNCH_HOLE", Server, query.addr, NoAddr, src)

AnswerUnknown(query) == "RESPONSE"   \* mutant: presponse->cmd starts as RESPONSE

AnswerCmd(query) == IF query = NoInfo THEN "UNKNOWN" ELSE "RESPONSE"

QueryArrives(m) ==
  /\ m \in net /\ m.to = Server /\ m.cmd = "QUERY"
  /\ LET query  == Found(m.info.sn, m.sn, m.info.sn)
         src    == Found(m.sn, m.sn, m.info.sn)
         punch  == IF query # NoInfo THEN {PunchCmd(src, query)} ELSE {}
         answer == Datagram(AnswerCmd(query), Server, m.from, NoAddr, query)
         absent == \E sn \in {m.sn, m.info.sn} : MatchesOf({sn}) = {}
     IN  \/ /\ net' = (net \ {m}) \cup punch \cup {answer}
            /\ disturbed' = IF absent THEN disturbed \cup {m.sn} ELSE disturbed
            /\ UNCHANGED faults
         \/ \E sent \in {punch, {answer}, {}} :
               Fault({m.sn}) /\ net' = (net \ {m}) \cup sent
  /\ UNCHANGED <<list, peerVars, pinged, got>>

(* the list lives in the server's memory                                   *)
ServerRestarts ==
  /\ Fault({})
  /\ list' = <<>>
  /\ UNCHANGED <<peerVars, net, pinged, got>>
---------------------------------------------------------------------------
(* read_cb of a peer, for what its router lets in                          *)
LetIn(d, m) == m.to = AddrOf(d) /\ m.from \in holes[d]
Reads(d, m) == m \in net /\ pc[d] = "idle" /\ LetIn(d, m)

(* process_punch_hole_cmd(): the PUNCH_HOLE_TO_PEER it sends opens a hole  *)
(* on its way out and changes nothing where it arrives, so it is not kept  *)
(* in net.  Sending to the zero address fails.                             *)
PunchArrives(d, m) ==
  /\ Reads(d, m) /\ m.cmd = "PUNCH_HOLE"
  /\ net' = net \ {m}
  /\ \/ /\ holes' = IF m.info = NoInfo THEN holes
                     ELSE [holes EXCEPT ![d] = @ \cup {m.info.addr}]
        /\ NoFault
     \/ Fault({m.info.sn}) /\ m.info # NoInfo /\ UNCHANGED holes
  /\ UNCHANGED <<list, pc, asked, pending, mapping, pinged, got>>

(* punch_hole() sleeps five seconds in the callback, then sends            *)
ResponseArrives(d, m) ==
  /\ Reads(d, m) /\ m.cmd = "RESPONSE"
  /\ pc' = [pc EXCEPT ![d] = "sleeping"]
  /\ pending' = [pending EXCEPT ![d] = m.info.addr]
  /\ net' = net \ {m}
  /\ UNCHANGED <<list, asked, mapping, holes, pinged, got, faults, disturbed>>

WakesUp(d) ==
  /\ pc[d] = "sleeping"
  /\ pc' = [pc EXCEPT ![d] = "idle"]
  /\ SendTo(d, pending[d], "DATA", NoInfo, {d})
  /\ UNCHANGED <<list, asked, pending, mapping, pinged, got>>

(* USER_DATA and unknown commands change nothing                           *)
OtherArrives(d, m) ==
  /\ Reads(d, m) /\ m.cmd \in {"DATA", "UNKNOWN"}
  /\ got' = IF m.cmd = "DATA" /\ d = Target THEN got \cup {m.sn} ELSE got
  /\ net' = net \ {m}
  /\ UNCHANGED <<list, peerVars, pinged, faults, disturbed>>

PeerReads(d) ==
  \E m \in net : PunchArrives(d, m) \/ ResponseArrives(d, m) \/ OtherArrives(d, m)
---------------------------------------------------------------------------
(* The network and the routers.  A router drops what it has no hole for, a *)
(* host what comes while the peer is down.  Data dropped while the punch   *)
(* command is on its way came too early: sleep(5) waits for nothing.       *)
Concerned(m) ==
  IF m.cmd = "PING" THEN Hurt(m.sn)
  ELSE {d \in Askers : d \in {m.sn, m.info.sn} \/ m.to = AddrOf(d)}

Lose(m) == /\ Fault(Concerned(m)) /\ net' = net \ {m}
           /\ UNCHANGED <<list, peerVars, pinged, got>>

Repeat(m) == /\ Fault(IF m.cmd = "PING" THEN Hurt(m.sn) ELSE {})
             /\ net' = net \cup {[m EXCEPT !.copy = TRUE]}
             /\ UNCHANGED <<list, peerVars, pinged, got>>

TooEarly(m) == m.cmd = "DATA" /\ \E n \in net : n.cmd = "PUNCH_HOLE" /\ n.info.addr = m.from

Filtered(m) ==
  /\ m.to # Server /\ \A d \in Devices : ~ LetIn(d, m)
  /\ net' = net \ {m}
  /\ disturbed' = IF TooEarly(m) THEN disturbed \cup {m.sn} ELSE disturbed
  /\ UNCHANGED <<list, peerVars, pinged, got, faults>>
---------------------------------------------------------------------------
ServerReads == \E m \in net : PingArrives(m) \/ QueryArrives(m)
RouterDrops == \E m \in net : Filtered(m)
PeerStep(d) == Ping(d) \/ Ask(d) \/ PeerReads(d) \/ WakesUp(d)

Next == \/ \E d \in Devices : Restart(d) \/ PeerStep(d)
        \/ ServerReads \/ ServerRestarts
        \/ \E m \in net : Lose(m) \/ Repeat(m)
        \/ RouterDrops

Spec == Init /\ [][Next]_vars
Fairness == WF_vars((\E d \in Devices : PeerStep(d)) \/ ServerReads \/ RouterDrops)
FairSpec == Spec /\ Fairness
---------------------------------------------------------------------------
Cmds == {"PING", "QUERY", "RESPONSE", "UNKNOWN", "PUNCH_HOLE", "DATA"}
Info == [sn : Devices \cup {NoAddr}, addr : Addresses \cup {NoAddr}]
Message == [cmd : Cmds, from : Addresses \cup {Server}, to : Addresses \cup {Server},
            sn : Devices \cup {NoAddr}, info : Info, copy : BOOLEAN]

(* The state keeps its type; in particular no entry of the list and no     *)
(* hole of a router ever has the zero address.                             *)
TypeOK ==
  /\ list \in Seq([sn : Devices, addr : Addresses])
  /\ pc \in [Devices -> {"starting", "idle", "sleeping"}]
  /\ asked \in [Devices -> BOOLEAN]
  /\ pending \in [Devices -> Addresses \cup {NoAddr}]
  /\ mapping \in [Devices -> Nat]
  /\ holes \in [Devices -> SUBSET (Addresses \cup {Server})]
  /\ net \subseteq Message
  /\ pinged \subseteq Devices \X Addresses /\ got \subseteq Devices
  /\ faults \in 0 .. MaxFaults /\ disturbed \subseteq Devices

(* Whatever is lost, repeated or restarted, an address the server hands    *)
(* out and a peer sends to is one a peer has pinged from, or the zero      *)
(* address of a source the server did not find, which only a punch command *)
(* carries and nobody sends to.                                            *)
AddressProvenance ==
  /\ \A m \in net :
       /\ m.cmd \in {"RESPONSE", "PUNCH_HOLE"} =>
            \/ <<m.info.sn, m.info.addr>> \in pinged
            \/ m.cmd = "PUNCH_HOLE" /\ m.info = NoInfo
       /\ m.cmd \in {"RESPONSE", "DATA", "PUNCH_HOLE"} =>
            \E d \in Devices : <<d, m.to>> \in pinged
  /\ \A d \in Devices : holes[d] \ {Server} \subseteq {p[2] : p \in pinged}

(* An asker that registered once, with at most one registration of Target  *)
(* after its own, is told Target's newest address, and Target the asker's: *)
(* repeated entries, which process_ping_cmd() does not prevent (its TODO,  *)
(* p2p_transfer_server.c:46), hide neither from the loop over the list.    *)
Entries(sn) == MatchesOf({sn})
NewestOf(sn) == list[Min(Entries(sn))]

LookupFinds ==
  \A src \in Askers :
    \A k \in Entries(src) :
      ( /\ Cardinality(Entries(src)) = 1 /\ Entries(Target) # {}
        /\ Cardinality({l \in Entries(Target) : l < k}) <= 1 ) =>
      /\ Found(Target, src, Target) = NewestOf(Target)
      /\ Found(src, src, Target) = list[k]

(* Every asker's data reaches Target unless something went wrong for this  *)
(* asker: it or Target died or registered twice, one of its own datagrams  *)
(* was lost, it asked before both were registered, or its data overtook    *)
(* the punch command.  What happens to the other askers does not matter.   *)
RendezvousWorks == \A d \in Askers : <>(d \in disturbed \cup got)
===========================================================================
