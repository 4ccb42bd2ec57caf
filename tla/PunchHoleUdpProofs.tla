------------------------ MODULE PunchHoleUdpProofs ------------------------
(***************************************************************************)
(* For any number of devices and any number of losses, repetitions and *)
(* restarts: the server hands out, and the peers send to, nothing but  *)
(* addresses a ping came from.                                             *)
(***************************************************************************)
EXTENDS PunchHoleUdp, SetInduction, TLAPS

Known(a) == \E d \in Devices : <<d, a>> \in pinged

(* What each datagram may carry: a query comes from where its sender has   *)
(* pinged from, and so its answer goes there.                              *)
MessageKnown(m) ==
  /\ m \in Message
  /\ m.cmd \in {"PING", "QUERY"} => m.from \in Addresses /\ Known(m.from)
  /\ m.cmd = "PING" => m.info.sn \in Devices /\ <<m.info.sn, m.from>> \in pinged
  /\ m.cmd \notin {"PING", "QUERY"} => Known(m.to)
  /\ m.cmd \in {"PING", "QUERY", "DATA"} => m.sn \in Devices
  /\ m.cmd = "RESPONSE" => <<m.info.sn, m.info.addr>> \in pinged
  /\ m.cmd = "PUNCH_HOLE" => m.info = NoInfo \/ <<m.info.sn, m.info.addr>> \in pinged

ListKnown == \A k \in DOMAIN list : <<list[k].sn, list[k].addr>> \in pinged
NetKnown == \A m \in net : MessageKnown(m)
HolesKnown == \A d \in Devices : \A a \in holes[d] : a = Server \/ Known(a)

(* A peer past its ping has pinged from the address it has now: the router *)
(* gives it another only when it starts again.                             *)
PeersKnown ==
  \A d \in Devices :
    /\ mapping[d] >= 1
    /\ pc[d] \in {"idle", "sleeping"} => <<d, AddrOf(d)>> \in pinged
    /\ pc[d] = "sleeping" => Known(pending[d])

IInv == TypeOK /\ ListKnown /\ NetKnown /\ HolesKnown /\ PeersKnown
---------------------------------------------------------------------------
LEMMA NoInfoType == NoInfo \in Info
BY DEF NoInfo, Info

LEMMA EntryOf ==
  ASSUME NEW S, NEW s \in Seq(S), NEW k \in DOMAIN s
  PROVE  s[k] \in S
OBVIOUS

(* What the server finds is nothing, or an entry of the list.              *)
LEMMA FoundKnown ==
  ASSUME TypeOK, ListKnown, NEW sn, NEW src, NEW query
  PROVE  LET f == Found(sn, src, query)
         IN  /\ f \in Info
             /\ f = NoInfo \/ (f.addr \in Addresses /\ <<f.sn, f.addr>> \in pinged)
<1> DEFINE copied == Met(src, query) \cap MatchesOf({sn})
           last == {k \in copied : \A l \in copied : l <= k}
<1>1. CASE last = {}
  BY <1>1, NoInfoType DEF Found
<1>2. CASE last # {}
  <2>1. PICK k \in last : k = CHOOSE l \in last : TRUE
    BY <1>2
  <2>2. k \in DOMAIN list
    BY DEF MatchesOf
  <2>3. list[k] \in [sn : Devices, addr : Addresses]
    <3>1. list \in Seq([sn : Devices, addr : Addresses])
      BY DEF TypeOK
    <3> QED
      BY <2>2, <3>1, EntryOf
  <2>4. Found(sn, src, query) = list[k]
    BY <1>2, <2>1 DEF Found
  <2> QED
    BY <2>2, <2>3, <2>4 DEF ListKnown, Info
<1> QED
  BY <1>1, <1>2

(* Pings are never forgotten.                                              *)
LEMMA KnownGrows ==
  ASSUME pinged \subseteq pinged', NEW m, MessageKnown(m)
  PROVE  MessageKnown(m)'
BY DEF MessageKnown, Known

LEMMA NetGrows ==
  ASSUME pinged \subseteq pinged', NetKnown, NEW new,
         net' \subseteq net \cup new, \A m \in new : MessageKnown(m)'
  PROVE  NetKnown' /\ net' \subseteq Message
BY KnownGrows DEF NetKnown, MessageKnown

(* What a peer that is up sends.                                           *)
LEMMA SendToKnown ==
  ASSUME IInv, pinged \subseteq pinged', NEW d \in Devices,
         NEW to \in Addresses \cup {Server},
         NEW cmd \in Cmds, NEW info \in Info, NEW who, who \subseteq Devices,
         to = Server \/ Known(to)',
         NEW m, m = Datagram(cmd, AddrOf(d), to, d, info), MessageKnown(m)',
         SendTo(d, to, cmd, info, who)
  PROVE  /\ NetKnown' /\ net' \subseteq Message
         /\ HolesKnown' /\ holes' \in [Devices -> SUBSET (Addresses \cup {Server})]
         /\ faults' \in 0 .. MaxFaults /\ disturbed' \subseteq Devices
<1>1. NetKnown' /\ net' \subseteq Message
  <2>1. net' \subseteq net \cup {m}
    BY DEF SendTo
  <2>2. \A n \in {m} : MessageKnown(n)'
    OBVIOUS
  <2> QED
    BY <2>1, <2>2, NetGrows DEF IInv
<1>2. HolesKnown' /\ holes' \in [Devices -> SUBSET (Addresses \cup {Server})]
  <2>1. /\ holes \in [Devices -> SUBSET (Addresses \cup {Server})]
        /\ \A e \in Devices : \A a \in holes[e] : a = Server \/ Known(a)'
    BY DEF IInv, TypeOK, HolesKnown, Known
  <2>2. holes' = holes \/ holes' = [holes EXCEPT ![d] = @ \cup {to}]
    BY DEF SendTo
  <2>3. holes' \in [Devices -> SUBSET (Addresses \cup {Server})]
    BY <2>1, <2>2
  <2>4. \A e \in Devices : \A a \in holes'[e] : a \in holes[e] \/ a = to
    BY <2>1, <2>2
  <2>5. HolesKnown'
    BY <2>1, <2>4 DEF HolesKnown
  <2> QED
    BY <2>3, <2>5
<1>3. faults' \in 0 .. MaxFaults /\ disturbed' \subseteq Devices
  BY DevicesAssumption DEF SendTo, IInv, TypeOK, NoFault, Fault
<1> QED
  BY <1>1, <1>2, <1>3

LEMMA AddressOf ==
  ASSUME IInv, NEW d \in Devices
  PROVE  AddrOf(d) \in Addresses
<1>1. mapping[d] \in Nat /\ mapping[d] >= 1
  BY DEF IInv, TypeOK, PeersKnown
<1> QED
  BY <1>1 DEF AddrOf, Addresses

LEMMA KnownAddress ==
  ASSUME TypeOK, NEW a, Known(a)
  PROVE  a \in Addresses
BY DEF TypeOK, Known
LEMMA PrependOk ==
  ASSUME NEW S, NEW s \in Seq(S), NEW e \in S
  PROVE  /\ <<e>> \o s \in Seq(S)
         /\ \A k \in DOMAIN (<<e>> \o s) :
              (<<e>> \o s)[k] = e \/ \E l \in DOMAIN s : (<<e>> \o s)[k] = s[l]
OBVIOUS
---------------------------------------------------------------------------
(* At the start nobody has pinged, and the invariant holds of the empty    *)
(* list, network and filters.                                              *)
THEOREM InitIInv == Init => IInv
<1> SUFFICES ASSUME Init PROVE IInv
  OBVIOUS
<1>1. list \in Seq([sn : Devices, addr : Addresses]) /\ ListKnown
  BY DEF Init, ListKnown
<1>2. TypeOK
  BY <1>1, DevicesAssumption DEF Init, TypeOK
<1>3. NetKnown /\ HolesKnown /\ PeersKnown
  BY DEF Init, NetKnown, HolesKnown, PeersKnown
<1> QED
  BY <1>1, <1>2, <1>3 DEF IInv

(* The steps of a peer.                                                    *)
LEMMA RestartKeeps == ASSUME IInv, NEW d \in Devices, Restart(d) PROVE IInv'
<1>1. net' \subseteq net /\ UNCHANGED <<list, pending, pinged, got>>
  BY DEF Restart
<1>2. NetKnown' /\ net' \subseteq Message
  BY <1>1, KnownGrows DEF IInv, NetKnown, TypeOK
<1>3. pc' \in [Devices -> {"starting", "idle", "sleeping"}] /\ asked' \in [Devices -> BOOLEAN]
  BY DEF IInv, TypeOK, Restart
<1>4. mapping' = mapping \/ mapping' = [mapping EXCEPT ![d] = mapping[d] + 1]
  BY DEF Restart
<1>5. mapping \in [Devices -> Nat] /\ mapping[d] + 1 \in Nat /\ mapping[d] + 1 >= 1 /\ mapping[d] >= 1
  <2>1. mapping \in [Devices -> Nat]
    BY DEF IInv, TypeOK
  <2>2. mapping[d] \in Nat /\ mapping[d] >= 1
    BY <2>1 DEF IInv, PeersKnown
  <2> QED
    BY <2>1, <2>2
<1>6. mapping' \in [Devices -> Nat]
  BY <1>4, <1>5
<1>7. holes' \in [Devices -> SUBSET (Addresses \cup {Server})]
  BY DEF IInv, TypeOK, Restart
<1>8. faults' \in 0 .. MaxFaults /\ disturbed' \subseteq Devices
  BY DevicesAssumption DEF IInv, TypeOK, Restart, Fault, Hurt, Askers
<1>9. TypeOK'
  BY <1>1, <1>2, <1>3, <1>6, <1>7, <1>8 DEF IInv, TypeOK
<1>10. ListKnown' /\ HolesKnown'
  BY <1>1 DEF IInv, TypeOK, ListKnown, HolesKnown, Known, Restart
<1>11. PeersKnown'
  <2> SUFFICES ASSUME NEW e \in Devices
               PROVE  /\ mapping'[e] >= 1
                      /\ pc'[e] \in {"idle", "sleeping"} => <<e, AddrOf(e)'>> \in pinged'
                      /\ pc'[e] = "sleeping" => Known(pending[e])'
    BY DEF PeersKnown
  <2>1. CASE e = d
    BY <1>4, <1>5, <2>1 DEF IInv, TypeOK, Restart
  <2>2. CASE e # d
    <3>1. pc'[e] = pc[e] /\ mapping'[e] = mapping[e]
      BY <2>2 DEF IInv, TypeOK, Restart
    <3> QED
      BY <1>1, <3>1 DEF IInv, PeersKnown, AddrOf, Known
  <2> QED
    BY <2>1, <2>2
<1> QED
  BY <1>2, <1>9, <1>10, <1>11 DEF IInv

LEMMA PingKeeps == ASSUME IInv, NEW d \in Devices, Ping(d) PROVE IInv'
<1> DEFINE info == [sn |-> d, addr |-> NoAddr]
           m == Datagram("PING", AddrOf(d), Server, d, info)
<1>1. AddrOf(d) \in Addresses
  BY AddressOf DEF Ping
<1>2. info \in Info /\ m \in Message
  BY <1>1 DEF Info, Message, Datagram, Cmds
<1>3. pinged' = pinged \cup {<<d, AddrOf(d)>>}
  BY DEF Ping
<1>4. ASSUME NEW n, n = m PROVE MessageKnown(n)'
  BY <1>1, <1>2, <1>3, <1>4 DEF MessageKnown, Datagram, Known
<1>5. Hurt(d) \subseteq Devices
  BY DEF Hurt, Askers
<1>6. /\ NetKnown' /\ net' \subseteq Message
      /\ HolesKnown' /\ holes' \in [Devices -> SUBSET (Addresses \cup {Server})]
      /\ faults' \in 0 .. MaxFaults /\ disturbed' \subseteq Devices
  <2>1. PICK n : n = m
    OBVIOUS
  <2>2. SendTo(d, Server, "PING", info, Hurt(d))
    BY DEF Ping
  <2>3. pinged \subseteq pinged' /\ "PING" \in Cmds
    BY <1>3 DEF Cmds
  <2> HIDE DEF info, m
  <2> QED
    BY <1>1, <1>2, <1>4, <1>5, <2>1, <2>2, <2>3, SendToKnown DEF m
<1>7. TypeOK'
  <2>1. pc' \in [Devices -> {"starting", "idle", "sleeping"}]
    BY DEF IInv, TypeOK, Ping
  <2>2. pinged' \subseteq Devices \X Addresses
    BY <1>1, <1>3 DEF IInv, TypeOK
  <2> QED
    BY <1>6, <2>1, <2>2 DEF IInv, TypeOK, Ping
<1>8. ListKnown'
  BY <1>3 DEF IInv, ListKnown, Ping
<1>9. PeersKnown'
  BY <1>3 DEF IInv, TypeOK, PeersKnown, AddrOf, Known, Ping
<1> QED
  BY <1>6, <1>7, <1>8, <1>9 DEF IInv

LEMMA AskKeeps == ASSUME IInv, NEW d \in Devices, Ask(d) PROVE IInv'
<1> DEFINE info == [sn |-> Target, addr |-> NoAddr]
           m == Datagram("QUERY", AddrOf(d), Server, d, info)
<1>1. AddrOf(d) \in Addresses /\ Known(AddrOf(d)) /\ d \in Askers
  BY AddressOf DEF Ask, IInv, PeersKnown, Known, Askers
<1>2. info \in Info /\ m \in Message
  BY <1>1, DevicesAssumption DEF Info, Message, Datagram, Cmds
<1>3. pinged' = pinged
  BY DEF Ask
<1>4. ASSUME NEW n, n = m PROVE MessageKnown(n)'
  BY <1>1, <1>2, <1>3, <1>4 DEF MessageKnown, Datagram, Known
<1>6. /\ NetKnown' /\ net' \subseteq Message
      /\ HolesKnown' /\ holes' \in [Devices -> SUBSET (Addresses \cup {Server})]
      /\ faults' \in 0 .. MaxFaults /\ disturbed' \subseteq Devices
  <2>1. PICK n : n = m
    OBVIOUS
  <2>2. SendTo(d, Server, "QUERY", info, {d})
    BY DEF Ask
  <2>3. pinged \subseteq pinged' /\ "QUERY" \in Cmds
    BY <1>3 DEF Cmds
  <2> HIDE DEF info, m
  <2> QED
    BY <1>1, <1>2, <1>4, <2>1, <2>2, <2>3, SendToKnown DEF m
<1>7. TypeOK'
  BY <1>6 DEF IInv, TypeOK, Ask
<1>8. ListKnown' /\ PeersKnown'
  BY DEF IInv, ListKnown, PeersKnown, AddrOf, Known, Ask
<1> QED
  BY <1>6, <1>7, <1>8 DEF IInv

LEMMA PunchArrivesKeeps ==
  ASSUME IInv, NEW d \in Devices, NEW m \in net, PunchArrives(d, m)
  PROVE  IInv'
<1>1. /\ m.info \in Info
      /\ m.info = NoInfo \/ <<m.info.sn, m.info.addr>> \in pinged
  BY DEF IInv, NetKnown, MessageKnown, PunchArrives, Message
<1>2. /\ UNCHANGED <<pinged, list, pc, asked, mapping, pending, got>>
      /\ net' \subseteq net
  BY DEF PunchArrives
<1>3. NetKnown' /\ net' \subseteq Message
  BY <1>2, KnownGrows DEF IInv, NetKnown, TypeOK
<1>4. m.info # NoInfo => Known(m.info.addr) /\ m.info.addr \in Addresses /\ m.info.sn \in Devices
  BY <1>1 DEF IInv, TypeOK, Known
<1>5. holes' = holes \/ (m.info # NoInfo /\ holes' = [holes EXCEPT ![d] = @ \cup {m.info.addr}])
  BY DEF PunchArrives
<1>6. HolesKnown' /\ holes' \in [Devices -> SUBSET (Addresses \cup {Server})]
  <2>1. holes \in [Devices -> SUBSET (Addresses \cup {Server})]
    BY DEF IInv, TypeOK
  <2>2. holes' \in [Devices -> SUBSET (Addresses \cup {Server})]
    BY <1>4, <1>5, <2>1
  <2>3. \A e \in Devices : \A a \in holes'[e] : a \in holes[e] \/ Known(a)
    BY <1>4, <1>5, <2>1
  <2> QED
    BY <1>2, <2>2, <2>3 DEF IInv, HolesKnown, Known
<1>7. faults' \in 0 .. MaxFaults /\ disturbed' \subseteq Devices
  BY <1>4, DevicesAssumption DEF IInv, TypeOK, PunchArrives, NoFault, Fault
<1>8. TypeOK'
  BY <1>2, <1>3, <1>6, <1>7 DEF IInv, TypeOK
<1>9. ListKnown' /\ PeersKnown'
  BY <1>2 DEF IInv, ListKnown, PeersKnown, AddrOf, Known
<1> QED
  BY <1>3, <1>6, <1>8, <1>9 DEF IInv

LEMMA ResponseArrivesKeeps ==
  ASSUME IInv, NEW d \in Devices, NEW m \in net, ResponseArrives(d, m)
  PROVE  IInv'
<1>1. <<m.info.sn, m.info.addr>> \in pinged
  BY DEF IInv, NetKnown, MessageKnown, ResponseArrives
<1>2. m.info.addr \in Addresses /\ Known(m.info.addr)
  BY <1>1 DEF IInv, TypeOK, Known
<1>3. NetKnown'
  BY KnownGrows DEF IInv, NetKnown, ResponseArrives
<1>4. TypeOK'
  <2>1. pc' \in [Devices -> {"starting", "idle", "sleeping"}]
    BY DEF IInv, TypeOK, ResponseArrives
  <2>2. pending' \in [Devices -> Addresses \cup {NoAddr}]
    BY <1>2 DEF IInv, TypeOK, ResponseArrives
  <2> QED
    BY <2>1, <2>2 DEF IInv, TypeOK, ResponseArrives
<1>5. ListKnown' /\ HolesKnown'
  BY DEF IInv, ListKnown, HolesKnown, Known, ResponseArrives
<1>6. PeersKnown'
  BY <1>2 DEF IInv, TypeOK, PeersKnown, AddrOf, Known, ResponseArrives, Reads
<1> QED
  BY <1>3, <1>4, <1>5, <1>6 DEF IInv

LEMMA OtherArrivesKeeps ==
  ASSUME IInv, NEW d \in Devices, NEW m \in net, OtherArrives(d, m)
  PROVE  IInv'
<1>1. NetKnown'
  BY KnownGrows DEF IInv, NetKnown, OtherArrives, peerVars
<1>2. TypeOK'
  <2>1. m.cmd = "DATA" => m.sn \in Devices
    BY DEF IInv, NetKnown, MessageKnown
  <2>2. got' \subseteq Devices
    BY <2>1 DEF IInv, TypeOK, OtherArrives
  <2> QED
    BY <2>2 DEF IInv, TypeOK, OtherArrives, peerVars
<1>3. ListKnown' /\ HolesKnown' /\ PeersKnown'
  BY DEF IInv, ListKnown, HolesKnown, PeersKnown, AddrOf, Known, OtherArrives, peerVars
<1> QED
  BY <1>1, <1>2, <1>3 DEF IInv

LEMMA WakesUpKeeps == ASSUME IInv, NEW d \in Devices, WakesUp(d) PROVE IInv'
<1> DEFINE to == pending[d]
           n == Datagram("DATA", AddrOf(d), to, d, NoInfo)
<1>1. Known(to) /\ to \in Addresses /\ pc[d] = "sleeping"
  BY DEF IInv, TypeOK, PeersKnown, Known, WakesUp
<1>2. pinged' = pinged /\ list' = list /\ mapping' = mapping /\ pending' = pending
  BY DEF WakesUp
<1>3. /\ NetKnown' /\ net' \subseteq Message
      /\ HolesKnown' /\ holes' \in [Devices -> SUBSET (Addresses \cup {Server})]
      /\ faults' \in 0 .. MaxFaults /\ disturbed' \subseteq Devices
  <2>2. AddrOf(d) \in Addresses
    BY <1>1, AddressOf
  <2>3. n \in Message
    BY <1>1, <2>2, NoInfoType DEF Message, Datagram, Cmds
  <2>4. ASSUME NEW o, o = n PROVE MessageKnown(o)'
    BY <1>1, <1>2, <2>3, <2>4 DEF MessageKnown, Datagram, Known
  <2>6. SendTo(d, to, "DATA", NoInfo, {d})
    BY DEF WakesUp
  <2>7. PICK t, o : t = to /\ o = n
    OBVIOUS
  <2>8. pinged \subseteq pinged' /\ "DATA" \in Cmds
    BY <1>2 DEF Cmds
  <2>9. Known(t)'
    BY <1>1, <1>2, <2>7 DEF Known
  <2> HIDE DEF to, n
  <2> QED
    BY <1>1, <2>2, <2>4, <2>6, <2>7, <2>8, <2>9, NoInfoType, SendToKnown DEF n
<1>4. TypeOK'
  BY <1>3 DEF IInv, TypeOK, WakesUp
<1>5. ListKnown'
  BY <1>2 DEF IInv, ListKnown
<1>6. PeersKnown'
  BY <1>2 DEF IInv, TypeOK, PeersKnown, AddrOf, Known, WakesUp
<1> QED
  BY <1>3, <1>4, <1>5, <1>6 DEF IInv
(* The steps of the server.                                                *)
LEMMA PingArrivesKeeps == ASSUME IInv, NEW m \in net, PingArrives(m) PROVE IInv'
<1> DEFINE S == [sn : Devices, addr : Addresses]
           e == Registration(m)
<1>1. /\ m.info.sn \in Devices /\ m.from \in Addresses
      /\ <<m.info.sn, m.from>> \in pinged
  BY DEF IInv, NetKnown, MessageKnown, PingArrives
<1>2. e \in S /\ e.sn = m.info.sn /\ e.addr = m.from
  BY <1>1 DEF Registration
<1>3. list \in Seq(S) /\ list' = <<e>> \o list /\ pinged' = pinged
  BY DEF IInv, TypeOK, PingArrives
<1>4. list' \in Seq(S) /\ ListKnown'
  <2> HIDE DEF S, e
  <2>1. /\ <<e>> \o list \in Seq(S)
        /\ \A k \in DOMAIN (<<e>> \o list) :
              (<<e>> \o list)[k] = e \/ \E l \in DOMAIN list : (<<e>> \o list)[k] = list[l]
    BY <1>2, <1>3, PrependOk
  <2> QED
    BY <1>1, <1>2, <1>3, <2>1 DEF IInv, ListKnown
<1>5. NetKnown'
  BY KnownGrows DEF IInv, NetKnown, PingArrives, peerVars
<1>6. TypeOK'
  BY <1>4 DEF IInv, TypeOK, PingArrives, peerVars
<1>7. HolesKnown' /\ PeersKnown'
  BY DEF IInv, HolesKnown, PeersKnown, AddrOf, Known, PingArrives, peerVars
<1> QED
  BY <1>4, <1>5, <1>6, <1>7 DEF IInv

LEMMA QueryArrivesKeeps == ASSUME IInv, NEW m \in net, QueryArrives(m) PROVE IInv'
<1> DEFINE query  == Found(m.info.sn, m.sn, m.info.sn)
           src    == Found(m.sn, m.sn, m.info.sn)
           punch  == IF query # NoInfo THEN {PunchCmd(src, query)} ELSE {}
           answer == Datagram(AnswerCmd(query), Server, m.from, NoAddr, query)
<1>1. m.from \in Addresses /\ Known(m.from) /\ m.sn \in Devices
  BY DEF IInv, NetKnown, MessageKnown, QueryArrives
<1>2. /\ query \in Info
      /\ query = NoInfo \/ (query.addr \in Addresses /\ <<query.sn, query.addr>> \in pinged)
  BY FoundKnown DEF IInv
<1>3. /\ src \in Info
      /\ src = NoInfo \/ (src.addr \in Addresses /\ <<src.sn, src.addr>> \in pinged)
  BY FoundKnown DEF IInv
<1>4. pinged' = pinged /\ list' = list /\ UNCHANGED peerVars /\ got' = got
  BY DEF QueryArrives
<1>5. net' \subseteq net \cup punch \cup {answer}
  BY DEF QueryArrives
<1>6. MessageKnown(answer)
  <2> HIDE DEF query
  <2>1. answer \in Message
    BY <1>1, <1>2 DEF Message, Datagram, Cmds, AnswerCmd
  <2> QED
    BY <1>1, <1>2, <2>1 DEF MessageKnown, Datagram, AnswerCmd
<1>7. \A n \in punch : MessageKnown(n)
  <2> HIDE DEF query, src
  <2> SUFFICES ASSUME query # NoInfo PROVE MessageKnown(PunchCmd(src, query))
    OBVIOUS
  <2>1. query.addr \in Addresses /\ Known(query.addr)
    BY <1>2 DEF IInv, TypeOK, Known
  <2>2. PunchCmd(src, query) \in Message
    BY <1>3, <2>1 DEF Message, Datagram, Cmds, PunchCmd
  <2> QED
    BY <1>3, <2>1, <2>2 DEF MessageKnown, Datagram, PunchCmd
<1> HIDE DEF query, src, punch, answer
<1>8. \A n \in net' : MessageKnown(n)
  BY <1>5, <1>6, <1>7 DEF IInv, NetKnown
<1>9. NetKnown' /\ net' \subseteq Message
  BY <1>4, <1>8 DEF NetKnown, MessageKnown, Known
<1>10. faults' \in 0 .. MaxFaults /\ disturbed' \subseteq Devices
  BY <1>1, DevicesAssumption DEF IInv, TypeOK, QueryArrives, Fault
<1>11. TypeOK'
  BY <1>4, <1>9, <1>10 DEF IInv, TypeOK, peerVars
<1>12. ListKnown' /\ HolesKnown' /\ PeersKnown'
  BY <1>4 DEF IInv, ListKnown, HolesKnown, PeersKnown, AddrOf, Known, peerVars
<1> QED
  BY <1>9, <1>11, <1>12 DEF IInv

LEMMA ServerRestartsKeeps == ASSUME IInv, ServerRestarts PROVE IInv'
<1>1. list' = <<>> /\ UNCHANGED <<peerVars, net, pinged, got>>
  BY DEF ServerRestarts
<1>2. list' \in Seq([sn : Devices, addr : Addresses]) /\ ListKnown'
  BY <1>1 DEF ListKnown
<1>3. faults' \in 0 .. MaxFaults /\ disturbed' \subseteq Devices
  BY DevicesAssumption DEF IInv, TypeOK, ServerRestarts, Fault
<1>4. TypeOK'
  BY <1>1, <1>2, <1>3 DEF IInv, TypeOK, peerVars
<1>5. NetKnown'
  BY <1>1, KnownGrows DEF IInv, NetKnown
<1>6. HolesKnown' /\ PeersKnown'
  BY <1>1 DEF IInv, HolesKnown, PeersKnown, AddrOf, Known, peerVars
<1> QED
  BY <1>2, <1>4, <1>5, <1>6 DEF IInv
(* The steps of the network.                                               *)
LEMMA NetworkKeeps ==
  ASSUME IInv, NEW m \in net, Lose(m) \/ Repeat(m) \/ Filtered(m)
  PROVE  IInv'
<1> DEFINE copy == [m EXCEPT !.copy = TRUE]
<1>1. UNCHANGED <<list, peerVars, pinged, got>> /\ net' \subseteq net \cup {copy}
  BY DEF Lose, Repeat, Filtered
<1>2. MessageKnown(m) /\ m \in Message
  BY DEF IInv, NetKnown, MessageKnown
<1>3. /\ copy \in Message /\ copy.cmd = m.cmd /\ copy.from = m.from /\ copy.to = m.to
      /\ copy.sn = m.sn /\ copy.info = m.info
  BY <1>2 DEF Message
<1>4. MessageKnown(copy)
  <2> HIDE DEF copy
  <2> QED
    BY <1>2, <1>3 DEF MessageKnown
<1> HIDE DEF copy
<1>5. \A n \in net' : MessageKnown(n)
  BY <1>1, <1>4 DEF IInv, NetKnown
<1>6. NetKnown' /\ net' \subseteq Message
  BY <1>1, <1>5 DEF NetKnown, MessageKnown, Known
<1>7. faults' \in 0 .. MaxFaults /\ disturbed' \subseteq Devices
  <2>1. CASE Lose(m)
    <3>1. m.cmd = "PING" => Hurt(m.sn) \subseteq Devices
      BY <1>2 DEF Hurt, Askers, MessageKnown
    <3>2. Concerned(m) \subseteq Devices
      BY <3>1 DEF Concerned, Askers
    <3> QED
      BY <2>1, <3>2, DevicesAssumption DEF IInv, TypeOK, Lose, Fault
  <2>2. CASE Repeat(m)
    <3>1. m.cmd = "PING" => Hurt(m.sn) \subseteq Devices
      BY <1>2 DEF Hurt, Askers, MessageKnown
    <3> QED
      BY <2>2, <3>1, DevicesAssumption DEF IInv, TypeOK, Repeat, Fault
  <2>3. CASE Filtered(m)
    BY <2>3, <1>2 DEF IInv, TypeOK, Filtered, TooEarly, MessageKnown
  <2> QED
    BY <2>1, <2>2, <2>3
<1>8. TypeOK'
  BY <1>1, <1>6, <1>7 DEF IInv, TypeOK, peerVars
<1>9. ListKnown' /\ HolesKnown' /\ PeersKnown'
  BY <1>1 DEF IInv, ListKnown, HolesKnown, PeersKnown, AddrOf, Known, peerVars
<1> QED
  BY <1>6, <1>8, <1>9 DEF IInv

(* Every callback of a peer, every message the server reads, every fault   *)
(* and every datagram lost or repeated keeps the invariant.                *)
THEOREM NextIInv == IInv /\ [Next]_vars => IInv'
<1> SUFFICES ASSUME IInv, [Next]_vars PROVE IInv'
  OBVIOUS
<1>1. ASSUME NEW d \in Devices, Restart(d) PROVE IInv'
  BY <1>1, RestartKeeps
<1>3. ASSUME NEW d \in Devices, Ping(d) PROVE IInv'
  BY <1>3, PingKeeps
<1>4. ASSUME NEW d \in Devices, Ask(d) PROVE IInv'
  BY <1>4, AskKeeps
<1>5. ASSUME NEW d \in Devices, PeerReads(d) PROVE IInv'
  BY <1>5, PunchArrivesKeeps, ResponseArrivesKeeps, OtherArrivesKeeps DEF PeerReads
<1>6. ASSUME NEW d \in Devices, WakesUp(d) PROVE IInv'
  BY <1>6, WakesUpKeeps
<1>7. CASE ServerReads
  BY <1>7, PingArrivesKeeps, QueryArrivesKeeps DEF ServerReads
<1>8. CASE ServerRestarts
  BY <1>8, ServerRestartsKeeps
<1>9. ASSUME NEW m \in net, Lose(m) \/ Repeat(m) PROVE IInv'
  BY <1>9, NetworkKeeps
<1>10. CASE RouterDrops
  BY <1>10, NetworkKeeps DEF RouterDrops
<1>11. CASE UNCHANGED vars
  <2>1. /\ UNCHANGED <<list, pc, asked, pending, mapping, holes>>
        /\ UNCHANGED <<net, pinged, got, faults, disturbed>>
    BY <1>11 DEF vars, peerVars
  <2>2. NetKnown'
    BY <2>1, KnownGrows DEF IInv, NetKnown
  <2> QED
    BY <2>1, <2>2 DEF IInv, TypeOK, ListKnown, HolesKnown, PeersKnown, AddrOf, Known
<1> QED
  BY <1>1, <1>3, <1>4, <1>5, <1>6, <1>7, <1>8, <1>9, <1>10, <1>11 DEF Next, PeerStep

(* An address is in the list, in a datagram, in a router's filter or with  *)
(* a sleeping peer only if a peer has pinged from it.                      *)
THEOREM Rendezvous == Spec => []IInv
<1>1. Init => IInv
  BY InitIInv
<1>2. IInv /\ [Next]_vars => IInv'
  BY NextIInv
<1> QED
  BY <1>1, <1>2, PTL DEF Spec

(* The state keeps its type, so no entry of the list and no hole of a      *)
(* router has the zero address.                                            *)
THEOREM PunchTypeCorrect == Spec => []TypeOK
<1>1. IInv => TypeOK
  BY DEF IInv
<1> QED
  BY <1>1, Rendezvous, PTL

(* The server hands out, and peers send to, only addresses pinged from.    *)
THEOREM OnlyPingedAddresses == Spec => []AddressProvenance
<1>1. IInv => AddressProvenance
  <2> SUFFICES ASSUME IInv PROVE AddressProvenance
    OBVIOUS
  <2>1. ASSUME NEW m \in net, m.cmd \in {"RESPONSE", "PUNCH_HOLE"}
        PROVE  \/ <<m.info.sn, m.info.addr>> \in pinged
               \/ m.cmd = "PUNCH_HOLE" /\ m.info = NoInfo
    BY <2>1 DEF IInv, NetKnown, MessageKnown
  <2>2. ASSUME NEW m \in net, m.cmd \in {"RESPONSE", "DATA", "PUNCH_HOLE"}
        PROVE  \E d \in Devices : <<d, m.to>> \in pinged
    BY <2>2 DEF IInv, NetKnown, MessageKnown, Known
  <2>3. ASSUME NEW d \in Devices, NEW a \in holes[d] \ {Server}
        PROVE  \E p \in pinged : a = p[2]
    <3>1. PICK e \in Devices : <<e, a>> \in pinged
      BY <2>3 DEF IInv, HolesKnown, Known
    <3>2. <<e, a>>[2] = a
      OBVIOUS
    <3> QED
      BY <3>1, <3>2
  <2> QED
    BY <2>1, <2>2, <2>3 DEF AddressProvenance
<1> QED
  BY <1>1, Rendezvous, PTL
---------------------------------------------------------------------------
LEMMA AtMostOne ==
  ASSUME NEW ks, IsFiniteSet(ks), Cardinality(ks) <= 1
  PROVE  \A k, l \in ks : k = l
<1>1. Cardinality(ks) \in Nat
  BY FS_CardinalityType
<1>2. Cardinality(ks) = 0 \/ Cardinality(ks) = 1
  BY <1>1
<1>3. ks = {} \/ \E x : ks = {x}
  BY <1>2, FS_EmptySet, FS_Singleton, Zenon
<1> QED
  BY <1>3

LEMMA AtLeastTwo ==
  ASSUME NEW ks, IsFiniteSet(ks), NEW k \in ks, NEW l \in ks, k # l
  PROVE  ~ (Cardinality(ks) < 2)
<1>1. Cardinality(ks) \in Nat
  BY FS_CardinalityType
<1>2. ~ (Cardinality(ks) <= 1)
  BY AtMostOne
<1> QED
  BY <1>1, <1>2

LEMMA FewerThanTwo ==
  ASSUME NEW ks, \A k, l \in ks : k = l
  PROVE  Cardinality(ks) < 2
<1>1. ks = {} \/ \E x : ks = {x}
  OBVIOUS
<1>2. Cardinality(ks) = 0 \/ Cardinality(ks) = 1
  BY <1>1, FS_EmptySet, FS_Singleton, Zenon
<1> QED
  BY <1>2

(* What the search has copied of a device of which it met one entry. *)
LEMMA FoundOne ==
  ASSUME NEW sn, NEW src, NEW query, NEW k \in DOMAIN list, DOMAIN list \subseteq Int,
         Met(src, query) \cap MatchesOf({sn}) = {k}
  PROVE  Found(sn, src, query) = list[k]
<1> DEFINE copied == Met(src, query) \cap MatchesOf({sn})
           last   == {x \in copied : \A l \in copied : l <= x}
           pick(ks) == IF ks = {} THEN NoInfo ELSE list[CHOOSE x \in ks : TRUE]
<1>1. Found(sn, src, query) = pick(last)
  BY DEF Found
<1>2. copied = {k}
  OBVIOUS
<1>3. last = {k}
  <2> HIDE DEF copied
  <2> QED
    BY <1>2
<1> HIDE DEF last
<1>4. pick({k}) = list[k]
  OBVIOUS
<1> HIDE DEF pick
<1> QED
  BY <1>1, <1>3, <1>4

LEMMA LookupWorks == ASSUME TypeOK PROVE LookupFinds
<1> SUFFICES ASSUME NEW src \in Askers, NEW k \in Entries(src),
                    Cardinality(Entries(src)) = 1, Entries(Target) # {},
                    Cardinality({l \in Entries(Target) : l < k}) <= 1
             PROVE  /\ Found(Target, src, Target) = NewestOf(Target)
                    /\ Found(src, src, Target) = list[k]
  BY DEF LookupFinds
<1> DEFINE all    == MatchesOf({src, Target})
           before == {l \in Entries(Target) : l < k}
<1>1. Len(list) \in Nat /\ DOMAIN list = 1 .. Len(list)
  BY DEF TypeOK
<1>2. /\ Entries(src) \subseteq 1 .. Len(list) /\ Entries(Target) \subseteq 1 .. Len(list)
      /\ all \subseteq 1 .. Len(list) /\ all = Entries(src) \cup Entries(Target)
      /\ Entries(src) \cap Entries(Target) = {}
  BY <1>1 DEF Entries, MatchesOf, Askers
<1>3. \A ks \in SUBSET (1 .. Len(list)) : IsFiniteSet(ks)
  BY <1>1, IndexesFinite
<1>12. /\ \A l \in all : l \in Int
       /\ \A l \in Entries(src) \cup Entries(Target) : l \in all
  <2> HIDE DEF all
  <2>1. \A l \in 1 .. Len(list) : l \in Int
    BY <1>1
  <2> QED
    BY <1>2, <2>1
<1>4. Entries(src) = {k}
  BY <1>2, <1>3, AtMostOne
<1>5. \A x, y \in before : x = y
  BY <1>2, <1>3, AtMostOne
<1>6. PICK t \in Entries(Target) : \A l \in Entries(Target) : t <= l
  BY <1>1, <1>2, LeastIndex
<1>7. NewestOf(Target) = list[t]
  <2>1. \A x \in Entries(Target) : (\A l \in Entries(Target) : x <= l) => x = t
    BY <1>2, <1>6
  <2>2. Min(Entries(Target)) = t
    BY <1>6, <2>1 DEF Min
  <2> QED
    BY <2>2 DEF NewestOf
<1>8. k \in Met(src, Target) /\ t \in Met(src, Target)
  <2>1. k \in all /\ t \in all /\ k \in Int /\ t \in Int
    BY ONLY <1>4, <1>6, <1>12
  <2>2. Cardinality({l \in all : l < k}) < 2
    <3>1. \A x, y \in {l \in all : l < k} : x = y
      BY <1>2, <1>4, <1>5
    <3> QED
      BY <3>1, FewerThanTwo
  <2>3. Cardinality({l \in all : l < t}) < 2
    <3>1. \A x, y \in {l \in all : l < t} : x = y
      BY <1>2, <1>4, <1>6
    <3> QED
      BY <3>1, FewerThanTwo
  <2> QED
    BY <2>1, <2>2, <2>3 DEF Met
<1>9. ASSUME NEW x \in Met(src, Target), x \in Entries(Target) PROVE x = t
  <2>1. x \in all /\ k \in all /\ t \in all /\ x \in Int /\ t \in Int /\ k \in Int
    BY ONLY <1>4, <1>6, <1>9, <1>12
  <2>6. k # t /\ k # x
    BY <1>2, <1>9
  <2>2. Cardinality({l \in all : l < x}) < 2
    BY <1>9 DEF Met
  <2> SUFFICES ASSUME x # t PROVE FALSE
    OBVIOUS
  <2>3. t < x
    BY <1>6, <1>9, <2>1
  <2>4. k < x
    <3> SUFFICES ASSUME x < k PROVE FALSE
      BY <2>1, <2>6
    <3> QED
      BY <1>5, <1>9, <2>1, <2>3, <2>6
  <2>5. IsFiniteSet({l \in all : l < x})
    BY <1>2, <1>3
  <2> HIDE DEF all
  <2> QED
    BY <2>1, <2>2, <2>3, <2>4, <2>5, <2>6, AtLeastTwo
<1>10. /\ Met(src, Target) \cap MatchesOf({Target}) = {t}
       /\ Met(src, Target) \cap MatchesOf({src}) = {k}
  BY <1>4, <1>8, <1>9 DEF Entries
<1>11. t \in DOMAIN list /\ k \in DOMAIN list /\ DOMAIN list \subseteq Int
  BY <1>1, <1>2
<1> QED
  BY <1>7, <1>10, <1>11, FoundOne

(* However often the devices have pinged: an asker with one entry, with at  *)
(* most one entry of Target after it, is found, and so is Target's newest.  *)
THEOREM LookupHolds == Spec => []LookupFinds
<1>1. TypeOK => LookupFinds
  BY LookupWorks
<1> QED
  BY <1>1, PunchTypeCorrect, PTL
===========================================================================
