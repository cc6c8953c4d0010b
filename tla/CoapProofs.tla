----------------------------- MODULE CoapProofs -----------------------------
(***************************************************************************)
(* Proofs about CoapDiscovery, about the encoder and the decoder of        *)
(* CoapCodec and about the exchange of datagrams in CoapExchange.          *)
(***************************************************************************)
EXTENDS CoapDiscovery, CoapExchange, SequenceTheorems, WellFoundedInduction, TLAPS

-----------------------------------------------------------------------------
(* CoapDiscovery: nobody finds itself                                      *)

LEMMA PacketFacts ==
  ASSUME TypeOK
  PROVE  /\ \A d \in Devices : reader[d] # None => reader[d] \in Packets
         /\ \A p \in Packets : /\ p.src \in Addresses /\ p.msgId \in 0 .. IdLimit - 1
                               /\ p.body \in Announcements /\ p.body.device \in Devices
                               /\ p.body.info \in Infos /\ p.body.ip \in Addresses
BY DEF TypeOK, Packets, Announcements

\* What a device announces of itself.
LEMMA AnnounceFacts ==
  ASSUME TypeOK, NEW d \in Devices, NEW i \in Links, scanned[d][i] # None
  PROVE  \A b \in BOOLEAN :
           /\ PrepareServiceDiscover(d, i, b) \in Announcements
           /\ PrepareServiceDiscover(d, i, b).device = d
           /\ PrepareServiceDiscover(d, i, b).ip = scanned[d][i]
<1>1. scanned[d][i] \in Addresses /\ info[d] \in Infos
  BY DEF TypeOK
<1> QED
  BY <1>1 DEF PrepareServiceDiscover, Announcements

\* An interface that GetLocalNetworkInfo gives has an address.
LEMMA NetworkFacts ==
  ASSUME NEW d \in Devices, NEW i \in LocalNetworks(d), i # None
  PROVE  i \in Links /\ scanned[d][i] # None
BY DEF LocalNetworks

\* While the host and the configuration stay, so do the choice and the filter.
LEMMA StillSettled ==
  ASSUME UNCHANGED <<addr, scanned, named>>, NEW d \in Devices
  PROVE  /\ LocalNetworks(d)' = LocalNetworks(d)
         /\ Settled(d)' = Settled(d)
         /\ \A i, p : OwnPacket(d, i, p)' = OwnPacket(d, i, p)
<1>1. LocalNetworks(d)' = LocalNetworks(d)
  BY DEF LocalNetworks
<1> QED
  BY <1>1 DEF Settled, OwnPacket

\* While the host stays, only a new packet can disturb a device's home.
LEMMA StillHome ==
  ASSUME UNCHANGED <<addr, scanned>>, NEW d \in Devices, KeepsHome(d),
         \A p \in (net' \cup PacketsHeld') \ (net \cup PacketsHeld) :
             p.body.device # d => ~AtHome(d, p.body.ip)
  PROVE  KeepsHome(d)'
BY DEF KeepsHome, AtHome

LEMMA NextMsgIdFacts ==
  ASSUME NEW id \in 0 .. IdLimit - 1
  PROVE  NextMsgId(id) \in 0 .. IdLimit - 1 /\ NextMsgId(id) # 0
BY CoapAssumption DEF NextMsgId

LEMMA InitDiscoveryInv ==
  ASSUME Init PROVE DiscoveryInv
<1>1. PacketsHeld = {}
  BY DEF Init, PacketsHeld
<1>2. TypeOK
  BY CoapAssumption DEF Init, TypeOK
<1>3. ASSUME NEW d \in Devices PROVE KeepsHome(d) /\ Unseen(d)
  <2>1. ASSUME NEW e \in Devices \ {d}, NEW i \in Links PROVE ~AtHome(d, Home[e][i])
    <3>1. ASSUME NEW j \in Links, Home[e][i] # None, Home[e][i] = Home[d][j] PROVE FALSE
      <4>1. i = j
        BY <3>1, CoapAssumption
      <4> QED
        BY <3>1, <4>1, CoapAssumption
    <3> QED
      BY <3>1 DEF AtHome
  <2> QED
    BY <1>1, <2>1 DEF Init, KeepsHome, Unseen
<1> QED
  BY <1>1, <1>2, <1>3 DEF DiscoveryInv, Init

\* What a device reads changes to a packet or to nothing.
LEMMA ReaderMoves ==
  ASSUME TypeOK, NEW d \in Devices, NEW r \in Packets \cup {None},
         reader' = [reader EXCEPT ![d] = r]
  PROVE  /\ reader' \in [Devices -> Packets \cup {None}]
         /\ PacketsHeld' \subseteq PacketsHeld \cup ({r} \ {None})
         /\ reader'[d] = r /\ \A e \in Devices \ {d} : reader'[e] = reader[e]
<1>1. reader \in [Devices -> Packets \cup {None}]
  BY DEF TypeOK
<1>2. /\ reader' \in [Devices -> Packets \cup {None}]
      /\ reader'[d] = r /\ \A e \in Devices \ {d} : reader'[e] = reader[e]
  BY <1>1
<1>3. ASSUME NEW e \in Devices, reader'[e] # None PROVE reader'[e] \in PacketsHeld \cup ({r} \ {None})
  BY <1>2, <1>3 DEF PacketsHeld
<1> QED
  BY <1>2, <1>3 DEF PacketsHeld

\* What is sent carries the announcement of the sender; nobody else's home is
\* in it.
LEMMA SentHome ==
  ASSUME DiscoveryInv, NEW d \in Devices, NEW i \in Links, scanned[d][i] # None,
         NEW e \in Devices \ moved, e # d
  PROVE  ~AtHome(e, scanned[d][i])
BY DEF DiscoveryInv, KeepsHome

LEMMA DiscoverInv ==
  ASSUME DiscoveryInv, NEW d \in Devices, DiscoverDevices(d) PROVE DiscoveryInv'
<1>0. /\ TypeOK /\ msgId[d] \in 0 .. IdLimit - 1
      /\ UNCHANGED <<addr, scanned, named, info, answering, reader, devices, moved>>
  BY DEF DiscoveryInv, TypeOK, DiscoverDevices
<1>1. PICK out \in LocalNetworks(d) \ {None}, said \in LocalNetworks(d) :
         /\ msgId' = IF said = None THEN msgId ELSE [msgId EXCEPT ![d] = NextMsgId(msgId[d])]
         /\ net' = IF said = None \/ info[d] \in TooBig \/ addr[d][out] = None THEN net
                   ELSE net \cup {[src |-> addr[d][out], to |-> e, msgId |-> msgId'[d],
                                   body |-> PrepareServiceDiscover(d, said, TRUE)]
                                   : e \in {e \in Devices : addr[e][out] # None}}
  BY DEF DiscoverDevices
<1>2. /\ msgId' \in [Devices -> 0 .. IdLimit - 1]
      /\ said # None => msgId'[d] \in 0 .. IdLimit - 1 /\ msgId'[d] # 0
  BY <1>0, <1>1, NextMsgIdFacts DEF TypeOK
<1>3. ASSUME NEW p \in net' \ net
      PROVE  /\ p \in Packets /\ p.msgId # 0 /\ p.to \in Devices
             /\ said \in Links /\ scanned[d][said] # None
             /\ p.src = addr[d][out] /\ p.body.device = d /\ p.body.ip = scanned[d][said]
  <2>1. /\ said # None /\ addr[d][out] # None
        /\ p \in {[src |-> addr[d][out], to |-> e, msgId |-> msgId'[d],
                   body |-> PrepareServiceDiscover(d, said, TRUE)]
                   : e \in {e \in Devices : addr[e][out] # None}}
    BY <1>1, <1>3
  <2>2. PICK e \in Devices : p = [src |-> addr[d][out], to |-> e, msgId |-> msgId'[d],
                                  body |-> PrepareServiceDiscover(d, said, TRUE)]
    BY <2>1
  <2>3. out \in Links /\ said \in Links /\ scanned[d][said] # None
    BY <1>1, <2>1, NetworkFacts
  <2>4. msgId'[d] \in 0 .. IdLimit - 1 /\ addr[d][out] \in Addresses
    BY <1>0, <1>2, <2>1, <2>3 DEF TypeOK
  <2>5. /\ PrepareServiceDiscover(d, said, TRUE) \in Announcements
        /\ PrepareServiceDiscover(d, said, TRUE).device = d
        /\ PrepareServiceDiscover(d, said, TRUE).ip = scanned[d][said]
    BY <1>0, <2>3, AnnounceFacts
  <2>6. /\ p \in Packets /\ p.src = addr[d][out] /\ p.to = e /\ p.msgId = msgId'[d]
        /\ p.body.device = d /\ p.body.ip = scanned[d][said]
    BY <2>2, <2>4, <2>5 DEF Packets
  <2> QED
    BY <1>2, <2>1, <2>3, <2>6
<1>4. net' \subseteq Packets /\ \A p \in net' : p.msgId # 0
  BY <1>0, <1>3 DEF TypeOK
<1>5. TypeOK'
  BY <1>0, <1>2, <1>4 DEF TypeOK
<1>6. PacketsHeld' = PacketsHeld
  BY <1>0 DEF PacketsHeld
<1>7. ASSUME NEW e \in Devices \ moved PROVE KeepsHome(e)'
  <2>1. \A p \in net' \ net : p.body.device # e => ~AtHome(e, p.body.ip)
    BY <1>3, SentHome
  <2>2. KeepsHome(e)
    BY DEF DiscoveryInv
  <2> QED
    BY <1>0, <1>6, <2>1, <2>2, StillHome
<1>8. ASSUME NEW e \in Devices \ moved, Settled(e)' PROVE Unseen(e)'
  <2>1. Settled(e) /\ Unseen(e) /\ KeepsHome(e)
    BY <1>0, <1>8, StillSettled DEF DiscoveryInv
  <2>2. ASSUME NEW p \in net' \ net, p.body.device = e
        PROVE  \A i \in LocalNetworks(e) : OwnPacket(e, i, p)
    <3>1. e = d /\ p.src = addr[d][out]
      BY <1>3, <2>2
    <3>2. \A i \in LocalNetworks(e) : i = out
      BY <1>1, <2>1, <3>1 DEF Settled
    <3> QED
      BY <1>1, <2>1, <3>1, <3>2 DEF OwnPacket, KeepsHome
  <2> QED
    BY <1>0, <1>3, <2>1, <2>2, StillSettled DEF Unseen
<1> QED
  BY <1>0, <1>5, <1>6, <1>7, <1>8 DEF DiscoveryInv

LEMMA ReceiveInv ==
  ASSUME DiscoveryInv, NEW d \in Devices, Receive(d) PROVE DiscoveryInv'
<1>0. /\ TypeOK /\ reader[d] = None /\ net' \subseteq net
      /\ UNCHANGED <<addr, scanned, named, info, msgId, answering, devices, moved>>
  BY DEF DiscoveryInv, Receive, localVars
<1>1. PICK p \in net, i \in LocalNetworks(d) :
         /\ p.to = d \/ \E j \in Links : p.to = addr[d][j]
         /\ reader' = [reader EXCEPT ![d] = IF OwnPacket(d, i, p) THEN None ELSE p]
  BY DEF Receive
<1> DEFINE r == IF OwnPacket(d, i, p) THEN None ELSE p
<1>2. p \in Packets /\ p.msgId # 0 /\ r \in Packets \cup {None} /\ r \in {p, None}
  BY <1>0, <1>1 DEF TypeOK
<1>3. /\ reader' \in [Devices -> Packets \cup {None}]
      /\ PacketsHeld' \subseteq PacketsHeld \cup ({r} \ {None})
      /\ reader'[d] = r /\ \A e \in Devices \ {d} : reader'[e] = reader[e]
  BY <1>0, <1>1, <1>2, ReaderMoves
<1>4. TypeOK'
  BY <1>0, <1>3 DEF TypeOK
<1>5. \A e \in Devices : answering'[e] => reader'[e] # None
  BY <1>0, <1>3 DEF DiscoveryInv
<1>6. \A q \in PacketsHeld' : q.msgId # 0
  BY <1>2, <1>3 DEF DiscoveryInv
<1>7. ASSUME NEW e \in Devices \ moved PROVE KeepsHome(e)'
  <2>1. net' \cup PacketsHeld' \subseteq net \cup PacketsHeld
    BY <1>0, <1>1, <1>2, <1>3
  <2>2. KeepsHome(e)
    BY DEF DiscoveryInv
  <2> QED
    BY <1>0, <2>1, <2>2, StillHome
<1>8. ASSUME NEW e \in Devices \ moved, Settled(e)' PROVE Unseen(e)'
  <2>1. Settled(e) /\ Unseen(e) /\ KeepsHome(e)
    BY <1>0, <1>8, StillSettled DEF DiscoveryInv
  <2>2. ASSUME e = d, r # None PROVE r.body.device # d
    <3>1. r = p /\ ~OwnPacket(d, i, p)
      BY <2>2
    <3>2. \A j \in Links : p.to = addr[d][j] /\ p.to \in Addresses => AtHome(d, p.to)
      BY <2>1, <2>2, CoapAssumption DEF KeepsHome, AtHome
    <3>3. CASE p.body.device = d
      <4>1. \/ p.to \in Devices /\ \A k \in LocalNetworks(d) : OwnPacket(d, k, p)
            \/ p.to \in Addresses /\ ~AtHome(d, p.to)
        BY <1>1, <2>1, <2>2, <3>3 DEF Unseen
      <4>2. p.to \in Addresses /\ ~AtHome(d, p.to)
        BY <1>1, <3>1, <4>1
      <4> QED
        BY <1>1, <3>2, <4>2, CoapAssumption
    <3> QED
      BY <3>1, <3>3
  <2>3. reader'[e] # None => reader'[e].body.device # e
    BY <1>3, <2>1, <2>2 DEF Unseen
  <2> QED
    BY <1>0, <2>1, <2>3, StillSettled DEF Unseen
<1> QED
  BY <1>0, <1>4, <1>5, <1>6, <1>7, <1>8 DEF DiscoveryInv

\* A packet that cannot be read is dropped.
LEMMA RefuseInv ==
  ASSUME DiscoveryInv, NEW d \in Devices, RefuseServiceDiscover(d) PROVE DiscoveryInv'
<1>0. /\ TypeOK /\ ~answering[d] /\ reader' = [reader EXCEPT ![d] = None]
      /\ UNCHANGED <<addr, scanned, named, info, msgId, answering, devices, net, moved>>
  BY DEF DiscoveryInv, RefuseServiceDiscover, localVars, history
<1>1. /\ reader' \in [Devices -> Packets \cup {None}]
      /\ PacketsHeld' \subseteq PacketsHeld
      /\ reader'[d] = None /\ \A e \in Devices \ {d} : reader'[e] = reader[e]
  BY <1>0, ReaderMoves
<1>2. TypeOK'
  BY <1>0, <1>1 DEF TypeOK
<1>3. \A e \in Devices : answering'[e] => reader'[e] # None
  BY <1>0, <1>1 DEF DiscoveryInv
<1>4. \A e \in Devices \ moved : KeepsHome(e)'
  BY <1>0, <1>1, StillHome DEF DiscoveryInv
<1>5. \A e \in Devices \ moved : Settled(e)' => Unseen(e)'
  BY <1>0, <1>1, StillSettled DEF DiscoveryInv, Unseen
<1> QED
  BY <1>0, <1>1, <1>2, <1>3, <1>4, <1>5 DEF DiscoveryInv

LEMMA PostInv ==
  ASSUME DiscoveryInv, NEW d \in Devices, PostServiceDiscover(d) PROVE DiscoveryInv'
<1> DEFINE body == reader[d].body
           known == [ip |-> body.ip, info |-> body.info]
<1>0. /\ TypeOK /\ reader[d] # None /\ reader[d] \in Packets
      /\ UNCHANGED <<addr, scanned, named, info, msgId, net, moved>>
      /\ devices' = [devices EXCEPT ![d][body.device] = known]
  BY PacketFacts DEF DiscoveryInv, PostServiceDiscover, history
<1>1. PICK r \in {reader[d], None} : /\ reader' = [reader EXCEPT ![d] = r]
                                    /\ answering' = [answering EXCEPT ![d] = (r # None)]
  <2>1. reader \in [Devices -> Packets \cup {None}] /\ answering \in [Devices -> BOOLEAN]
    BY <1>0 DEF TypeOK
  <2>2. CASE body.uri
    <3>1. reader' = [reader EXCEPT ![d] = reader[d]]
      BY <2>1, <2>2 DEF PostServiceDiscover
    <3> QED
      BY <1>0, <2>2, <3>1 DEF PostServiceDiscover
  <2>3. CASE ~body.uri
    <3>1. ~answering[d] /\ UNCHANGED answering
      BY <2>3 DEF PostServiceDiscover
    <3>2. answering' = [answering EXCEPT ![d] = FALSE]
      BY <2>1, <3>1
    <3> QED
      BY <2>3, <3>2 DEF PostServiceDiscover
  <2> QED
    BY <2>2, <2>3
<1>2. /\ reader' \in [Devices -> Packets \cup {None}]
      /\ PacketsHeld' \subseteq PacketsHeld \cup ({r} \ {None})
      /\ reader'[d] = r /\ \A e \in Devices \ {d} : reader'[e] = reader[e]
  BY <1>0, <1>1, ReaderMoves
<1>3. PacketsHeld' \subseteq PacketsHeld
  BY <1>1, <1>2 DEF PacketsHeld
<1>4. /\ body.device \in Devices /\ known \in [ip : Addresses, info : Infos]
  BY <1>0, PacketFacts
<1>5. TypeOK'
  <2>1. answering' \in [Devices -> BOOLEAN]
    BY <1>0, <1>1 DEF TypeOK
  <2>2. devices' \in [Devices -> [Devices -> [ip : Addresses, info : Infos] \cup {None}]]
    BY <1>0, <1>4 DEF TypeOK
  <2> QED
    BY <1>0, <1>2, <2>1, <2>2 DEF TypeOK
<1>6. \A e \in Devices : answering'[e] => reader'[e] # None
  BY <1>0, <1>1, <1>2 DEF DiscoveryInv, TypeOK
<1>7. \A e \in Devices \ moved : KeepsHome(e)'
  BY <1>0, <1>3, StillHome DEF DiscoveryInv
<1>8. ASSUME NEW e \in Devices \ moved, Settled(e)' PROVE Unseen(e)'
  <2>1. Settled(e) /\ Unseen(e)
    BY <1>0, <1>8, StillSettled DEF DiscoveryInv
  <2>2. devices'[e][e] = devices[e][e]
    <3>1. CASE e = d
      <4>1. body.device # d
        BY <1>0, <2>1, <3>1 DEF Unseen
      <4> QED
        BY <1>0, <1>4, <3>1, <4>1 DEF TypeOK
    <3> QED
      BY <1>0, <3>1 DEF TypeOK
  <2>3. reader'[e] # None => reader'[e] = reader[e]
    BY <1>1, <1>2
  <2> QED
    BY <1>0, <2>1, <2>2, <2>3, StillSettled DEF Unseen
<1> QED
  BY <1>0, <1>3, <1>5, <1>6, <1>7, <1>8 DEF DiscoveryInv

LEMMA RespondInv ==
  ASSUME DiscoveryInv, NEW d \in Devices, CoapResponseService(d) PROVE DiscoveryInv'
<1> DEFINE a == reader[d].body.ip
<1>0. /\ TypeOK /\ reader[d] # None /\ reader[d] \in Packets /\ reader[d] \in PacketsHeld
      /\ reader[d].msgId # 0 /\ reader[d].msgId \in 0 .. IdLimit - 1 /\ a \in Addresses
      /\ UNCHANGED <<addr, scanned, named, info, msgId, devices, moved>>
      /\ reader' = [reader EXCEPT ![d] = None]
      /\ answering' = [answering EXCEPT ![d] = FALSE]
  BY PacketFacts DEF DiscoveryInv, CoapResponseService, history, PacketsHeld
<1>1. /\ reader' \in [Devices -> Packets \cup {None}]
      /\ PacketsHeld' \subseteq PacketsHeld
      /\ reader'[d] = None /\ \A e \in Devices \ {d} : reader'[e] = reader[e]
  BY <1>0, ReaderMoves
<1>2. PICK said \in LocalNetworks(d) :
        \/ UNCHANGED net
        \/ /\ said # None
           /\ \E i \in Routes(d, a) :
                net' = net \cup {[src |-> addr[d][i], to |-> a, msgId |-> reader[d].msgId,
                                  body |-> PrepareServiceDiscover(d, said, FALSE)]}
  BY DEF CoapResponseService
<1>3. ASSUME NEW p \in net' \ net
      PROVE  /\ p \in Packets /\ p.msgId # 0 /\ p.to = a
             /\ said \in Links /\ scanned[d][said] # None
             /\ p.body.device = d /\ p.body.ip = scanned[d][said]
  <2>1. said # None
    BY <1>2, <1>3
  <2>2. PICK i \in Routes(d, a) :
           p = [src |-> addr[d][i], to |-> a, msgId |-> reader[d].msgId,
                body |-> PrepareServiceDiscover(d, said, FALSE)]
    BY <1>2, <1>3
  <2>3. i \in Links /\ addr[d][i] # None
    BY <1>0, <2>2, CoapAssumption DEF Routes
  <2>4. said \in Links /\ scanned[d][said] # None
    BY <2>1, NetworkFacts
  <2>5. addr[d][i] \in Addresses
    BY <1>0, <2>3 DEF TypeOK
  <2>6. /\ PrepareServiceDiscover(d, said, FALSE) \in Announcements
        /\ PrepareServiceDiscover(d, said, FALSE).device = d
        /\ PrepareServiceDiscover(d, said, FALSE).ip = scanned[d][said]
    BY <1>0, <2>4, AnnounceFacts
  <2>7. /\ p \in Packets /\ p.to = a /\ p.msgId = reader[d].msgId
        /\ p.body.device = d /\ p.body.ip = scanned[d][said]
    BY <1>0, <2>2, <2>5, <2>6 DEF Packets
  <2> QED
    BY <1>0, <2>4, <2>7
<1>4. net' \subseteq Packets /\ \A p \in net' : p.msgId # 0
  BY <1>0, <1>3 DEF TypeOK
<1>5. TypeOK'
  BY <1>0, <1>1, <1>4 DEF TypeOK
<1>6. \A e \in Devices : answering'[e] => reader'[e] # None
  BY <1>0, <1>1 DEF DiscoveryInv, TypeOK
<1>7. ASSUME NEW e \in Devices \ moved PROVE KeepsHome(e)'
  <2>1. \A p \in net' \ net : p.body.device # e => ~AtHome(e, p.body.ip)
    BY <1>3, SentHome
  <2>2. KeepsHome(e)
    BY DEF DiscoveryInv
  <2> QED
    BY <1>0, <1>1, <2>1, <2>2, StillHome
<1>8. ASSUME NEW e \in Devices \ moved, Settled(e)' PROVE Unseen(e)'
  <2>1. Settled(e) /\ Unseen(e) /\ KeepsHome(e)
    BY <1>0, <1>8, StillSettled DEF DiscoveryInv
  <2>2. ASSUME NEW p \in net' \ net, p.body.device = e
        PROVE  p.to \in Addresses /\ ~AtHome(e, p.to)
    <3>1. e = d /\ p.to = a
      BY <1>3, <2>2
    <3> QED
      BY <1>0, <2>1, <3>1 DEF Unseen, KeepsHome
  <2>3. reader'[e] # None => reader'[e].body.device # e
    BY <1>1, <2>1 DEF Unseen
  <2> QED
    BY <1>0, <2>1, <2>2, <2>3, StillSettled DEF Unseen
<1> QED
  BY <1>0, <1>1, <1>4, <1>5, <1>6, <1>7, <1>8 DEF DiscoveryInv

\* A device takes an address that nobody has: nobody loses his home.
LEMMA MoveInv ==
  ASSUME DiscoveryInv, NEW d \in Devices, Move(d) PROVE DiscoveryInv'
<1>0. /\ TypeOK /\ moved' = moved \cup {d}
      /\ UNCHANGED <<scanned, named, info, msgId, answering, reader, devices, net>>
  BY DEF DiscoveryInv, Move, localVars
<1>1. PICK i \in Links, a \in Addresses \cup {None} :
         /\ a # None => LinkOf[a] = i /\ \A e \in Devices : addr[e][i] # a
         /\ addr' = [addr EXCEPT ![d][i] = a]
  BY DEF Move
<1>2. /\ addr' \in [Devices -> [Links -> Addresses \cup {None}]]
      /\ \A e \in Devices \ {d} : addr'[e] = addr[e]
      /\ \A j \in Links : addr'[d][j] \in {a, addr[d][j]}
  BY <1>0, <1>1 DEF TypeOK
<1>3. TypeOK'
  BY <1>0, <1>2 DEF TypeOK
<1>4. PacketsHeld' = PacketsHeld
  BY <1>0 DEF PacketsHeld
<1>5. ASSUME NEW e \in Devices \ moved' PROVE KeepsHome(e)' /\ (Settled(e)' => Unseen(e)')
  <2>1. e # d /\ e \notin moved /\ KeepsHome(e)
    BY <1>0 DEF DiscoveryInv
  <2>2. ~AtHome(e, a)
    <3>1. ASSUME NEW j \in Links, a # None, a = Home[e][j] PROVE FALSE
      <4>1. j = i
        BY <1>1, <3>1, CoapAssumption
      <4> QED
        BY <1>1, <2>1, <3>1, <4>1 DEF KeepsHome
    <3> QED
      BY <3>1 DEF AtHome
  <2>3. \A f \in Devices \ {e} : \A j \in Links : ~AtHome(e, addr'[f][j])
    BY <1>2, <2>1, <2>2 DEF KeepsHome
  <2>4. KeepsHome(e)'
    BY <1>0, <1>2, <1>4, <2>1, <2>3 DEF KeepsHome, AtHome
  <2>5. LocalNetworks(e)' = LocalNetworks(e)
    BY <1>0 DEF LocalNetworks
  <2>6. Settled(e)' => Unseen(e)
    BY <2>1, <2>5 DEF Settled, DiscoveryInv
  <2> QED
    BY <1>0, <2>4, <2>5, <2>6 DEF Unseen, OwnPacket, AtHome
<1> QED
  BY <1>0, <1>3, <1>4, <1>5 DEF DiscoveryInv

\* A scan changes nothing of a device that has not moved.
LEMMA ScanInv ==
  ASSUME DiscoveryInv, NEW d \in Devices, ScanInterfaces(d) PROVE DiscoveryInv'
<1>0. /\ TypeOK /\ scanned[d] # addr[d] /\ scanned' = [scanned EXCEPT ![d] = addr[d]]
      /\ UNCHANGED <<addr, named, info, msgId, answering, reader, devices, net, moved>>
  BY DEF DiscoveryInv, ScanInterfaces, localVars, history
<1>1. TypeOK' /\ \A e \in Devices \ {d} : scanned'[e] = scanned[e]
  BY <1>0 DEF TypeOK
<1>2. PacketsHeld' = PacketsHeld
  BY <1>0 DEF PacketsHeld
<1>3. ASSUME NEW e \in Devices \ moved PROVE KeepsHome(e)' /\ (Settled(e)' => Unseen(e)')
  <2>1. e # d /\ KeepsHome(e)
    BY <1>0 DEF DiscoveryInv, KeepsHome
  <2>2. scanned'[e] = scanned[e] /\ scanned'[d] = addr[d]
    BY <1>0, <1>1, <2>1 DEF TypeOK
  <2>3. \A f \in Devices \ {e} : \A j \in Links : ~AtHome(e, scanned'[f][j])
    BY <1>1, <2>1, <2>2 DEF KeepsHome
  <2>4. KeepsHome(e)'
    BY <1>0, <1>2, <2>1, <2>2, <2>3 DEF KeepsHome, AtHome
  <2>5. LocalNetworks(e)' = LocalNetworks(e)
    BY <1>0, <2>2 DEF LocalNetworks
  <2>6. Settled(e)' => Unseen(e)
    BY <2>5 DEF Settled, DiscoveryInv
  <2> QED
    BY <1>0, <2>2, <2>4, <2>5, <2>6 DEF Unseen, OwnPacket, AtHome
<1> QED
  BY <1>0, <1>1, <1>2, <1>3 DEF DiscoveryInv

LEMMA DiscoveryStepInv ==
  ASSUME DiscoveryInv, [Next]_vars PROVE DiscoveryInv'
<1>0. TypeOK
  BY DEF DiscoveryInv
<1>1. ASSUME UNCHANGED <<addr, scanned, named, msgId, answering, reader, devices, moved>>,
             net' \subseteq net, info' \in [Devices -> Infos]
      PROVE  DiscoveryInv'
  <2>1. PacketsHeld' = PacketsHeld
    BY <1>1 DEF PacketsHeld
  <2>2. TypeOK'
    BY <1>0, <1>1 DEF TypeOK
  <2>3. \A e \in Devices \ moved : KeepsHome(e)'
    BY <1>1, <2>1, StillHome DEF DiscoveryInv
  <2>4. \A e \in Devices \ moved : Settled(e)' => Unseen(e)'
    BY <1>1, StillSettled DEF DiscoveryInv, Unseen
  <2> QED
    BY <1>1, <2>1, <2>2, <2>3, <2>4 DEF DiscoveryInv
<1>2. CASE UNCHANGED vars \/ Lose \/ Undeliverable
  <2>1. /\ UNCHANGED <<addr, scanned, named, info, msgId, answering, reader, devices, moved>>
        /\ net' \subseteq net
    BY <1>2 DEF vars, localVars, history, Lose, Undeliverable
  <2> QED
    BY <1>0, <1>1, <2>1 DEF TypeOK
<1>3. ASSUME NEW d \in Devices, UpdateInfo(d) PROVE DiscoveryInv'
  <2>1. /\ UNCHANGED <<addr, scanned, named, msgId, answering, reader, devices, net, moved>>
        /\ \E i \in Infos : info' = [info EXCEPT ![d] = i]
    BY <1>3 DEF UpdateInfo
  <2> QED
    BY <1>0, <1>1, <2>1 DEF TypeOK
<1> QED
  BY <1>2, <1>3, MoveInv, ScanInv, DiscoverInv, ReceiveInv, RefuseInv, PostInv, RespondInv
     DEF Next, ReaderStep

\* The invariant DiscoveryInv holds in every state.
THEOREM DiscoveryInvariance == Spec => []DiscoveryInv
BY InitDiscoveryInv, DiscoveryStepInv, PTL DEF Spec

\* The tables have the types of the code, and no packet that is sent, received
\* or answered has the id zero, wherever the count of a device wraps around.
THEOREM DiscoveryTypeCorrect == Spec => []TypeOK
<1>1. DiscoveryInv => TypeOK
  BY DEF DiscoveryInv
<1> QED
  BY <1>1, DiscoveryInvariance, PTL

\* No device takes its own broadcast for that of another one as long as its own
\* addresses stay, if GetLocalNetworkInfo has but one interface to give: for any
\* number of devices and of networks, wherever the others move and whatever the
\* network loses, repeats and reorders.
THEOREM NobodyFindsItself == Spec => []NoSelf
<1>1. DiscoveryInv => NoSelf
  BY DEF DiscoveryInv, Unseen, NoSelf
<1> QED
  BY <1>1, DiscoveryInvariance, PTL

-----------------------------------------------------------------------------
(* CoapCodec: the decoder undoes the encoder, option by option, for every  *)
(* number, every order of numbers and every length that the format can     *)
(* express, wherever in a datagram the option stands.                      *)

\* The bytes of buf from offset on begin with s.
Holds(buf, offset, s) ==
    /\ offset + Len(s) <= Len(buf)
    /\ \A i \in 1 .. Len(s) : buf[offset + i] = s[i]

Values   == {v \in Nat : v <= MaxValue}

\* What begins with two pieces begins with the first, and the second follows it.
LEMMA HoldsConcat ==
    ASSUME NEW buf \in Seq(Byte), NEW offset \in Nat,
           NEW s \in Seq(Byte), NEW t \in Seq(Byte),
           Holds(buf, offset, s \o t)
    PROVE  Holds(buf, offset, s) /\ Holds(buf, offset + Len(s), t)
<1>1. /\ Len(s \o t) = Len(s) + Len(t)
      /\ \A i \in 1 .. Len(s) + Len(t) :
             (s \o t)[i] = IF i <= Len(s) THEN s[i] ELSE t[i - Len(s)]
  BY ConcatProperties, Zenon
<1>2. Len(s \o t) = Len(s) + Len(t)
  BY <1>1, Zenon
<1>3. Len(s) \in Nat /\ Len(t) \in Nat /\ Len(buf) \in Nat
  BY LenProperties
<1>4. offset + Len(s) + Len(t) <= Len(buf)
  <2>1. offset + Len(s \o t) <= Len(buf)
    BY Zenon DEF Holds
  <2>2. offset + Len(s \o t) = offset + Len(s) + Len(t)
    BY <1>2, <1>3
  <2> QED
    BY <2>1, <2>2, Zenon
<1>5. Holds(buf, offset, s)
  <2>1. offset + Len(s) <= Len(buf)
    BY <1>3, <1>4
  <2>2. ASSUME NEW i \in 1 .. Len(s) PROVE buf[offset + i] = s[i]
    <3>1. i \in 1 .. Len(s) + Len(t) /\ i <= Len(s)
      BY <1>3
    <3>2. buf[offset + i] = (s \o t)[i]
      BY <1>2, <3>1, Zenon DEF Holds
    <3>3. (s \o t)[i] = s[i]
      BY <1>1, <3>1, Zenon
    <3> QED
      BY <3>2, <3>3, Zenon
  <2> QED
    BY <2>1, <2>2, Zenon DEF Holds
<1>6. ASSUME NEW i \in 1 .. Len(t)
      PROVE  buf[offset + Len(s) + i] = t[i]
  <2>1. Len(s) + i \in 1 .. Len(s \o t)
    <3>1. PICK l \in Nat, m \in Nat : l = Len(s) /\ m = Len(t)
      BY <1>3
    <3>2. l + i \in 1 .. l + m
      BY <3>1
    <3> QED
      BY <1>2, <3>1, <3>2, Zenon
  <2>2. buf[offset + (Len(s) + i)] = (s \o t)[Len(s) + i]
    BY <2>1 DEF Holds
  <2>3. (s \o t)[Len(s) + i] = t[i]
    BY <1>1, <1>3
  <2>4. offset + (Len(s) + i) = offset + Len(s) + i
    BY <1>3
  <2> QED
    BY <2>2, <2>3, <2>4, Zenon
<1>7. Holds(buf, offset + Len(s), t)
  BY <1>6, <1>4, Zenon DEF Holds
<1> QED
  BY <1>5, <1>7

LEMMA BelowAnyBound ==
    ASSUME NEW bound \in Nat, NEW n \in Nat, NEW size \in 0 .. bound, n <= size
    PROVE  n <= bound
OBVIOUS

LEMMA MaxValueIsNat == MaxValue \in Nat
BY DEF MaxValue

\* What a buffer of a legal size holds is not longer than the longest value.
LEMMA BelowBound ==
    ASSUME NEW n \in Nat, NEW size \in 0 .. MaxValue, n <= size
    PROVE  n <= MaxValue
BY BelowAnyBound, MaxValueIsNat

\* The uint16 arithmetic of the code, and the two bytes of a uint16.
LEMMA Wrap ==
    /\ \A x \in Int : 0 <= x /\ x < 65536 => AsUInt16(x) = x
    /\ \A x \in Int : -65536 <= x /\ x < 0 => AsUInt16(x) = x + 65536
    /\ \A x \in Int : 65536 <= x /\ x < 131072 => AsUInt16(x) = x - 65536
BY DEF AsUInt16

LEMMA TwoBytes ==
    ASSUME NEW x \in Int, 0 <= x, x < 65536
    PROVE  \E hi, lo \in Byte : hi = x \div 256 /\ lo = x % 256 /\ 256 * hi + lo = x
<1>1. PICK q \in Int : q = x \div 256
  OBVIOUS
<1>2. PICK r \in Int : r = x % 256
  OBVIOUS
<1>3. 256 * q + r = x /\ 0 <= r /\ r < 256
  BY <1>1, <1>2
<1>4. 0 <= q /\ q < 256
  BY <1>1, <1>2, <1>3
<1>5. q \in Byte /\ r \in Byte
  BY <1>1, <1>2, <1>3, <1>4 DEF Byte
<1> QED
  BY <1>1, <1>2, <1>3, <1>5

\* The extension of a value: its bytes, and their number, which the nibble tells.
LEMMA ExtensionType ==
    ASSUME NEW v \in Values
    PROVE  /\ Extension(v) \in Seq(Byte)
           /\ Nibble(v) \in 0 .. 14
           /\ Len(Extension(v)) = IF Nibble(v) < 13 THEN 0 ELSE Nibble(v) - 12
<1>0. v \in Int /\ 0 <= v /\ v <= 65804
  BY DEF Values, MaxValue
<1>1. CASE v < 13
  <2>1. Nibble(v) = v /\ Extension(v) = <<>>
    BY <1>1 DEF Nibble, Extension
  <2> QED
    BY <1>0, <1>1, <2>1
<1>2. CASE 13 <= v /\ v < 269
  <2>1. Nibble(v) = 13 /\ Extension(v) = <<(v - 13) % 256>>
    BY <1>0, <1>2 DEF Nibble, Extension, ByteLimit
  <2>2. (v - 13) % 256 \in Byte
    BY <1>0 DEF Byte
  <2> QED
    BY <2>1, <2>2
<1>3. CASE 269 <= v
  <2>1. Nibble(v) = 14 /\ Extension(v) = BigEndian(AsUInt16(v - 269))
    BY <1>0, <1>3 DEF Nibble, Extension, ByteLimit
  <2>2. AsUInt16(v - 269) = v - 269
    BY <1>0, <1>3, Wrap
  <2>3. PICK x \in Int : x = v - 269 /\ 0 <= x /\ x < 65536
    BY <1>0, <1>3
  <2>4. PICK hi \in Byte, lo \in Byte : hi = x \div 256 /\ lo = x % 256
    BY <2>3, TwoBytes
  <2>5. Extension(v) = <<hi, lo>>
    BY <2>1, <2>2, <2>3, <2>4 DEF BigEndian
  <2>6. <<hi, lo>> \in Seq(Byte) /\ Len(<<hi, lo>>) = 2
    BY <2>4
  <2>7. Nibble(v) = 14
    BY <2>1
  <2> QED
    BY <2>5, <2>6, <2>7
<1> QED
  BY <1>0, <1>1, <1>2, <1>3

\* A delta or a length is decoded to the value that was encoded.
LEMMA ExtendedInverts ==
    ASSUME NEW buf \in Seq(Byte), NEW offset \in Nat, NEW v \in Values,
           Holds(buf, offset, Extension(v))
    PROVE  Extended(buf, offset, Nibble(v)) = [v |-> v, next |-> offset + Len(Extension(v))]
<1>0. v \in Int /\ 0 <= v /\ v <= 65804
  BY DEF Values, MaxValue
<1>1. Len(buf) \in Nat
  BY LenProperties
<1>2. CASE v < 13
  <2>1. Nibble(v) = v /\ Extension(v) = <<>>
    BY <1>2 DEF Nibble, Extension
  <2>2. offset + 0 <= Len(buf)
    BY <2>1 DEF Holds
  <2> QED
    BY <1>0, <1>1, <1>2, <2>1, <2>2 DEF Extended, Room
<1>3. CASE 13 <= v /\ v < 269
  <2>1. Nibble(v) = 13 /\ Extension(v) = <<(v - 13) % 256>>
    BY <1>0, <1>3 DEF Nibble, Extension, ByteLimit
  <2>2. (v - 13) % 256 = v - 13
    BY <1>0, <1>3
  <2>3. buf[offset + 1] = v - 13 /\ offset + 1 <= Len(buf)
    BY <2>1, <2>2 DEF Holds
  <2> QED
    BY <1>0, <1>1, <1>3, <2>1, <2>3 DEF Extended, Room
<1>4. CASE 269 <= v
  <2>1. Nibble(v) = 14 /\ Extension(v) = BigEndian(AsUInt16(v - 269))
    BY <1>0, <1>4 DEF Nibble, Extension, ByteLimit
  <2>2. AsUInt16(v - 269) = v - 269
    BY <1>0, <1>4, Wrap
  <2>3. PICK x \in Int : x = v - 269 /\ 0 <= x /\ x < 65536
    BY <1>0, <1>4
  <2>4. PICK hi \in Byte, lo \in Byte : hi = x \div 256 /\ lo = x % 256 /\ 256 * hi + lo = x
    BY <2>3, TwoBytes, SMTT(30)
  <2>5. 269 + 256 * hi + lo = v
    BY <1>0, <2>3, <2>4 DEF Byte
  <2>6. Extension(v) = <<hi, lo>>
    BY <2>1, <2>2, <2>3, <2>4 DEF BigEndian
  <2>7. Len(Extension(v)) = 2 /\ buf[offset + 1] = hi /\ buf[offset + 2] = lo
    BY <2>6 DEF Holds
  <2>8. offset + 2 <= Len(buf)
    BY <2>7 DEF Holds
  <2>9. Extended(buf, offset, 14) = [v |-> 269 + 256 * hi + lo, next |-> offset + 2]
    BY <1>1, <2>7, <2>8 DEF Extended, Room
  <2>10. Extended(buf, offset, 14) = [v |-> v, next |-> offset + Len(Extension(v))]
    BY <2>5, <2>7, <2>9
  <2> QED
    BY <2>1, <2>10
<1> QED
  BY <1>0, <1>2, <1>3, <1>4

\* The difference of two numbers can always be expressed.
LEMMA DeltaType ==
    ASSUME NEW prev \in UInt16, NEW num \in UInt16
    PROVE  Delta(prev, num) \in Values
<1>1. /\ prev \in Int /\ 0 <= prev /\ prev < 65536
      /\ num \in Int /\ 0 <= num /\ num < 65536
  BY DEF UInt16
<1>2. CASE prev <= num
  <2>1. Delta(prev, num) = num - prev
    BY <1>1, <1>2, Wrap DEF Delta
  <2> QED
    BY <1>1, <1>2, <2>1 DEF Values, MaxValue
<1>3. CASE num < prev
  <2>1. Delta(prev, num) = num - prev + 65536
    BY <1>1, <1>3, Wrap DEF Delta
  <2>2. PICK d \in Int : d = num - prev + 65536
    BY <1>1
  <2>3. 0 <= d /\ d <= 65804
    BY <1>1, <1>3, <2>2
  <2>4. d \in Values
    BY <2>2, <2>3 DEF Values, MaxValue
  <2> QED
    BY <2>1, <2>2, <2>4
<1> QED
  BY <1>1, <1>2, <1>3

\* The uint16 difference leads from the number before to the number, also
\* when the options are not in ascending order.
LEMMA DeltaInverts ==
    ASSUME NEW prev \in UInt16, NEW num \in UInt16
    PROVE  AsUInt16(prev + Delta(prev, num)) = num
<1>0. /\ prev \in Int /\ 0 <= prev /\ prev < 65536
      /\ num \in Int /\ 0 <= num /\ num < 65536
  BY DEF UInt16
<1>1. CASE prev <= num
  <2>1. Delta(prev, num) = num - prev
    BY <1>0, <1>1, Wrap DEF Delta
  <2>2. prev + (num - prev) = num /\ AsUInt16(num) = num
    BY <1>0, Wrap
  <2> QED
    BY <2>1, <2>2
<1>2. CASE num < prev
  <2>1. Delta(prev, num) = num - prev + 65536
    BY <1>0, <1>2, Wrap DEF Delta
  <2>2. prev + (num - prev + 65536) = num + 65536
    BY <1>0
  <2>3. AsUInt16(num + 65536) = num
    BY <1>0, Wrap
  <2> QED
    BY <2>1, <2>2, <2>3
<1> QED
  BY <1>0, <1>1, <1>2

-----------------------------------------------------------------------------
\* The two halves of the first byte of an option are told apart, and it is
\* never the payload marker.
LEMMA FirstByte ==
    ASSUME NEW a \in 0 .. 14, NEW b \in 0 .. 14
    PROVE  /\ a * 16 + b \in Byte
           /\ a * 16 + b # Marker
           /\ (a * 16 + b) \div 16 = a
           /\ (a * 16 + b) % 16 = b
BY DEF Byte, Marker

\* The parts of an encoded option stand one behind the other.
LEMMA OptionParts ==
    ASSUME NEW buf \in Seq(Byte), NEW offset \in Nat,
           NEW prev \in UInt16, NEW opt \in Options, Len(opt.value) <= MaxValue,
           Holds(buf, offset, EncodeOption(prev, opt))
    PROVE  \E delta, len \in Values :
             /\ delta = Delta(prev, opt.num) /\ len = Len(opt.value)
             /\ offset + 1 <= Len(buf)
             /\ buf[offset + 1] = Nibble(delta) * 16 + Nibble(len)
             /\ Holds(buf, offset + 1, Extension(delta))
             /\ Holds(buf, offset + 1 + Len(Extension(delta)), Extension(len))
             /\ Holds(buf, offset + 1 + Len(Extension(delta)) + Len(Extension(len)), opt.value)
             /\ Len(EncodeOption(prev, opt)) = 1 + Len(Extension(delta)) + Len(Extension(len)) + len
<1>0. PICK delta, len : delta = Delta(prev, opt.num) /\ len = Len(opt.value)
  OBVIOUS
<1> DEFINE first == <<Nibble(delta) * 16 + Nibble(len)>>
           d     == Extension(delta)
           l     == Extension(len)
<1>1. opt.num \in UInt16 /\ opt.value \in Seq(Byte)
  BY DEF Options
<1>2. delta \in Values /\ len \in Values
  <2>1. delta \in Values
    BY <1>0, <1>1, DeltaType
  <2>2. len \in Nat /\ len <= MaxValue
    BY <1>0, <1>1, LenProperties
  <2> QED
    BY <2>1, <2>2 DEF Values
<1>3. d \in Seq(Byte) /\ l \in Seq(Byte) /\ Nibble(delta) \in 0 .. 14 /\ Nibble(len) \in 0 .. 14
  BY <1>2, ExtensionType
<1>4. first \in Seq(Byte) /\ Len(first) = 1 /\ first[1] = Nibble(delta) * 16 + Nibble(len)
  <2>1. Nibble(delta) * 16 + Nibble(len) \in Byte
    BY <1>3, FirstByte
  <2> QED
    BY <2>1
<1>5. EncodeOption(prev, opt) = ((first \o d) \o l) \o opt.value
  BY <1>0 DEF EncodeOption
<1> HIDE DEF first, d, l
<1>6. /\ first \o d \in Seq(Byte)             /\ Len(first \o d) = 1 + Len(d)
      /\ (first \o d) \o l \in Seq(Byte)      /\ Len((first \o d) \o l) = 1 + Len(d) + Len(l)
      /\ Len(((first \o d) \o l) \o opt.value) = 1 + Len(d) + Len(l) + Len(opt.value)
  <2>1. first \o d \in Seq(Byte) /\ Len(first \o d) = Len(first) + Len(d)
    BY <1>3, <1>4, ConcatProperties, Zenon
  <2>2. (first \o d) \o l \in Seq(Byte) /\ Len((first \o d) \o l) = Len(first \o d) + Len(l)
    BY <1>3, <2>1, ConcatProperties, Zenon
  <2>3. ASSUME NEW s \in Seq(Byte), NEW t \in Seq(Byte)
        PROVE  Len(s \o t) = Len(s) + Len(t)
    BY ConcatProperties, Zenon
  <2>4. Len(((first \o d) \o l) \o opt.value) = Len((first \o d) \o l) + Len(opt.value)
    BY <1>1, <2>2, <2>3, Zenon
  <2> QED
    BY <1>4, <2>1, <2>2, <2>4
<1>7. Holds(buf, offset, (first \o d) \o l) /\ Holds(buf, offset + (1 + Len(d) + Len(l)), opt.value)
  <2>1. PICK s \in Seq(Byte) : s = (first \o d) \o l
    BY <1>6
  <2>2. Holds(buf, offset, s \o opt.value)
    BY <1>5, <2>1
  <2>3. Holds(buf, offset, s) /\ Holds(buf, offset + Len(s), opt.value)
    BY <1>1, <2>2, HoldsConcat
  <2> QED
    BY <1>6, <2>1, <2>3
<1>8. Holds(buf, offset, first \o d) /\ Holds(buf, offset + (1 + Len(d)), l)
  BY <1>3, <1>6, <1>7, HoldsConcat
<1>9. Holds(buf, offset, first) /\ Holds(buf, offset + 1, d)
  BY <1>3, <1>4, <1>8, HoldsConcat
<1>10. offset + 1 <= Len(buf) /\ buf[offset + 1] = first[1]
  BY <1>4, <1>9 DEF Holds
<1>11. Len(d) \in Nat /\ Len(l) \in Nat
  BY <1>3, LenProperties
<1>12. /\ offset + (1 + Len(d)) = offset + 1 + Len(d)
       /\ offset + (1 + Len(d) + Len(l)) = offset + 1 + Len(d) + Len(l)
  BY <1>11
<1> QED
  BY <1>0, <1>2, <1>4, <1>5, <1>6, <1>7, <1>8, <1>9, <1>10, <1>12 DEF d, l

\* An option that begins somewhere in a datagram is decoded to what was
\* encoded there, and decoding goes on behind it.
THEOREM OptionRoundTrip ==
    ASSUME NEW buf \in Seq(Byte), NEW offset \in Nat,
           NEW prev \in UInt16, NEW opt \in Options, Len(opt.value) <= MaxValue,
           Holds(buf, offset, EncodeOption(prev, opt))
    PROVE  /\ buf[offset + 1] # Marker
           /\ DecodeOption(buf, offset, prev)
                = [opt |-> opt, next |-> offset + Len(EncodeOption(prev, opt))]
<1>1. opt.num \in UInt16 /\ opt.value \in Seq(Byte) /\ Len(buf) \in Nat
  BY LenProperties DEF Options
<1>2. PICK delta \in Values, len \in Values :
          /\ delta = Delta(prev, opt.num) /\ len = Len(opt.value)
          /\ offset + 1 <= Len(buf)
          /\ buf[offset + 1] = Nibble(delta) * 16 + Nibble(len)
          /\ Holds(buf, offset + 1, Extension(delta))
          /\ Holds(buf, offset + 1 + Len(Extension(delta)), Extension(len))
          /\ Holds(buf, offset + 1 + Len(Extension(delta)) + Len(Extension(len)), opt.value)
          /\ Len(EncodeOption(prev, opt)) = 1 + Len(Extension(delta)) + Len(Extension(len)) + len
  BY OptionParts
<1>4. delta \in Nat /\ len \in Nat
  BY <1>2 DEF Values
<1>5. PICK a \in 0 .. 14, b \in 0 .. 14 : a = Nibble(delta) /\ b = Nibble(len)
  BY <1>2, ExtensionType
<1>6. PICK d \in Nat, l \in Nat : d = Len(Extension(delta)) /\ l = Len(Extension(len))
  BY <1>2, ExtensionType, LenProperties
<1>7. /\ buf[offset + 1] = a * 16 + b
      /\ Holds(buf, offset + 1, Extension(delta))
      /\ Holds(buf, offset + 1 + d, Extension(len))
      /\ Holds(buf, offset + 1 + d + l, opt.value)
      /\ Len(EncodeOption(prev, opt)) = 1 + d + l + len
  BY <1>2, <1>5, <1>6
<1>8. Extended(buf, offset + 1, a) = [v |-> delta, next |-> offset + 1 + d]
  BY <1>2, <1>5, <1>6, <1>7, ExtendedInverts
<1>9. Extended(buf, offset + 1 + d, b) = [v |-> len, next |-> offset + 1 + d + l]
  <2>1. offset + 1 + d \in Nat
    BY <1>6
  <2> QED
    BY <1>2, <1>5, <1>6, <1>7, <2>1, ExtendedInverts
<1>10. PICK o2 \in Nat : o2 = offset + 1 + d + l
  BY <1>6
<1>11. o2 + len <= Len(buf) /\ \A i \in 1 .. len : buf[o2 + i] = opt.value[i]
  BY <1>2, <1>7, <1>10 DEF Holds
<1>12. SubSeq(buf, o2 + 1, o2 + len) = opt.value
  <2>1. ASSUME NEW s \in Seq(Byte), NEW o \in Nat, NEW n \in Nat, o + n <= Len(s)
        PROVE  /\ SubSeq(s, o + 1, o + n) \in Seq(Byte)
               /\ Len(SubSeq(s, o + 1, o + n)) = n
               /\ \A i \in 1 .. n : SubSeq(s, o + 1, o + n)[i] = s[o + i]
    <3>1. \A i \in o + 1 .. o + n : s[i] \in Byte
      <4>1. Len(s) \in Nat
        BY LenProperties
      <4>2. \A i \in o + 1 .. o + n : i \in 1 .. Len(s)
        BY <2>1, <4>1
      <4> QED
        BY <4>2, ElementOfSeq, Zenon
    <3>2. PICK lo \in Int, hi \in Int : lo = o + 1 /\ hi = o + n
      OBVIOUS
    <3>3. /\ SubSeq(s, lo, hi) \in Seq(Byte)
          /\ Len(SubSeq(s, lo, hi)) = IF lo <= hi THEN hi - lo + 1 ELSE 0
          /\ \A i \in 1 .. hi - lo + 1 : SubSeq(s, lo, hi)[i] = s[lo + i - 1]
      BY <3>1, <3>2, SubSeqProperties
    <3>4. /\ IF lo <= hi THEN hi - lo + 1 = n ELSE n = 0
          /\ hi - lo + 1 = n
          /\ \A i \in 1 .. n : lo + i - 1 = o + i
      BY <3>2
    <3> QED
      BY <3>2, <3>3, <3>4
  <2>2. /\ SubSeq(buf, o2 + 1, o2 + len) \in Seq(Byte)
        /\ Len(SubSeq(buf, o2 + 1, o2 + len)) = len
        /\ \A i \in 1 .. len : SubSeq(buf, o2 + 1, o2 + len)[i] = buf[o2 + i]
    BY <1>4, <1>10, <1>11, <2>1, Zenon
  <2>3. \A i \in 1 .. len : SubSeq(buf, o2 + 1, o2 + len)[i] = opt.value[i]
    BY <1>11, <2>2, Zenon
  <2> QED
    BY <1>1, <1>2, <2>2, <2>3, SeqEqual, Zenon
<1>13. AsUInt16(prev + delta) = opt.num
  BY <1>1, <1>2, DeltaInverts
<1>14. opt = [num |-> opt.num, value |-> opt.value]
  BY DEF Options
<1>15. DecodeOption(buf, offset, prev) = [opt |-> opt, next |-> o2 + len]
  <2>1. PICK o1 \in Nat : o1 = offset + 1 + d
    BY <1>6
  <2>2. DecodeOption(buf, offset, prev)
          = [opt |-> [num |-> AsUInt16(prev + delta), value |-> SubSeq(buf, o2 + 1, o2 + len)],
             next |-> o2 + len]
    <3>1. Extended(buf, offset + 1, a) = [v |-> delta, next |-> o1]
      BY <1>8, <2>1
    <3>2. Extended(buf, o1, b) = [v |-> len, next |-> o2]
      BY <1>9, <1>10, <2>1
    <3>3. buf[offset + 1] = a * 16 + b
      BY <1>7
    <3>4. o2 + len <= Len(buf)
      BY <1>11
    <3>5. a \in 0 .. 14 /\ b \in 0 .. 14 /\ o1 \in Nat /\ o2 \in Nat
      BY <1>5, <1>10, <2>1
    <3>6. buf[offset + 1] \div 16 = a /\ buf[offset + 1] % 16 = b
      BY <3>3, <3>5, FirstByte
    <3>7. PICK e1 : e1 = [v |-> delta, next |-> o1]
      OBVIOUS
    <3>8. PICK e2 : e2 = [v |-> len, next |-> o2]
      OBVIOUS
    <3>9. e1.v = delta /\ e1.next = o1 /\ e2.v = len /\ e2.next = o2
      BY <3>7, <3>8
    <3>10. ~Failed(e1) /\ ~Failed(e2)
      BY <3>7, <3>8 DEF Failed
    <3>11. Room(buf, o2, len) /\ ~(o2 + len > Len(buf))
      BY <1>1, <1>4, <3>4, <3>5 DEF Room
    <3>12. Extended(buf, offset + 1, buf[offset + 1] \div 16) = e1
      BY <3>1, <3>6, <3>7
    <3>13. Extended(buf, o1, buf[offset + 1] % 16) = e2
      BY <3>2, <3>6, <3>8
    <3>14. Extended(buf, e1.next, buf[offset + 1] % 16) = e2
      BY <3>9, <3>13
    <3>15. DecodeOption(buf, offset, prev)
             = [opt  |-> [num |-> AsUInt16(prev + e1.v), value |-> SubSeq(buf, e2.next + 1, e2.next + e2.v)],
                next |-> e2.next + e2.v]
      BY <3>9, <3>10, <3>11, <3>12, <3>14, Zenon DEF DecodeOption
    <3> QED
      BY <3>9, <3>15
  <2> QED
    BY <1>12, <1>13, <1>14, <2>2, Zenon
<1>16. o2 + len = offset + Len(EncodeOption(prev, opt))
  BY <1>4, <1>6, <1>7, <1>10
<1>17. buf[offset + 1] # Marker
  BY <1>5, <1>7, FirstByte
<1> QED
  BY <1>15, <1>16, <1>17

-----------------------------------------------------------------------------
(* What the decoder reads of bytes that nobody here has encoded            *)

LEMMA ExtendedInBounds ==
    ASSUME NEW buf \in Seq(Byte), NEW offset \in 0 .. Len(buf), NEW nib \in 0 .. 15
    PROVE  \/ Extended(buf, offset, nib) = Refused
           \/ \E v \in Nat, next \in offset .. Len(buf) :
                Extended(buf, offset, nib) = [v |-> v, next |-> next]
<1> DEFINE k == IF nib < 13 THEN 0 ELSE nib - 12
           v == CASE nib = 13 -> 13 + buf[offset + 1]
                  [] nib = 14 -> 269 + 256 * buf[offset + 1] + buf[offset + 2]
                  [] OTHER    -> nib
<1>0. Len(buf) \in Nat /\ offset \in Nat /\ k \in Nat /\ offset <= Len(buf)
  OBVIOUS
<1>1. CASE nib = 15 \/ ~Room(buf, offset, k)
  BY <1>1 DEF Extended
<1>2. CASE nib # 15 /\ Room(buf, offset, k)
  <2>1. offset + k \in offset .. Len(buf)
    BY <1>0, <1>2 DEF Room
  <2>2. Extended(buf, offset, nib) = [v |-> v, next |-> offset + k]
    BY <1>0, <1>2, <2>1 DEF Extended
  <2>3. v \in Nat
    <3>1. CASE nib = 13
      <4>1. offset + 1 \in 1 .. Len(buf)
        BY <1>0, <2>1, <3>1
      <4>2. buf[offset + 1] \in Byte
        BY <4>1, ElementOfSeq
      <4>3. v = 13 + buf[offset + 1]
        BY <3>1
      <4>4. PICK x \in Byte : v = 13 + x
        BY <4>2, <4>3
      <4> HIDE DEF v
      <4> QED
        BY <4>4 DEF Byte
    <3>2. CASE nib = 14
      <4>1. offset + 1 \in 1 .. Len(buf) /\ offset + 2 \in 1 .. Len(buf)
        BY <1>0, <2>1, <3>2
      <4>2. buf[offset + 1] \in Byte /\ buf[offset + 2] \in Byte
        BY <4>1, ElementOfSeq
      <4>3. v = 269 + 256 * buf[offset + 1] + buf[offset + 2]
        BY <3>2
      <4>4. PICK x \in Byte, y \in Byte : v = 269 + 256 * x + y
        BY <4>2, <4>3
      <4> HIDE DEF v
      <4> QED
        BY <4>4 DEF Byte
    <3>3. CASE nib # 13 /\ nib # 14
      <4>1. v = nib
        BY <3>3
      <4>2. nib \in Nat
        OBVIOUS
      <4> QED
        BY <4>1, <4>2, Zenon
    <3> QED
      BY <3>1, <3>2, <3>3
  <2> HIDE DEF v, k
  <2> QED
    BY <2>1, <2>2, <2>3
<1> QED
  BY <1>1, <1>2

LEMMA Nibbles ==
    ASSUME NEW h \in Byte
    PROVE  h \div 16 \in 0 .. 15 /\ h % 16 \in 0 .. 15
BY DEF Byte

\* An option that begins at offset, with its value, ends in the datagram.
OptionWithin(buf, offset, r) ==
    \E num \in UInt16 : \E next \in offset + 1 .. Len(buf) : \E first \in offset + 2 .. next + 1 :
        r = [opt |-> [num |-> num, value |-> SubSeq(buf, first, next)], next |-> next]

\* Whatever the bytes at offset are, the decoder reads no byte behind the end
\* and finds no option there, or one that begins there and ends in the
\* datagram: so the loop over the options advances and comes to an end.
THEOREM OptionInBounds ==
    ASSUME NEW buf \in Seq(Byte), NEW offset \in 0 .. Len(buf) - 1, NEW prev \in UInt16
    PROVE  \/ DecodeOption(buf, offset, prev) = Refused
           \/ OptionWithin(buf, offset, DecodeOption(buf, offset, prev))
<1> DEFINE h == buf[offset + 1]
           delta == Extended(buf, offset + 1, h \div 16)
           len   == Extended(buf, delta.next, h % 16)
<1>0. Len(buf) \in Nat /\ offset \in Nat /\ offset + 1 \in 0 .. Len(buf) /\ offset + 1 \in 1 .. Len(buf)
  OBVIOUS
<1>1. h \div 16 \in 0 .. 15 /\ h % 16 \in 0 .. 15
  <2>1. h \in Byte
    BY <1>0, ElementOfSeq
  <2> QED
    BY <2>1, Nibbles
<1>2. \/ delta = Refused
      \/ \E v \in Nat, next \in offset + 1 .. Len(buf) : delta = [v |-> v, next |-> next]
  <2>1. PICK o \in 0 .. Len(buf), q \in 0 .. 15 : o = offset + 1 /\ q = h \div 16
    BY <1>0, <1>1
  <2>2. \/ Extended(buf, o, q) = Refused
        \/ \E v \in Nat, next \in o .. Len(buf) : Extended(buf, o, q) = [v |-> v, next |-> next]
    BY ExtendedInBounds
  <2> QED
    BY <2>1, <2>2, Zenon
<1>3. CASE delta = Refused
  BY <1>3 DEF DecodeOption, Failed, Refused
<1>4. ASSUME NEW v \in Nat, NEW n \in offset + 1 .. Len(buf), delta = [v |-> v, next |-> n]
      PROVE  \/ DecodeOption(buf, offset, prev) = Refused
             \/ OptionWithin(buf, offset, DecodeOption(buf, offset, prev))
  <2>1. delta.next = n /\ delta.v = v /\ ~Failed(delta) /\ n \in 0 .. Len(buf)
    BY <1>0, <1>4 DEF Failed
  <2>2. \/ len = Refused
        \/ \E w \in Nat, next \in n .. Len(buf) : len = [v |-> w, next |-> next]
    BY <1>1, <2>1, ExtendedInBounds
  <2>3. CASE len = Refused
    <3>1. Failed(len)
      BY <2>3 DEF Failed, Refused
    <3> QED
      BY <2>1, <2>3, <3>1 DEF DecodeOption
  <2>4. ASSUME NEW w \in Nat, NEW m \in n .. Len(buf), len = [v |-> w, next |-> m]
        PROVE  \/ DecodeOption(buf, offset, prev) = Refused
               \/ OptionWithin(buf, offset, DecodeOption(buf, offset, prev))
    <3>1. len.next = m /\ len.v = w /\ ~Failed(len)
      BY <2>4 DEF Failed
    <3>2. CASE ~Room(buf, m, w)
      <4>1. DecodeOption(buf, offset, prev) = Refused
        BY <2>1, <3>1, <3>2, Zenon DEF DecodeOption
      <4> QED
        BY <4>1
    <3>3. CASE Room(buf, m, w)
      <4>1. m + w <= Len(buf) /\ m + w \in offset + 1 .. Len(buf) /\ m + 1 \in offset + 2 .. m + w + 1
        BY <1>0, <3>3 DEF Room
      <4>2. ~(m + w > Len(buf))
        BY <1>0, <4>1
      <4>3. DecodeOption(buf, offset, prev)
              = [opt |-> [num |-> AsUInt16(prev + v), value |-> SubSeq(buf, m + 1, m + w)], next |-> m + w]
        BY <2>1, <3>1, <3>3, <4>2 DEF DecodeOption
      <4>4. AsUInt16(prev + v) \in UInt16
        BY DEF AsUInt16, UInt16
      <4> QED
        BY <4>1, <4>3, <4>4 DEF OptionWithin
    <3> QED
      BY <3>2, <3>3
  <2> QED
    BY <2>2, <2>3, <2>4
<1> QED
  BY <1>2, <1>3, <1>4

-----------------------------------------------------------------------------
(* Induction.  The theorems of the library take an operator; this one      *)
(* takes a set, of which the least element outside is looked at.           *)

LEMMA Least ==
    ASSUME NEW T \in SUBSET Nat, T # {}
    PROVE  \E n \in T : \A k \in T : n <= k
<1> DEFINE R == {p \in Nat \X Nat : p[1] < p[2]}
<1>1. IsWellFoundedOn(R, Nat)
  BY NatLessThanWellFounded DEF OpToRel
<1>2. PICK n \in T : \A k \in T : ~(<<k, n>> \in R)
  <2> HIDE DEF R
  <2> QED BY <1>1, WFMin
<1>3. \A k \in T : ~(k < n)
  BY <1>2
<1> QED
  BY <1>3

LEMMA Induction ==
    ASSUME NEW S, 0 \in S, \A n \in Nat : n \in S => n + 1 \in S
    PROVE  Nat \subseteq S
<1>1. SUFFICES ASSUME Nat \ S # {} PROVE FALSE
  OBVIOUS
<1>2. PICK n \in Nat \ S : \A k \in Nat \ S : n <= k
  BY <1>1, Least
<1>3. n # 0 /\ n - 1 \in Nat
  BY <1>2
<1>4. n - 1 \in S
  BY <1>2, <1>3
<1> QED
  BY <1>2, <1>3, <1>4

\* The values of f from x on, each made from its index and the one before by g.
Iterates(f, n, S, g, x) ==
    /\ f \in [0 .. n -> S]
    /\ f[0] = x
    /\ \A i \in 1 .. n : f[i] = g[i][f[i - 1]]

LEMMA IterationExists ==
    ASSUME NEW S, NEW x \in S, NEW g \in [Nat -> [S -> S]], NEW n \in Nat
    PROVE  \E f : Iterates(f, n, S, g, x)
<1> DEFINE T == {m \in Nat : \E f : Iterates(f, m, S, g, x)}
<1>1. 0 \in T
  <2>1. Iterates([i \in 0 .. 0 |-> x], 0, S, g, x)
    BY DEF Iterates
  <2> QED
    BY <2>1
<1>2. ASSUME NEW m \in Nat, m \in T PROVE m + 1 \in T
  <2>1. PICK f : Iterates(f, m, S, g, x)
    BY <1>2
  <2> DEFINE h == [i \in 0 .. m + 1 |-> IF i <= m THEN f[i] ELSE g[m + 1][f[m]]]
  <2>2. f \in [0 .. m -> S] /\ m \in 0 .. m /\ f[m] \in S
    BY <2>1 DEF Iterates
  <2>3. g[m + 1][f[m]] \in S
    BY <2>2
  <2>4. /\ \A i \in 0 .. m : h[i] = f[i]
        /\ h[m + 1] = g[m + 1][f[m]]
    OBVIOUS
  <2>5. h \in [0 .. m + 1 -> S]
    BY <2>2, <2>3
  <2>6. h[0] = x
    BY <2>1, <2>4 DEF Iterates
  <2>7. ASSUME NEW i \in 1 .. m + 1 PROVE h[i] = g[i][h[i - 1]]
    <3>1. CASE i = m + 1
      <4>1. h[i - 1] = f[m]
        BY <2>4, <3>1
      <4> QED
        BY <2>4, <3>1, <4>1
    <3>2. CASE i # m + 1
      <4>1. i \in 1 .. m /\ i \in 0 .. m /\ i - 1 \in 0 .. m
        BY <3>2
      <4>2. h[i] = f[i] /\ h[i - 1] = f[i - 1]
        BY <2>4, <4>1
      <4> QED
        BY <2>1, <4>1, <4>2 DEF Iterates
    <3> QED
      BY <3>1, <3>2
  <2> HIDE DEF h
  <2>8. Iterates(h, m + 1, S, g, x)
    BY <2>5, <2>6, <2>7 DEF Iterates
  <2> QED
    BY <2>8
<1>3. Nat \subseteq T
  <2> HIDE DEF T
  <2> QED BY <1>1, <1>2, Induction
<1> QED
  BY <1>3

-----------------------------------------------------------------------------
(* The bytes the encoder makes of a sequence of options                    *)

LEMMA ExtensionBytes ==
    ASSUME NEW v \in Nat
    PROVE  Extension(v) \in Seq(Byte) /\ Nibble(v) \in 0 .. 14
<1>1. CASE v < 13
  BY <1>1 DEF Extension, Nibble
<1>2. CASE 13 <= v /\ v < 269
  <2>1. Extension(v) = <<(v - 13) % 256>> /\ Nibble(v) = 13
    BY <1>2 DEF Extension, Nibble, ByteLimit
  <2>2. (v - 13) % 256 \in Byte
    BY DEF Byte
  <2> QED
    BY <2>1, <2>2
<1>3. CASE 269 <= v
  <2>1. Extension(v) = BigEndian(AsUInt16(v - 269)) /\ Nibble(v) = 14
    BY <1>3 DEF Extension, Nibble, ByteLimit
  <2>2. PICK x \in Int : x = AsUInt16(v - 269) /\ 0 <= x /\ x < 65536
    BY DEF AsUInt16
  <2>3. x \div 256 \in Byte /\ x % 256 \in Byte
    BY <2>2, TwoBytes
  <2> QED
    BY <2>1, <2>2, <2>3 DEF BigEndian
<1> QED
  BY <1>1, <1>2, <1>3

LEMMA ConcatType ==
    ASSUME NEW s \in Seq(Byte), NEW t \in Seq(Byte)
    PROVE  s \o t \in Seq(Byte) /\ Len(s \o t) = Len(s) + Len(t)
BY ConcatProperties, Zenon

LEMMA EncodeOptionType ==
    ASSUME NEW prev \in UInt16, NEW opt \in Options
    PROVE  /\ EncodeOption(prev, opt) \in Seq(Byte)
           /\ Len(opt.value) < Len(EncodeOption(prev, opt))
<1> DEFINE delta == Delta(prev, opt.num)
           len   == Len(opt.value)
           first == <<Nibble(delta) * 16 + Nibble(len)>>
<1>1. opt.num \in UInt16 /\ opt.value \in Seq(Byte) /\ len \in Nat
  BY LenProperties DEF Options
<1>2. delta \in Nat
  BY <1>1, DeltaType DEF Values
<1>3. /\ Extension(delta) \in Seq(Byte) /\ Nibble(delta) \in 0 .. 14
      /\ Extension(len) \in Seq(Byte) /\ Nibble(len) \in 0 .. 14
  <2> HIDE DEF delta, len
  <2> QED BY <1>1, <1>2, ExtensionBytes
<1>4. first \in Seq(Byte) /\ Len(first) = 1
  <2>1. Nibble(delta) * 16 + Nibble(len) \in Byte
    BY <1>3, FirstByte
  <2> HIDE DEF delta, len
  <2> QED BY <2>1
<1>5. EncodeOption(prev, opt) = ((first \o Extension(delta)) \o Extension(len)) \o opt.value
  BY DEF EncodeOption
<1> HIDE DEF delta, len, first
<1>6. PICK d \in Seq(Byte), l \in Seq(Byte) : d = Extension(delta) /\ l = Extension(len)
  BY <1>3
<1>7. first \o d \in Seq(Byte) /\ Len(first \o d) = 1 + Len(d)
  BY <1>4, ConcatType
<1>8. (first \o d) \o l \in Seq(Byte) /\ Len((first \o d) \o l) = 1 + Len(d) + Len(l)
  BY <1>7, ConcatType
<1>9. PICK s \in Seq(Byte) : s = (first \o d) \o l /\ Len(s) = 1 + Len(d) + Len(l)
  BY <1>8
<1>10. s \o opt.value \in Seq(Byte) /\ Len(s \o opt.value) = Len(s) + Len(opt.value)
  BY <1>1, ConcatType
<1>11. Len(d) \in Nat /\ Len(l) \in Nat /\ Len(opt.value) \in Nat
  BY <1>1, LenProperties
<1>12. EncodeOption(prev, opt) = s \o opt.value
  BY <1>5, <1>6, <1>9, Zenon
<1>13. PICK t \in Seq(Byte) : t = EncodeOption(prev, opt) /\ Len(t) = Len(s) + Len(opt.value)
  BY <1>10, <1>12, Zenon
<1>14. Len(opt.value) < Len(t)
  <2>1. Len(s) = 1 + Len(d) + Len(l)
    BY <1>9
  <2>2. Len(t) = Len(s) + Len(opt.value)
    BY <1>13
  <2>3. PICK a \in Nat, b \in Nat, c \in Nat : a = Len(d) /\ b = Len(l) /\ c = Len(opt.value)
    BY <1>11, Zenon
  <2>4. Len(t) = (1 + a + b) + c
    BY <2>1, <2>2, <2>3, Zenon
  <2>5. c < (1 + a + b) + c
    OBVIOUS
  <2> QED
    BY <2>3, <2>4, <2>5, Zenon
<1> QED
  BY <1>13, <1>14, Zenon

LEMMA NumberType ==
    ASSUME NEW options \in Seq(Options), NEW i \in 0 .. Len(options)
    PROVE  NumberOf(options, i) \in UInt16
<1>1. Len(options) \in Nat
  BY LenProperties
<1>2. CASE i = 0
  BY <1>2 DEF NumberOf, UInt16
<1>3. CASE i # 0
  <2>1. options[i] \in Options
    BY <1>1, <1>3, ElementOfSeq
  <2> QED
    BY <1>3, <2>1 DEF NumberOf, Options
<1> QED
  BY <1>2, <1>3

\* The first options take these bytes: those of one fewer, and the last one's.
LEMMA EncodedFacts ==
    ASSUME NEW options \in Seq(Options)
    PROVE  /\ \A i \in 0 .. Len(options) : Encoded(options)[i] \in Seq(Byte)
           /\ Encoded(options)[0] = <<>>
           /\ \A i \in 1 .. Len(options) :
                Encoded(options)[i]
                  = Encoded(options)[i - 1] \o EncodeOption(NumberOf(options, i - 1), options[i])
<1> DEFINE n == Len(options)
           Bytes(i) == EncodeOption(NumberOf(options, i - 1), options[i])
           More(i, s) == IF i \in 1 .. n THEN s \o Bytes(i) ELSE s
           g == [i \in Nat |-> [s \in Seq(Byte) |-> More(i, s)]]
           E == Encoded(options)
<1>1. n \in Nat
  BY LenProperties
<1>2. ASSUME NEW i \in 1 .. n PROVE Bytes(i) \in Seq(Byte)
  <2>1. options[i] \in Options /\ i - 1 \in 0 .. Len(options)
    BY <1>1, ElementOfSeq
  <2> QED
    BY <2>1, NumberType, EncodeOptionType
<1>3. /\ g \in [Nat -> [Seq(Byte) -> Seq(Byte)]]
      /\ \A i \in 1 .. n, s \in Seq(Byte) : g[i][s] = s \o Bytes(i)
  <2> HIDE DEF Bytes, n
  <2>1. ASSUME NEW i \in Nat, NEW s \in Seq(Byte)
        PROVE  More(i, s) \in Seq(Byte)
    BY <1>2, ConcatType
  <2>2. \A i \in 1 .. n, s \in Seq(Byte) : i \in Nat /\ More(i, s) = s \o Bytes(i)
    BY <1>1
  <2> HIDE DEF More
  <2>3. g \in [Nat -> [Seq(Byte) -> Seq(Byte)]]
    BY <2>1
  <2>4. \A i \in Nat, s \in Seq(Byte) : g[i][s] = More(i, s)
    OBVIOUS
  <2> QED
    BY <2>2, <2>3, <2>4, Zenon
<1> HIDE DEF n, Bytes, More, g, E
<1>4. PICK h : Iterates(h, n, Seq(Byte), g, <<>>)
  <2>1. <<>> \in Seq(Byte)
    OBVIOUS
  <2> QED BY <1>1, <1>3, <2>1, IterationExists
<1>5. h = [i \in 0 .. n |-> IF i = 0 THEN <<>> ELSE h[i - 1] \o Bytes(i)]
  <2>1. h \in [0 .. n -> Seq(Byte)] /\ h[0] = <<>>
    BY <1>4 DEF Iterates
  <2>2. ASSUME NEW i \in 0 .. n, i # 0 PROVE h[i] = h[i - 1] \o Bytes(i)
    <3>1. i \in 1 .. n /\ i - 1 \in 0 .. n
      BY <1>1, <2>2
    <3>2. h[i] = g[i][h[i - 1]]
      BY <1>4, <3>1 DEF Iterates
    <3>3. h[i - 1] \in Seq(Byte)
      BY <2>1, <3>1
    <3> QED
      BY <1>3, <3>1, <3>2, <3>3
  <2>3. ASSUME NEW i \in 0 .. n
        PROVE  h[i] = IF i = 0 THEN <<>> ELSE h[i - 1] \o Bytes(i)
    BY <2>1, <2>2, Zenon
  <2> QED
    BY <2>1, <2>3, Zenon
<1>6. E = [i \in 0 .. n |-> IF i = 0 THEN <<>> ELSE E[i - 1] \o Bytes(i)]
  BY <1>5, Zenon DEF Encoded, E, Bytes, n
<1>7. E[0] = <<>>
  <2>1. 0 \in 0 .. n
    BY <1>1
  <2> QED
    BY <1>6, <2>1, Zenon
<1>8. ASSUME NEW i \in 1 .. n PROVE E[i] = E[i - 1] \o Bytes(i)
  <2>1. i \in 0 .. n /\ i # 0
    BY <1>1
  <2> QED
    BY <1>6, <2>1, Zenon
<1>9. \A i \in 0 .. n : E[i] \in Seq(Byte)
  <2> DEFINE S == {i \in Nat : i <= n => E[i] \in Seq(Byte)}
  <2>1. 0 \in S
    <3>1. E[0] \in Seq(Byte)
      BY <1>7
    <3> QED
      BY <3>1
  <2>2. ASSUME NEW i \in Nat, i \in S PROVE i + 1 \in S
    <3>1. CASE i + 1 <= n
      <4>1. i + 1 \in 1 .. n /\ (i + 1) - 1 = i /\ E[i] \in Seq(Byte)
        BY <1>1, <2>2, <3>1
      <4>2. E[i + 1] = E[i] \o Bytes(i + 1)
        BY <1>8, <4>1
      <4>3. E[i + 1] \in Seq(Byte)
        BY <1>2, <4>1, <4>2, ConcatType
      <4> QED
        BY <4>3
    <3>2. CASE ~(i + 1 <= n)
      BY <3>2
    <3> QED
      BY <3>1, <3>2
  <2>3. Nat \subseteq S
    <3> HIDE DEF S
    <3> QED BY <2>1, <2>2, Induction
  <2> QED
    BY <1>1, <2>3
<1> QED
  BY <1>7, <1>8, <1>9, Zenon DEF E, Bytes, n

-----------------------------------------------------------------------------
(* The loop over the options                                               *)

\* Where the loop over the options of buf may be.
Parsing(buf) ==
    [offset : 0 .. Len(buf), num : UInt16, options : Seq(Options)] \cup {Refused}

LEMMA PieceType ==
    ASSUME NEW buf \in Seq(Byte), NEW lo \in Nat, NEW hi \in Nat, 1 <= lo, hi <= Len(buf)
    PROVE  /\ SubSeq(buf, lo, hi) \in Seq(Byte)
           /\ Len(SubSeq(buf, lo, hi)) = IF lo <= hi THEN hi - lo + 1 ELSE 0
           /\ \A i \in 1 .. hi - lo + 1 : SubSeq(buf, lo, hi)[i] = buf[lo + i - 1]
<1>1. Len(buf) \in Nat
  BY LenProperties
<1>2. ASSUME NEW i \in lo .. hi PROVE buf[i] \in Byte
  <2>1. i \in 1 .. Len(buf)
    BY <1>1
  <2> QED
    BY <2>1, ElementOfSeq
<1> QED
  BY <1>2, SubSeqProperties

LEMMA PieceIs ==
    ASSUME NEW buf \in Seq(Byte), NEW lo \in Nat, NEW hi \in Nat, 1 <= lo, hi <= Len(buf)
    PROVE  \E s \in Seq(Byte) :
             /\ s = SubSeq(buf, lo, hi) /\ Len(s) = IF lo <= hi THEN hi - lo + 1 ELSE 0
             /\ \A i \in 1 .. hi - lo + 1 : s[i] = buf[lo + i - 1]
<1>1. SubSeq(buf, lo, hi) \in Seq(Byte)
  BY PieceType
<1>2. Len(SubSeq(buf, lo, hi)) = IF lo <= hi THEN hi - lo + 1 ELSE 0
  BY PieceType
<1>3. \A i \in 1 .. hi - lo + 1 : SubSeq(buf, lo, hi)[i] = buf[lo + i - 1]
  BY PieceType
<1> QED
  BY <1>1, <1>2, <1>3, Zenon

\* An option found behind the offset is one, and ends in the datagram.
LEMMA DecodedType ==
    ASSUME NEW buf \in Seq(Byte), NEW offset \in 0 .. Len(buf) - 1, NEW prev \in UInt16,
           DecodeOption(buf, offset, prev) # Refused
    PROVE  \E opt \in Options, next \in 0 .. Len(buf) :
             DecodeOption(buf, offset, prev) = [opt |-> opt, next |-> next]
<1>1. OptionWithin(buf, offset, DecodeOption(buf, offset, prev))
  BY OptionInBounds
<1>8. PICK num \in UInt16, next \in offset + 1 .. Len(buf) : \E first \in offset + 2 .. next + 1 :
        DecodeOption(buf, offset, prev)
          = [opt |-> [num |-> num, value |-> SubSeq(buf, first, next)], next |-> next]
  BY <1>1 DEF OptionWithin
<1>2. PICK first \in offset + 2 .. next + 1 :
        DecodeOption(buf, offset, prev)
          = [opt |-> [num |-> num, value |-> SubSeq(buf, first, next)], next |-> next]
  BY <1>8
<1>3. Len(buf) \in Nat /\ next \in Nat /\ first \in Nat /\ 1 <= first /\ next <= Len(buf)
  BY LenProperties
<1>4. SubSeq(buf, first, next) \in Seq(Byte)
  BY <1>3, PieceType
<1>5. PICK opt : opt = [num |-> num, value |-> SubSeq(buf, first, next)]
  OBVIOUS
<1>6. opt \in Options
  BY <1>4, <1>5 DEF Options
<1>7. next \in 0 .. Len(buf)
  BY <1>3
<1> QED
  BY <1>2, <1>5, <1>6, <1>7

LEMMA ParsingFacts ==
    ASSUME NEW buf \in Seq(Byte), NEW at \in Parsing(buf), ~Failed(at)
    PROVE  /\ at.offset \in 0 .. Len(buf) /\ at.num \in UInt16 /\ at.options \in Seq(Options)
           /\ at = [offset |-> at.offset, num |-> at.num, options |-> at.options]
<1>1. at # Refused
  BY DEF Failed, Refused
<1> QED
  BY <1>1 DEF Parsing

LEMMA TurnType ==
    ASSUME NEW buf \in Seq(Byte), NEW at \in Parsing(buf)
    PROVE  Turn(buf, at) \in Parsing(buf)
<1>1. CASE ~AtOption(buf, at) \/ Len(at.options) >= MaxOptions
  BY <1>1 DEF Turn, Parsing
<1>2. CASE AtOption(buf, at) /\ ~(Len(at.options) >= MaxOptions)
  <2>1. /\ ~Failed(at) /\ at.offset \in 0 .. Len(buf) /\ at.num \in UInt16
        /\ at.options \in Seq(Options)
    BY <1>2, ParsingFacts DEF AtOption
  <2>2. at.offset \in 0 .. Len(buf) - 1
    BY <1>2, <2>1, LenProperties DEF AtOption
  <2> DEFINE r == DecodeOption(buf, at.offset, at.num)
  <2>3. CASE r = Refused
    BY <1>2, <2>3 DEF Turn, Parsing, Failed, Refused
  <2>4. CASE r # Refused
    <3>1. PICK opt \in Options, next \in 0 .. Len(buf) : r = [opt |-> opt, next |-> next]
      BY <2>1, <2>2, <2>4, DecodedType
    <3>2. ~Failed(r) /\ r.opt = opt /\ r.next = next
      BY <3>1 DEF Failed
    <3>3. Turn(buf, at) = [offset |-> next, num |-> opt.num, options |-> Append(at.options, opt)]
      BY <1>2, <3>2, Zenon DEF Turn
    <3>4. opt.num \in UInt16 /\ Append(at.options, opt) \in Seq(Options)
      BY <2>1, AppendProperties DEF Options
    <3> QED
      BY <3>3, <3>4 DEF Parsing
  <2> QED
    BY <2>3, <2>4
<1> QED
  BY <1>1, <1>2

Start(start) == [offset |-> start, num |-> 0, options |-> <<>>]

\* The loop begins without options, and goes on turn by turn.
LEMMA LoopFacts ==
    ASSUME NEW buf \in Seq(Byte), NEW start \in 0 .. Len(buf)
    PROVE  /\ \A n \in 0 .. Turns : Loop(buf, start)[n] \in Parsing(buf)
           /\ Loop(buf, start)[0] = Start(start)
           /\ \A n \in 1 .. Turns : Loop(buf, start)[n] = Turn(buf, Loop(buf, start)[n - 1])
<1> DEFINE g == [i \in Nat |-> [at \in Parsing(buf) |-> Turn(buf, at)]]
           L == Loop(buf, start)
           x == Start(start)
<1>1. Turns \in Nat
  BY DEF Turns, MaxOptions
<1>2. x \in Parsing(buf)
  <2>1. <<>> \in Seq(Options) /\ 0 \in UInt16
    BY DEF UInt16
  <2> QED
    BY <2>1 DEF Parsing, Start
<1>3. /\ g \in [Nat -> [Parsing(buf) -> Parsing(buf)]]
      /\ \A i \in Nat, at \in Parsing(buf) : g[i][at] = Turn(buf, at)
  BY TurnType
<1> HIDE DEF g, L, x
<1>4. PICK h : Iterates(h, Turns, Parsing(buf), g, x)
  BY <1>1, <1>2, <1>3, IterationExists
<1>5. h = [n \in 0 .. Turns |-> IF n = 0 THEN x ELSE Turn(buf, h[n - 1])]
  <2>1. h \in [0 .. Turns -> Parsing(buf)] /\ h[0] = x
    BY <1>4 DEF Iterates
  <2>2. ASSUME NEW n \in 0 .. Turns, n # 0 PROVE h[n] = Turn(buf, h[n - 1])
    <3>1. n \in 1 .. Turns /\ n - 1 \in 0 .. Turns /\ n \in Nat
      BY <1>1, <2>2
    <3>2. h[n] = g[n][h[n - 1]]
      BY <1>4, <3>1 DEF Iterates
    <3>3. h[n - 1] \in Parsing(buf)
      BY <2>1, <3>1
    <3> QED
      BY <1>3, <3>1, <3>2, <3>3
  <2>3. ASSUME NEW n \in 0 .. Turns
        PROVE  h[n] = IF n = 0 THEN x ELSE Turn(buf, h[n - 1])
    BY <2>1, <2>2, Zenon
  <2> QED
    BY <2>1, <2>3, Zenon
<1>6. L = [n \in 0 .. Turns |-> IF n = 0 THEN x ELSE Turn(buf, L[n - 1])]
  BY <1>5, Zenon DEF Loop, L, x, Start
<1>7. L[0] = x
  <2>1. 0 \in 0 .. Turns
    BY <1>1
  <2> QED
    BY <1>6, <2>1, Zenon
<1>8. ASSUME NEW n \in 1 .. Turns PROVE L[n] = Turn(buf, L[n - 1])
  <2>1. n \in 0 .. Turns /\ n # 0
    BY <1>1
  <2> QED
    BY <1>6, <2>1, Zenon
<1>9. \A n \in 0 .. Turns : L[n] \in Parsing(buf)
  <2> DEFINE S == {n \in Nat : n <= Turns => L[n] \in Parsing(buf)}
  <2>1. 0 \in S
    BY <1>2, <1>7
  <2>2. ASSUME NEW n \in Nat, n \in S PROVE n + 1 \in S
    <3>1. CASE n + 1 <= Turns
      <4>1. n + 1 \in 1 .. Turns /\ (n + 1) - 1 = n /\ L[n] \in Parsing(buf)
        BY <1>1, <2>2, <3>1
      <4>2. L[n + 1] = Turn(buf, L[n])
        BY <1>8, <4>1
      <4>3. L[n + 1] \in Parsing(buf)
        BY <4>1, <4>2, TurnType
      <4> QED
        BY <4>3
    <3>2. CASE ~(n + 1 <= Turns)
      BY <3>2
    <3> QED
      BY <3>1, <3>2
  <2>3. Nat \subseteq S
    <3> HIDE DEF S
    <3> QED BY <2>1, <2>2, Induction
  <2> QED
    BY <1>1, <2>3
<1> QED
  BY <1>7, <1>8, <1>9, Zenon DEF L, x

-----------------------------------------------------------------------------
(* The loop goes along the options as the encoder has put them down.       *)

LEMMA OptionsStand ==
    ASSUME NEW buf \in Seq(Byte), NEW start \in Nat, NEW options \in Seq(Options),
           Holds(buf, start, EncodeOptions(options))
    PROVE  \A k \in 0 .. Len(options) : Holds(buf, start, Encoded(options)[k])
<1> DEFINE m == Len(options)
           E == Encoded(options)
           S == {j \in Nat : j <= m => Holds(buf, start, E[m - j])}
<1>1. m \in Nat
  BY LenProperties
<1>2. 0 \in S
  <2>1. m - 0 = m
    BY <1>1
  <2> QED
    BY <2>1 DEF EncodeOptions
<1>3. ASSUME NEW j \in Nat, j \in S PROVE j + 1 \in S
  <2>1. CASE j + 1 <= m
    <3> DEFINE k == m - j
    <3>1. k \in 1 .. m /\ k - 1 = m - (j + 1)
      BY <1>1, <2>1
    <3>2. Holds(buf, start, E[k])
      BY <1>1, <1>3, <2>1
    <3> HIDE DEF k
    <3>3. /\ E[k] = E[k - 1] \o EncodeOption(NumberOf(options, k - 1), options[k])
          /\ E[k - 1] \in Seq(Byte) /\ options[k] \in Options /\ NumberOf(options, k - 1) \in UInt16
      <4>1. k - 1 \in 0 .. Len(options)
        BY <1>1, <3>1
      <4> QED
        BY <3>1, <4>1, EncodedFacts, NumberType, ElementOfSeq
    <3>4. EncodeOption(NumberOf(options, k - 1), options[k]) \in Seq(Byte)
      BY <3>3, EncodeOptionType
    <3> HIDE DEF E
    <3>5. Holds(buf, start, E[k - 1])
      BY <3>2, <3>3, <3>4, HoldsConcat
    <3> QED
      BY <3>1, <3>5
  <2>2. CASE ~(j + 1 <= m)
    BY <2>2
  <2> QED
    BY <2>1, <2>2
<1>4. Nat \subseteq S
  <2> HIDE DEF S
  <2> QED BY <1>2, <1>3, Induction
<1>5. ASSUME NEW k \in 0 .. m PROVE Holds(buf, start, E[k])
  <2>1. m - k \in Nat /\ m - k <= m /\ m - (m - k) = k
    BY <1>1
  <2>2. m - k \in S
    BY <1>4, <2>1
  <2>3. Holds(buf, start, E[m - (m - k)])
    BY <2>1, <2>2
  <2> QED
    BY <2>1, <2>3
<1> QED
  BY <1>5

\* Where the option after the first k - 1 stands.
LEMMA OptionStands ==
    ASSUME NEW buf \in Seq(Byte), NEW start \in Nat, NEW options \in Seq(Options),
           Holds(buf, start, EncodeOptions(options)),
           NEW k \in 1 .. Len(options)
    PROVE  LET bytes == EncodeOption(NumberOf(options, k - 1), options[k])
               o     == start + Len(Encoded(options)[k - 1])
           IN  /\ Holds(buf, o, bytes)
               /\ o \in Nat /\ o < Len(buf)
               /\ o + Len(bytes) = start + Len(Encoded(options)[k])
               /\ Len(options[k].value) <= Len(buf)
<1> DEFINE E == Encoded(options)
           bytes == EncodeOption(NumberOf(options, k - 1), options[k])
<1>1. /\ E[k] = E[k - 1] \o bytes /\ E[k - 1] \in Seq(Byte)
      /\ options[k] \in Options /\ NumberOf(options, k - 1) \in UInt16
      /\ Len(buf) \in Nat /\ k \in 0 .. Len(options)
  <2>1. k - 1 \in 0 .. Len(options) /\ k \in 0 .. Len(options) /\ Len(buf) \in Nat
    BY LenProperties
  <2> QED
    BY <2>1, EncodedFacts, NumberType, ElementOfSeq
<1>2. bytes \in Seq(Byte) /\ Len(options[k].value) < Len(bytes)
  BY <1>1, EncodeOptionType
<1>3. Holds(buf, start, E[k])
  BY <1>1, OptionsStand
<1>4. options[k].value \in Seq(Byte)
  BY <1>1 DEF Options
<1> HIDE DEF E, bytes
<1>5. Holds(buf, start + Len(E[k - 1]), bytes)
  BY <1>1, <1>2, <1>3, HoldsConcat
<1>6. PICK a \in Nat, b \in Nat, c \in Nat : a = Len(E[k - 1]) /\ b = Len(bytes) /\ c = Len(options[k].value)
  BY <1>1, <1>2, <1>4, LenProperties
<1>7. Len(E[k]) = a + b
  BY <1>1, <1>2, <1>6, ConcatType
<1>8. start + a + b <= Len(buf)
  BY <1>5, <1>6 DEF Holds
<1>9. start + a \in Nat /\ start + a < Len(buf) /\ start + a + b = start + (a + b) /\ c <= Len(buf)
  <2>1. c < b
    BY <1>2, <1>6
  <2>2. PICK n \in Nat : n = Len(buf)
    BY <1>1
  <2>3. start + a + b <= n
    BY <1>8, <2>2
  <2>4. start + a \in Nat /\ start + a < n /\ start + a + b = start + (a + b) /\ c <= n
    BY <2>1, <2>3
  <2> QED
    BY <2>2, <2>4
<1> QED
  BY <1>5, <1>6, <1>7, <1>9 DEF E, bytes

LEMMA PrefixGrows ==
    ASSUME NEW options \in Seq(Options), NEW k \in 1 .. Len(options)
    PROVE  /\ Append(SubSeq(options, 1, k - 1), options[k]) = SubSeq(options, 1, k)
           /\ SubSeq(options, 1, k - 1) \in Seq(Options)
           /\ Len(SubSeq(options, 1, k - 1)) = k - 1
<1>1. Len(options) \in Nat /\ k \in Nat /\ k - 1 \in Nat
  BY LenProperties
<1>2. ASSUME NEW j \in 0 .. Len(options)
      PROVE  /\ SubSeq(options, 1, j) \in Seq(Options)
             /\ Len(SubSeq(options, 1, j)) = j
             /\ \A i \in 1 .. j : SubSeq(options, 1, j)[i] = options[i]
  <2>1. \A i \in 1 .. j : options[i] \in Options
    <3>1. \A i \in 1 .. j : i \in 1 .. Len(options)
      BY <1>1
    <3> QED
      BY <3>1, ElementOfSeq, Zenon
  <2>2. j \in Int
    OBVIOUS
  <2>3. /\ SubSeq(options, 1, j) \in Seq(Options)
        /\ Len(SubSeq(options, 1, j)) = IF 1 <= j THEN j - 1 + 1 ELSE 0
        /\ \A i \in 1 .. j - 1 + 1 : SubSeq(options, 1, j)[i] = options[1 + i - 1]
    BY <2>1, <2>2, SubSeqProperties
  <2>4. (IF 1 <= j THEN j - 1 + 1 ELSE 0) = j /\ j - 1 + 1 = j /\ \A i \in 1 .. j : 1 + i - 1 = i
    OBVIOUS
  <2> QED
    BY <2>3, <2>4
<1>3. k \in 0 .. Len(options) /\ k - 1 \in 0 .. Len(options) /\ (k - 1) + 1 = k
  BY <1>1
<1>4. PICK s \in Seq(Options), t \in Seq(Options) : s = SubSeq(options, 1, k - 1) /\ t = SubSeq(options, 1, k)
  BY <1>2, <1>3
<1>5. /\ Len(s) = k - 1 /\ Len(t) = k
      /\ \A i \in 1 .. k - 1 : s[i] = options[i]
      /\ \A i \in 1 .. k : t[i] = options[i]
  BY <1>2, <1>3, <1>4, Zenon
<1>6. options[k] \in Options
  BY ElementOfSeq
<1>7. /\ Append(s, options[k]) \in Seq(Options)
      /\ Len(Append(s, options[k])) = Len(s) + 1
      /\ \A i \in 1 .. Len(s) : Append(s, options[k])[i] = s[i]
      /\ Append(s, options[k])[Len(s) + 1] = options[k]
  BY <1>6, AppendProperties
<1>8. \A i \in 1 .. k : Append(s, options[k])[i] = t[i]
  <2>1. ASSUME NEW i \in 1 .. k PROVE Append(s, options[k])[i] = t[i]
    <3>1. CASE i = k
      BY <1>3, <1>5, <1>7, <3>1
    <3>2. CASE i # k
      <4>1. i \in 1 .. k - 1
        BY <1>1, <3>2
      <4> QED
        BY <1>5, <1>7, <4>1
    <3> QED
      BY <3>1, <3>2
  <2> QED
    BY <2>1
<1>9. Len(Append(s, options[k])) = Len(t)
  BY <1>3, <1>5, <1>7
<1>10. Append(s, options[k]) = t
  BY <1>5, <1>7, <1>8, <1>9, SeqEqual, Zenon
<1> QED
  BY <1>4, <1>5, <1>10

\* Where the loop is when it has read the first k options.
After(options, start, k) ==
    [offset |-> start + Len(Encoded(options)[k]), num |-> NumberOf(options, k),
     options |-> SubSeq(options, 1, k)]

LEMMA TurnFollows ==
    ASSUME NEW buf \in Seq(Byte), Len(buf) <= MaxValue, NEW start \in Nat,
           NEW options \in Seq(Options), Holds(buf, start, EncodeOptions(options)),
           NEW k \in 1 .. Len(options)
    PROVE  LET before == After(options, start, k - 1)
           IN  /\ AtOption(buf, before)
               /\ Len(before.options) = k - 1
               /\ k <= MaxOptions => Turn(buf, before) = After(options, start, k)
<1> DEFINE before == After(options, start, k - 1)
           prev   == NumberOf(options, k - 1)
           bytes  == EncodeOption(prev, options[k])
           o      == start + Len(Encoded(options)[k - 1])
<1>1. /\ Holds(buf, o, bytes) /\ o \in Nat /\ o < Len(buf)
      /\ o + Len(bytes) = start + Len(Encoded(options)[k])
      /\ Len(options[k].value) <= Len(buf)
  BY OptionStands, Zenon
<1>2. /\ options[k] \in Options /\ prev \in UInt16 /\ k \in Nat /\ k # 0
  <2>1. k - 1 \in 0 .. Len(options)
    BY LenProperties
  <2> QED
    BY <2>1, NumberType, ElementOfSeq
<1>3. before.offset = o /\ before.num = prev /\ before.options = SubSeq(options, 1, k - 1)
  BY DEF After
<1>4. ~Failed(before)
  BY DEF After, Failed
<1> HIDE DEF before, o, bytes
<1>5. Len(options[k].value) <= MaxValue
  <2>1. options[k].value \in Seq(Byte)
    BY <1>2 DEF Options
  <2>2. PICK c \in Nat, n \in Nat : c = Len(options[k].value) /\ n = Len(buf)
    BY <2>1, LenProperties
  <2>3. c <= MaxValue
    BY <1>1, <2>2 DEF MaxValue
  <2> QED
    BY <2>2, <2>3
<1>6. /\ buf[o + 1] # Marker
      /\ DecodeOption(buf, o, prev) = [opt |-> options[k], next |-> o + Len(bytes)]
  BY <1>1, <1>2, <1>5, OptionRoundTrip DEF bytes
<1>7. AtOption(buf, before)
  BY <1>1, <1>3, <1>4, <1>6 DEF AtOption
<1>8. /\ Append(SubSeq(options, 1, k - 1), options[k]) = SubSeq(options, 1, k)
      /\ Len(before.options) = k - 1
  BY <1>3, PrefixGrows
<1>9. ASSUME k <= MaxOptions PROVE Turn(buf, before) = After(options, start, k)
  <2>1. PICK r : r = DecodeOption(buf, before.offset, before.num)
    OBVIOUS
  <2>2. r.opt = options[k] /\ r.next = o + Len(bytes) /\ ~Failed(r)
    <3>1. r = [opt |-> options[k], next |-> o + Len(bytes)]
      BY <1>3, <1>6, <2>1, Zenon
    <3> QED
      BY <3>1 DEF Failed
  <2>3. ~(Len(before.options) >= MaxOptions)
    BY <1>2, <1>8, <1>9 DEF MaxOptions
  <2>4. Turn(buf, before)
          = [offset |-> r.next, num |-> r.opt.num, options |-> Append(before.options, r.opt)]
    BY <1>7, <2>1, <2>2, <2>3, Zenon DEF Turn
  <2>5. r.opt.num = NumberOf(options, k)
    BY <1>2, <2>2 DEF NumberOf
  <2> QED
    BY <1>1, <1>3, <1>8, <2>2, <2>4, <2>5, Zenon DEF After
<1> QED
  BY <1>7, <1>8, <1>9 DEF before

LEMMA LoopFollows ==
    ASSUME NEW buf \in Seq(Byte), Len(buf) <= MaxValue, NEW start \in 0 .. Len(buf),
           NEW options \in Seq(Options), Holds(buf, start, EncodeOptions(options))
    PROVE  \A k \in 0 .. Len(options) :
             k <= MaxOptions => Loop(buf, start)[k] = After(options, start, k)
<1> DEFINE m == Len(options)
           L == Loop(buf, start)
           S == {k \in Nat : k <= m /\ k <= MaxOptions => L[k] = After(options, start, k)}
<1>1. m \in Nat /\ start \in Nat /\ Turns \in Nat
  BY LenProperties DEF Turns, MaxOptions
<1>2. 0 \in S
  <2>1. Encoded(options)[0] = <<>> /\ NumberOf(options, 0) = 0
    BY EncodedFacts DEF NumberOf
  <2>2. SubSeq(options, 1, 0) = <<>>
    BY SubSeqEmpty
  <2>3. start + Len(Encoded(options)[0]) = start
    BY <1>1, <2>1
  <2>4. After(options, start, 0) = Start(start)
    BY <2>1, <2>2, <2>3, Zenon DEF After, Start
  <2>5. L[0] = Start(start)
    BY LoopFacts
  <2> HIDE DEF L
  <2> QED
    BY <2>4, <2>5
<1>3. ASSUME NEW k \in Nat, k \in S PROVE k + 1 \in S
  <2>1. CASE k + 1 <= m /\ k + 1 <= MaxOptions
    <3>1. /\ k + 1 \in 1 .. m /\ (k + 1) - 1 = k /\ k + 1 \in 1 .. Turns
          /\ L[k] = After(options, start, k)
      BY <1>1, <1>3, <2>1 DEF Turns, MaxOptions
    <3>2. L[k + 1] = Turn(buf, L[k])
      BY <3>1, LoopFacts
    <3> HIDE DEF L, m
    <3>3. Turn(buf, After(options, start, k)) = After(options, start, k + 1)
      BY <1>1, <2>1, <3>1, TurnFollows DEF m
    <3>4. L[k + 1] = After(options, start, k + 1)
      BY <3>1, <3>2, <3>3
    <3> QED
      BY <3>4
  <2>2. CASE ~(k + 1 <= m /\ k + 1 <= MaxOptions)
    BY <2>2
  <2> QED
    BY <2>1, <2>2
<1>4. Nat \subseteq S
  <2> HIDE DEF S
  <2> QED BY <1>2, <1>3, Induction
<1>5. ASSUME NEW k \in 0 .. m, k <= MaxOptions PROVE L[k] = After(options, start, k)
  <2>1. k \in Nat /\ k <= m /\ k \in S
    BY <1>1, <1>4
  <2> QED
    BY <1>5, <2>1
<1> QED
  BY <1>5

\* A turn that finds no option changes nothing, nor do the turns after it.
LEMMA LoopStays ==
    ASSUME NEW buf \in Seq(Byte), NEW start \in 0 .. Len(buf), NEW k \in 0 .. Turns,
           ~AtOption(buf, Loop(buf, start)[k])
    PROVE  Loop(buf, start)[Turns] = Loop(buf, start)[k]
<1> DEFINE L == Loop(buf, start)
           S == {j \in Nat : k + j <= Turns => L[k + j] = L[k]}
<1>1. k \in Nat /\ Turns \in Nat
  BY DEF Turns, MaxOptions
<1>2. 0 \in S
  <2>1. k + 0 = k
    BY <1>1
  <2> QED
    BY <2>1
<1>3. ASSUME NEW j \in Nat, j \in S PROVE j + 1 \in S
  <2>1. CASE k + (j + 1) <= Turns
    <3>1. /\ k + (j + 1) \in 1 .. Turns /\ (k + (j + 1)) - 1 = k + j
          /\ L[k + j] = L[k]
      BY <1>1, <1>3, <2>1
    <3>2. L[k + (j + 1)] = Turn(buf, L[k])
      BY <3>1, LoopFacts
    <3> HIDE DEF L
    <3>3. Turn(buf, L[k]) = L[k]
      BY DEF Turn, L
    <3> QED
      BY <3>2, <3>3
  <2>2. CASE ~(k + (j + 1) <= Turns)
    BY <2>2
  <2> QED
    BY <2>1, <2>2
<1>4. Nat \subseteq S
  <2> HIDE DEF S
  <2> QED BY <1>2, <1>3, Induction
<1>5. k + (Turns - k) = Turns /\ Turns - k \in Nat
  BY <1>1
<1>6. L[k + (Turns - k)] = L[k]
  <2>1. Turns - k \in S
    BY <1>4, <1>5
  <2> HIDE DEF L
  <2> QED
    BY <1>1, <1>5, <2>1
<1> QED
  BY <1>5, <1>6

-----------------------------------------------------------------------------
(* The loop comes to an end within its turns.                              *)

\* A turn either leaves the loop where it is, ends it with an error, or takes
\* up one more option while there is room for it.
LEMMA TurnCounts ==
    ASSUME NEW buf \in Seq(Byte), NEW at \in Parsing(buf)
    PROVE  \/ ~AtOption(buf, at) /\ Turn(buf, at) = at
           \/ Failed(Turn(buf, at))
           \/ /\ AtOption(buf, at) /\ Len(at.options) < MaxOptions
              /\ Len(Turn(buf, at).options) = Len(at.options) + 1
<1>1. CASE ~AtOption(buf, at)
  BY <1>1, Zenon DEF Turn
<1>2. CASE AtOption(buf, at)
  <2>1. /\ ~Failed(at) /\ at.offset \in 0 .. Len(buf) /\ at.num \in UInt16
        /\ at.options \in Seq(Options)
    BY <1>2, ParsingFacts DEF AtOption
  <2>2. at.offset \in 0 .. Len(buf) - 1
    BY <1>2, <2>1, LenProperties DEF AtOption
  <2>3. Failed(Refused)
    BY DEF Failed, Refused
  <2>4. CASE Len(at.options) >= MaxOptions
    <3>1. Turn(buf, at) = Refused
      BY <1>2, <2>4, Zenon DEF Turn
    <3> QED
      BY <2>3, <3>1
  <2>5. CASE ~(Len(at.options) >= MaxOptions)
    <3>1. PICK r : r = DecodeOption(buf, at.offset, at.num)
      OBVIOUS
    <3>2. CASE r = Refused
      <4>1. Turn(buf, at) = Refused
        BY <1>2, <2>3, <2>5, <3>1, <3>2, Zenon DEF Turn
      <4> QED
        BY <2>3, <4>1
    <3>3. CASE r # Refused
      <4>1. PICK opt \in Options, next \in 0 .. Len(buf) : r = [opt |-> opt, next |-> next]
        BY <2>1, <2>2, <3>1, <3>3, DecodedType
      <4>2. ~Failed(r) /\ r.opt = opt
        BY <4>1 DEF Failed
      <4>3. Turn(buf, at) = [offset |-> r.next, num |-> r.opt.num, options |-> Append(at.options, r.opt)]
        BY <1>2, <2>5, <3>1, <4>2, Zenon DEF Turn
      <4>4. Len(Append(at.options, opt)) = Len(at.options) + 1
        BY <2>1, AppendProperties
      <4>5. Len(at.options) < MaxOptions
        BY <2>1, <2>5, LenProperties DEF MaxOptions
      <4> QED
        BY <1>2, <4>2, <4>3, <4>4, <4>5
    <3> QED
      BY <3>2, <3>3
  <2> QED
    BY <2>4, <2>5
<1> QED
  BY <1>1, <1>2

LEMMA LoopCounts ==
    ASSUME NEW buf \in Seq(Byte), NEW start \in 0 .. Len(buf)
    PROVE  \A n \in 0 .. Turns :
             LET at == Loop(buf, start)[n] IN
             /\ ~Failed(at) => Len(at.options) <= MaxOptions
             /\ AtOption(buf, at) => Len(at.options) = n
<1> DEFINE L == Loop(buf, start)
           Counted(n) == /\ ~Failed(L[n]) => Len(L[n].options) <= MaxOptions
                         /\ AtOption(buf, L[n]) => Len(L[n].options) = n
           S == {n \in Nat : n <= Turns => Counted(n)}
<1>1. Turns \in Nat
  BY DEF Turns, MaxOptions
<1>2. 0 \in S
  <2>1. L[0] = Start(start)
    BY LoopFacts
  <2>2. L[0].options = <<>>
    BY <2>1 DEF Start
  <2>3. Len(L[0].options) = 0
    BY <2>2
  <2>4. Counted(0)
    BY <2>3 DEF MaxOptions
  <2> QED
    BY <2>4
<1>3. ASSUME NEW n \in Nat, n \in S PROVE n + 1 \in S
  <2>1. CASE n + 1 <= Turns
    <3>1. n + 1 \in 1 .. Turns /\ (n + 1) - 1 = n /\ n \in 0 .. Turns /\ n <= Turns
      BY <1>1, <2>1
    <3>2. Counted(n) /\ L[n] \in Parsing(buf) /\ L[n + 1] = Turn(buf, L[n])
      BY <1>3, <3>1, LoopFacts
    <3> SUFFICES Counted(n + 1)
      OBVIOUS
    <3> HIDE DEF L
    <3>3. CASE ~AtOption(buf, L[n]) /\ Turn(buf, L[n]) = L[n]
      BY <3>2, <3>3
    <3>4. CASE Failed(Turn(buf, L[n]))
      BY <3>2, <3>4 DEF AtOption
    <3>5. CASE /\ AtOption(buf, L[n]) /\ Len(L[n].options) < MaxOptions
               /\ Len(Turn(buf, L[n]).options) = Len(L[n].options) + 1
      <4>1. Len(L[n].options) = n
        BY <3>2, <3>5
      <4>2. n + 1 <= MaxOptions
        BY <3>5, <4>1 DEF MaxOptions
      <4>3. Len(L[n + 1].options) = n + 1
        BY <3>2, <3>5, <4>1
      <4> QED
        BY <4>2, <4>3
    <3> HIDE DEF Counted
    <3> QED
      BY <3>2, <3>3, <3>4, <3>5, TurnCounts
  <2>2. CASE ~(n + 1 <= Turns)
    BY <2>2
  <2> QED
    BY <2>1, <2>2
<1>4. Nat \subseteq S
  <2> HIDE DEF S
  <2> QED BY <1>2, <1>3, Induction
<1>5. ASSUME NEW n \in 0 .. Turns PROVE Counted(n)
  <2>1. n \in Nat /\ n <= Turns /\ n \in S
    BY <1>1, <1>4
  <2> HIDE DEF Counted
  <2> QED
    BY <2>1
<1> QED
  BY <1>5

\* Whatever bytes arrive, the loop of parseOptionsAndPayload has ended after
\* Turns turns, at the end of the datagram, at the marker or with an error, and
\* has found no more options than COAP_MAX_OPTION.
THEOREM LoopEnds ==
    ASSUME NEW buf \in Seq(Byte), NEW start \in 0 .. Len(buf)
    PROVE  LET at == Loop(buf, start)[Turns] IN
           /\ ~AtOption(buf, at) /\ Turn(buf, at) = at
           /\ ~Failed(at) => Len(at.options) <= MaxOptions
<1> DEFINE at == Loop(buf, start)[Turns]
<1>1. /\ ~Failed(at) => Len(at.options) <= MaxOptions
      /\ AtOption(buf, at) => Len(at.options) = Turns
  <2>1. Turns \in 0 .. Turns
    BY DEF Turns, MaxOptions
  <2> QED
    BY <2>1, LoopCounts, Zenon
<1> HIDE DEF at
<1>2. ASSUME AtOption(buf, at) PROVE FALSE
  <2>1. ~Failed(at)
    BY <1>2 DEF AtOption
  <2>2. Turns <= MaxOptions
    BY <1>1, <1>2, <2>1, Zenon
  <2> QED
    BY <2>2 DEF Turns, MaxOptions
<1>3. Turn(buf, at) = at
  BY <1>2, Zenon DEF Turn
<1> QED
  BY <1>1, <1>2, <1>3 DEF at

-----------------------------------------------------------------------------
(* A whole message                                                         *)

\* Behind the options: nothing, or the marker and the payload.
LEMMA PayloadStands ==
    ASSUME NEW buf \in Seq(Byte), NEW o \in 0 .. Len(buf), NEW payload \in Seq(Byte),
           Holds(buf, o, EncodePayload(payload)),
           Len(buf) = o + Len(EncodePayload(payload))
    PROVE  /\ o < Len(buf) => buf[o + 1] = Marker
           /\ SubSeq(buf, o + 2, Len(buf)) = payload
<1>1. Len(buf) \in Nat /\ o \in Nat /\ Len(payload) \in Nat
  BY LenProperties
<1>2. CASE payload = <<>>
  <2>1. EncodePayload(payload) = <<>>
    BY <1>2 DEF EncodePayload
  <2>2. Len(buf) = o
    BY <1>1, <2>1
  <2>3. SubSeq(buf, o + 2, Len(buf)) = <<>>
    BY <1>1, <2>2, SubSeqEmpty
  <2> QED
    BY <1>1, <1>2, <2>2, <2>3
<1>3. CASE payload # <<>>
  <2>1. EncodePayload(payload) = <<Marker>> \o payload
    BY <1>3 DEF EncodePayload
  <2>2. <<Marker>> \in Seq(Byte) /\ Len(<<Marker>>) = 1 /\ <<Marker>>[1] = Marker
    BY DEF Byte, Marker
  <2>3. PICK first \in Seq(Byte) : first = <<Marker>>
    BY <2>2
  <2>4. Holds(buf, o, first) /\ Holds(buf, o + Len(first), payload)
    BY <1>1, <2>1, <2>3, HoldsConcat
  <2>5. Len(first) = 1 /\ first[1] = Marker
    BY <2>2, <2>3
  <2>6. buf[o + 1] = Marker
    BY <2>4, <2>5 DEF Holds
  <2>7. Len(buf) = o + 1 + Len(payload)
    <3>1. Len(EncodePayload(payload)) = Len(first) + Len(payload)
      BY <2>1, <2>3, ConcatType
    <3>2. PICK p \in Nat : p = Len(payload)
      BY <1>1
    <3>3. Len(buf) = o + (1 + p)
      BY <2>5, <3>1, <3>2
    <3>4. o + (1 + p) = o + 1 + p
      BY <1>1
    <3> QED
      BY <3>2, <3>3, <3>4
  <2>8. \A i \in 1 .. Len(payload) : buf[o + 1 + i] = payload[i]
    BY <1>1, <2>4, <2>5 DEF Holds
  <2>9. PICK p \in Nat, n \in Nat : p = Len(payload) /\ n = Len(buf)
    BY <1>1
  <2>10. n = o + 1 + p
    BY <2>7, <2>9
  <2>11. p # 0
    BY <1>3, <2>9, EmptySeq
  <2>12. /\ SubSeq(buf, o + 2, n) \in Seq(Byte)
         /\ Len(SubSeq(buf, o + 2, n)) = p
         /\ \A i \in 1 .. p : SubSeq(buf, o + 2, n)[i] = buf[o + 1 + i]
    <3>1. PICK lo \in Nat : lo = o + 2
      BY <1>1
    <3>2. 1 <= lo /\ lo <= n /\ n <= Len(buf) /\ n - lo + 1 = p
      BY <1>1, <2>9, <2>10, <2>11, <3>1
    <3>3. /\ SubSeq(buf, lo, n) \in Seq(Byte)
          /\ Len(SubSeq(buf, lo, n)) = n - lo + 1
          /\ \A i \in 1 .. n - lo + 1 : SubSeq(buf, lo, n)[i] = buf[lo + i - 1]
      BY <3>2, PieceType
    <3>4. \A i \in 1 .. p : lo + i - 1 = o + 1 + i
      BY <1>1, <3>1
    <3> QED
      BY <3>1, <3>2, <3>3, <3>4
  <2>13. \A i \in 1 .. p : SubSeq(buf, o + 2, n)[i] = payload[i]
    BY <2>8, <2>9, <2>12
  <2>14. SubSeq(buf, o + 2, n) = payload
    BY <2>9, <2>12, <2>13, SeqEqual, Zenon
  <2> QED
    BY <2>6, <2>9, <2>14
<1> QED
  BY <1>2, <1>3

\* The loop finds the options and the payload that were encoded, or refuses
\* more options than it has room for.
LEMMA ParseInverts ==
    ASSUME NEW buf \in Seq(Byte), Len(buf) <= MaxValue, NEW start \in 0 .. Len(buf),
           NEW options \in Seq(Options), NEW payload \in Seq(Byte),
           Holds(buf, start, EncodeOptions(options)),
           Holds(buf, start + Len(EncodeOptions(options)), EncodePayload(payload)),
           Len(buf) = start + Len(EncodeOptions(options)) + Len(EncodePayload(payload))
    PROVE  Parse(buf, start) = IF Len(options) <= MaxOptions
                               THEN [options |-> options, payload |-> payload] ELSE Refused
<1> DEFINE m == Len(options)
           L == Loop(buf, start)
           o == start + Len(EncodeOptions(options))
<1>1. m \in Nat /\ start \in Nat /\ Len(buf) \in Nat /\ m \in 0 .. m
  BY LenProperties
<1>2. CASE m <= MaxOptions
  <2>1. L[m] = After(options, start, m)
    BY <1>1, <1>2, LoopFollows
  <2>2. L[m] = [offset |-> o, num |-> NumberOf(options, m), options |-> options]
    <3>1. SubSeq(options, 1, m) = options
      BY SubSeqFull
    <3> QED
      BY <2>1, <3>1 DEF After, EncodeOptions
  <2>3. /\ o \in 0 .. Len(buf) /\ Holds(buf, o, EncodePayload(payload))
        /\ Len(buf) = o + Len(EncodePayload(payload))
    <3>1. EncodeOptions(options) \in Seq(Byte)
      BY <1>1, EncodedFacts DEF EncodeOptions
    <3>2. o \in Nat
      BY <1>1, <3>1, LenProperties
    <3>3. o <= Len(buf)
      BY DEF Holds
    <3> QED
      BY <1>1, <3>2, <3>3
  <2>4. /\ o < Len(buf) => buf[o + 1] = Marker
        /\ SubSeq(buf, o + 2, Len(buf)) = payload
    BY <2>3, PayloadStands
  <2> HIDE DEF o, L
  <2>5. L[m].offset = o /\ L[m].options = options /\ ~Failed(L[m])
    BY <2>2 DEF Failed
  <2>6. ~AtOption(buf, L[m])
    BY <2>4, <2>5 DEF AtOption
  <2>7. m \in 0 .. Turns
    <3>1. PICK n \in Nat : n = m
      BY <1>1
    <3>2. n <= MaxOptions
      BY <1>2, <3>1, Zenon
    <3>3. n \in 0 .. Turns
      BY <3>2 DEF Turns, MaxOptions
    <3> QED
      BY <3>1, <3>3
  <2>8. L[Turns] = L[m]
    BY <2>6, <2>7, LoopStays DEF L
  <2>9. Parse(buf, start) = [options |-> options, payload |-> payload]
    BY <2>4, <2>5, <2>8, Zenon DEF Parse, L
  <2> QED
    BY <1>2, <2>9
<1>3. CASE ~(m <= MaxOptions)
  <2>1. PICK k \in 1 .. m : k = MaxOptions + 1 /\ k - 1 = MaxOptions
    <3>1. PICK n \in Nat : n = m
      BY <1>1
    <3>2. MaxOptions + 1 \in 1 .. n /\ (MaxOptions + 1) - 1 = MaxOptions
      BY <1>3, <3>1 DEF MaxOptions
    <3> QED
      BY <3>1, <3>2
  <2>2. /\ MaxOptions <= MaxOptions /\ MaxOptions \in 0 .. m
        /\ k \in 1 .. Turns /\ k = Turns
    <3>1. PICK n \in Nat : n = m
      BY <1>1
    <3>2. MaxOptions <= MaxOptions /\ MaxOptions \in 0 .. n /\ k \in 1 .. Turns /\ k = Turns
      BY <2>1, <3>1 DEF Turns, MaxOptions
    <3> QED
      BY <3>1, <3>2
  <2> HIDE DEF m, L
  <2>3. L[k - 1] = After(options, start, k - 1)
    BY <2>1, <2>2, LoopFollows DEF L, m
  <2>4. /\ AtOption(buf, After(options, start, k - 1))
        /\ Len(After(options, start, k - 1).options) = k - 1
    BY <1>1, TurnFollows DEF m
  <2>5. L[k] = Turn(buf, L[k - 1])
    BY <2>2, LoopFacts DEF L
  <2>6. Len(L[k - 1].options) >= MaxOptions /\ AtOption(buf, L[k - 1])
    BY <2>1, <2>2, <2>3, <2>4
  <2>7. L[Turns] = Refused
    BY <2>2, <2>5, <2>6, Zenon DEF Turn
  <2>8. Failed(Refused)
    BY DEF Failed, Refused
  <2>9. Parse(buf, start) = Refused
    BY <2>7, <2>8, Zenon DEF Parse, L
  <2> QED
    BY <1>3, <2>9 DEF m
<1> QED
  BY <1>2, <1>3

\* What the loop makes of any bytes.
LEMMA ParseType ==
    ASSUME NEW buf \in Seq(Byte), NEW start \in 0 .. Len(buf)
    PROVE  \/ Parse(buf, start) = Refused
           \/ \E options \in Seq(Options), payload \in Seq(Byte) :
                /\ Len(options) <= MaxOptions
                /\ Parse(buf, start) = [options |-> options, payload |-> payload]
<1> DEFINE at == Loop(buf, start)[Turns]
<1>1. at \in Parsing(buf)
  <2>1. Turns \in 0 .. Turns
    BY DEF Turns, MaxOptions
  <2> QED
    BY <2>1, LoopFacts
<1> HIDE DEF at
<1>2. CASE Failed(at)
  <2>1. at = Refused
    BY <1>1, <1>2 DEF Parsing, Failed
  <2> QED
    BY <1>2, <2>1 DEF Parse, at
<1>3. CASE ~Failed(at)
  <2>1. at.offset \in 0 .. Len(buf) /\ at.options \in Seq(Options) /\ Len(buf) \in Nat
    BY <1>1, <1>3, ParsingFacts, LenProperties
  <2>2. SubSeq(buf, at.offset + 2, Len(buf)) \in Seq(Byte)
    <3>1. PICK lo \in Nat, n \in Nat : lo = at.offset + 2 /\ n = Len(buf) /\ 1 <= lo /\ n <= Len(buf)
      BY <2>1
    <3> QED
      BY <3>1, PieceType
  <2>3. Parse(buf, start) = [options |-> at.options, payload |-> SubSeq(buf, at.offset + 2, Len(buf))]
    BY <1>3, Zenon DEF Parse, at
  <2>4. Len(at.options) <= MaxOptions
    BY <1>3, LoopEnds DEF at
  <2> QED
    BY <2>1, <2>2, <2>3, <2>4
<1> QED
  BY <1>2, <1>3

LEMMA HeaderByte ==
    ASSUME NEW type \in 0 .. 3, NEW t \in 0 .. 8
    PROVE  /\ 64 + type * 16 + t \in Byte
           /\ (64 + type * 16 + t) \div 64 = 1
           /\ (64 + type * 16 + t) % 16 = t
           /\ ((64 + type * 16 + t) \div 16) % 4 = type
<1>1. (64 + type * 16 + t) \div 16 = 4 + type
  OBVIOUS
<1>2. (4 + type) % 4 = type
  OBVIOUS
<1> QED
  BY <1>1, <1>2 DEF Byte

LEMMA OptionsType ==
    ASSUME NEW options \in Seq(Options)
    PROVE  EncodeOptions(options) \in Seq(Byte)
<1>1. Len(options) \in 0 .. Len(options)
  BY LenProperties
<1> QED
  BY <1>1, EncodedFacts DEF EncodeOptions

LEMMA PayloadType ==
    ASSUME NEW payload \in Seq(Byte)
    PROVE  EncodePayload(payload) \in Seq(Byte)
<1>1. <<Marker>> \in Seq(Byte)
  BY DEF Byte, Marker
<1>2. <<Marker>> \o payload \in Seq(Byte)
  BY <1>1, ConcatType
<1> QED
  BY <1>2 DEF EncodePayload

LEMMA HoldsAll ==
    ASSUME NEW buf \in Seq(Byte)
    PROVE  Holds(buf, 0, buf)
<1>1. Len(buf) \in Nat
  BY LenProperties
<1>2. \A i \in 1 .. Len(buf) : 0 + i = i
  OBVIOUS
<1> QED
  BY <1>1, <1>2 DEF Holds

\* Two bytes are a uint16 again.
LEMMA BigEndianType ==
    ASSUME NEW id \in UInt16
    PROVE  /\ BigEndian(id) \in Seq(Byte) /\ Len(BigEndian(id)) = 2
           /\ 256 * BigEndian(id)[1] + BigEndian(id)[2] = id
<1>1. id \in Int /\ 0 <= id /\ id < 65536
  BY DEF UInt16
<1>2. PICK hi \in Byte, lo \in Byte : hi = id \div 256 /\ lo = id % 256 /\ 256 * hi + lo = id
  BY <1>1, TwoBytes
<1>3. BigEndian(id) = <<hi, lo>>
  BY <1>2 DEF BigEndian
<1>4. <<hi, lo>> \in Seq(Byte) /\ Len(<<hi, lo>>) = 2 /\ <<hi, lo>>[1] = hi /\ <<hi, lo>>[2] = lo
  BY <1>2
<1> QED
  BY <1>2, <1>3, <1>4

\* A message that is encoded fits the buffer, and its parts follow one another.
LEMMA MessageParts ==
    ASSUME NEW msg \in Contents, NEW size \in Nat, NEW bytes,
           bytes = Encode(msg, size), bytes # Refused
    PROVE  /\ bytes \in Seq(Byte) /\ Len(bytes) <= size
           /\ \E t \in Nat :
                /\ t = Len(msg.token) /\ t <= MaxTokenLen
                /\ bytes[1] = 64 + msg.type * 16 + t /\ bytes[2] = msg.code
                /\ 256 * bytes[3] + bytes[4] = msg.msgId
                /\ Holds(bytes, 4, msg.token)
                /\ Holds(bytes, 4 + t, EncodeOptions(msg.options))
                /\ Holds(bytes, 4 + t + Len(EncodeOptions(msg.options)), EncodePayload(msg.payload))
                /\ Len(bytes) = 4 + t + Len(EncodeOptions(msg.options)) + Len(EncodePayload(msg.payload))
<1>1. /\ msg.type \in 0 .. 3 /\ msg.code \in Byte /\ msg.msgId \in UInt16 /\ msg.token \in Seq(Byte)
      /\ msg.options \in Seq(Options) /\ msg.payload \in Seq(Byte)
  BY DEF Contents
<1>2. PICK id \in Seq(Byte), token \in Seq(Byte), options \in Seq(Byte), payload \in Seq(Byte) :
        /\ id = BigEndian(msg.msgId) /\ token = msg.token
        /\ options = EncodeOptions(msg.options) /\ payload = EncodePayload(msg.payload)
  BY <1>1, BigEndianType, OptionsType, PayloadType
<1>3. /\ Len(id) = 2 /\ 256 * id[1] + id[2] = msg.msgId
  BY <1>1, <1>2, BigEndianType
<1>4. PICK t \in Nat, o \in Nat, p \in Nat : t = Len(token) /\ o = Len(options) /\ p = Len(payload)
  BY LenProperties
<1>5. PICK whole : whole = <<64 + msg.type * 16 + Len(msg.token), msg.code>> \o BigEndian(msg.msgId)
                           \o msg.token \o EncodeOptions(msg.options) \o EncodePayload(msg.payload)
  OBVIOUS
<1>6. /\ ~(Len(msg.token) > MaxTokenLen) /\ ~(Len(whole) > size) /\ bytes = whole
  BY <1>5, Zenon DEF Encode
<1>7. t \in 0 .. 8 /\ t <= MaxTokenLen
  <2>1. ~(t > MaxTokenLen)
    BY <1>2, <1>4, <1>6, Zenon
  <2> QED
    BY <2>1 DEF MaxTokenLen
<1>8. PICK first \in Seq(Byte) :
        /\ first = <<64 + msg.type * 16 + t, msg.code>> /\ Len(first) = 2
        /\ first[1] = 64 + msg.type * 16 + t /\ first[2] = msg.code
  <2>1. PICK x \in Byte : x = 64 + msg.type * 16 + t
    BY <1>1, <1>7, HeaderByte
  <2>2. <<x, msg.code>> \in Seq(Byte) /\ Len(<<x, msg.code>>) = 2
    BY <1>1
  <2> QED
    BY <2>1, <2>2
<1>9. bytes = (((first \o id) \o token) \o options) \o payload
  <2>1. t = Len(msg.token)
    BY <1>2, <1>4, Zenon
  <2> QED
    BY <1>2, <1>5, <1>6, <1>8, <2>1, Zenon
<1>10. first \o id \in Seq(Byte) /\ Len(first \o id) = 4
  <2>1. first \o id \in Seq(Byte) /\ Len(first \o id) = Len(first) + Len(id)
    BY <1>8, ConcatType
  <2> QED
    BY <1>3, <1>8, <2>1
<1>11. PICK head \in Seq(Byte) : head = first \o id /\ Len(head) = 4
  BY <1>10
<1>12. PICK two \in Seq(Byte) : two = head \o token /\ Len(two) = 4 + t
  <2>1. head \o token \in Seq(Byte) /\ Len(head \o token) = Len(head) + Len(token)
    BY ConcatType
  <2> QED
    BY <1>4, <1>11, <2>1
<1>13. PICK three \in Seq(Byte) : three = two \o options /\ Len(three) = 4 + t + o
  <2>1. two \o options \in Seq(Byte) /\ Len(two \o options) = Len(two) + Len(options)
    BY ConcatType
  <2> QED
    BY <1>4, <1>12, <2>1
<1>14. bytes = three \o payload
  BY <1>9, <1>11, <1>12, <1>13, Zenon
<1>15. bytes \in Seq(Byte) /\ Len(bytes) = 4 + t + o + p
  <2>1. three \o payload \in Seq(Byte) /\ Len(three \o payload) = Len(three) + Len(payload)
    BY ConcatType
  <2> QED
    BY <1>4, <1>13, <1>14, <2>1
<1>16. Holds(bytes, 0, three) /\ Holds(bytes, 0 + Len(three), payload)
  <2>1. Holds(bytes, 0, bytes)
    BY <1>15, HoldsAll
  <2>2. Holds(bytes, 0, three \o payload)
    BY <1>14, <2>1
  <2> QED
    BY <1>15, <2>2, HoldsConcat
<1>17. Holds(bytes, 0, two) /\ Holds(bytes, 0 + Len(two), options)
  <2>1. Holds(bytes, 0, two \o options)
    BY <1>13, <1>16
  <2> QED
    BY <1>15, <2>1, HoldsConcat
<1>18. Holds(bytes, 0, head) /\ Holds(bytes, 0 + Len(head), token)
  <2>1. Holds(bytes, 0, head \o token)
    BY <1>12, <1>17
  <2> QED
    BY <1>15, <2>1, HoldsConcat
<1>19. Holds(bytes, 0, first) /\ Holds(bytes, 0 + Len(first), id)
  <2>1. Holds(bytes, 0, first \o id)
    BY <1>11, <1>18
  <2> QED
    BY <1>15, <2>1, HoldsConcat
<1>20. bytes[1] = first[1] /\ bytes[2] = first[2]
  BY <1>8, <1>19, SMTT(30) DEF Holds
<1>21. bytes[3] = id[1] /\ bytes[4] = id[2]
  <2>1. Holds(bytes, 2, id)
    BY <1>8, <1>19
  <2> QED
    BY <1>3, <2>1 DEF Holds
<1>22. /\ Holds(bytes, 4, token) /\ Holds(bytes, 4 + t, options) /\ Holds(bytes, 4 + t + o, payload)
  <2>1. 0 + Len(head) = 4 /\ 0 + Len(two) = 4 + t /\ 0 + Len(three) = 4 + t + o
    BY <1>11, <1>12, <1>13
  <2> QED
    BY <1>16, <1>17, <1>18, <2>1, Zenon
<1>23. Len(bytes) <= size
  <2>1. PICK n \in Nat : n = Len(bytes)
    BY <1>15
  <2>2. ~(n > size)
    BY <1>6, <2>1, Zenon
  <2> QED
    BY <2>1, <2>2
<1>24. 256 * bytes[3] + bytes[4] = msg.msgId
  BY <1>3, <1>21, ZenonT(40)
<1>25. bytes[1] = 64 + msg.type * 16 + t /\ bytes[2] = msg.code
  BY <1>8, <1>20, Zenon
<1>26. /\ t \in Nat /\ t = Len(msg.token) /\ t <= MaxTokenLen /\ t <= MaxTokenLen
       /\ Holds(bytes, 4, msg.token)
       /\ Holds(bytes, 4 + t, EncodeOptions(msg.options))
       /\ Holds(bytes, 4 + t + Len(EncodeOptions(msg.options)), EncodePayload(msg.payload))
       /\ Len(bytes) = 4 + t + Len(EncodeOptions(msg.options)) + Len(EncodePayload(msg.payload))
  BY <1>2, <1>4, <1>7, <1>15, <1>22, Zenon
<1> QED
  BY <1>15, <1>23, <1>24, <1>25, <1>26, Zenon

\* The receiver of an encoded message has the message, whatever its options,
\* or refuses more options than COAP_MAX_OPTION.
THEOREM MessageRoundTrip ==
    ASSUME NEW msg \in Contents, NEW size \in 0 .. MaxValue, Encode(msg, size) # Refused
    PROVE  Decode(Encode(msg, size))
             = IF Len(msg.options) <= MaxOptions THEN msg ELSE Refused
<1>1. /\ msg.type \in 0 .. 3 /\ msg.code \in Byte /\ msg.msgId \in UInt16 /\ msg.token \in Seq(Byte)
      /\ msg.options \in Seq(Options) /\ msg.payload \in Seq(Byte)
      /\ msg = [type |-> msg.type, code |-> msg.code, msgId |-> msg.msgId, token |-> msg.token,
                options |-> msg.options, payload |-> msg.payload]
  BY DEF Contents
<1>2. PICK bytes : bytes = Encode(msg, size)
  OBVIOUS
<1>3. /\ bytes \in Seq(Byte) /\ Len(bytes) <= size
      /\ \E t \in Nat :
           /\ t = Len(msg.token) /\ t <= MaxTokenLen
           /\ bytes[1] = 64 + msg.type * 16 + t /\ bytes[2] = msg.code
           /\ 256 * bytes[3] + bytes[4] = msg.msgId
           /\ Holds(bytes, 4, msg.token)
           /\ Holds(bytes, 4 + t, EncodeOptions(msg.options))
           /\ Holds(bytes, 4 + t + Len(EncodeOptions(msg.options)), EncodePayload(msg.payload))
           /\ Len(bytes) = 4 + t + Len(EncodeOptions(msg.options)) + Len(EncodePayload(msg.payload))
  <2>1. size \in Nat
    OBVIOUS
  <2> QED
    BY <1>2, <2>1, MessageParts, SMTT(60)
<1>4. PICK t \in Nat :
        /\ t = Len(msg.token) /\ t <= MaxTokenLen
        /\ bytes[1] = 64 + msg.type * 16 + t /\ bytes[2] = msg.code
        /\ 256 * bytes[3] + bytes[4] = msg.msgId
        /\ Holds(bytes, 4, msg.token)
        /\ Holds(bytes, 4 + t, EncodeOptions(msg.options))
        /\ Holds(bytes, 4 + t + Len(EncodeOptions(msg.options)), EncodePayload(msg.payload))
        /\ Len(bytes) = 4 + t + Len(EncodeOptions(msg.options)) + Len(EncodePayload(msg.payload))
  BY <1>3
<1>5. t \in 0 .. 8
  <2>1. t <= MaxTokenLen
    BY <1>4, Zenon
  <2> QED
    BY <2>1 DEF MaxTokenLen
<1>6. /\ bytes[1] \div 64 = 1 /\ bytes[1] % 16 = t /\ (bytes[1] \div 16) % 4 = msg.type
  <2>1. /\ (64 + msg.type * 16 + t) \div 64 = 1 /\ (64 + msg.type * 16 + t) % 16 = t
        /\ ((64 + msg.type * 16 + t) \div 16) % 4 = msg.type
    <3>1. PICK a \in 0 .. 3, b \in 0 .. 8 : a = msg.type /\ b = t
      BY <1>1, <1>5
    <3>2. /\ (64 + a * 16 + b) \div 64 = 1 /\ (64 + a * 16 + b) % 16 = b
          /\ ((64 + a * 16 + b) \div 16) % 4 = a
      BY HeaderByte
    <3> QED
      BY <3>1, <3>2, Zenon
  <2> QED
    BY <1>4, <2>1, Zenon
<1>7. PICK n \in Nat : n = Len(bytes) /\ 4 + t <= n /\ n <= MaxValue
  <2>1. PICK k \in Nat : k = Len(bytes)
    BY <1>3, LenProperties
  <2>2. k <= size
    BY <1>3, <2>1, Zenon
  <2>3. PICK o \in Nat, p \in Nat :
          o = Len(EncodeOptions(msg.options)) /\ p = Len(EncodePayload(msg.payload))
    BY <1>1, OptionsType, PayloadType, LenProperties
  <2>4. k = 4 + t + o + p
    BY <1>4, <2>1, <2>3, Zenon
  <2>5. 4 + t <= k
    BY <1>5, <2>4
  <2>6. k <= MaxValue
    BY <2>2, BelowBound, Zenon
  <2> QED
    BY <2>1, <2>5, <2>6, Zenon
<1>8. PICK start \in 0 .. Len(bytes) : start = 4 + t
  BY <1>5, <1>7
<1>9. Parse(bytes, start) = IF Len(msg.options) <= MaxOptions
                            THEN [options |-> msg.options, payload |-> msg.payload] ELSE Refused
  <2>1. /\ Len(bytes) <= MaxValue
        /\ Holds(bytes, start, EncodeOptions(msg.options))
        /\ Holds(bytes, start + Len(EncodeOptions(msg.options)), EncodePayload(msg.payload))
        /\ Len(bytes) = start + Len(EncodeOptions(msg.options)) + Len(EncodePayload(msg.payload))
    BY <1>4, <1>7, <1>8, Zenon
  <2> QED
    BY <1>1, <1>3, <2>1, ParseInverts, Zenon
<1>10. SubSeq(bytes, 5, 4 + t) = msg.token
  <2>1. PICK hi \in Nat : hi = 4 + t /\ 5 \in Nat /\ 1 <= 5 /\ hi - 5 + 1 = t
    BY <1>5
  <2>2. hi <= Len(bytes)
    BY <1>7, <2>1
  <2>3. PICK lo \in Nat : lo = 5 /\ 1 <= lo /\ hi - lo + 1 = t
    BY <2>1
  <2>4. PICK s \in Seq(Byte) :
          /\ s = SubSeq(bytes, lo, hi) /\ Len(s) = IF lo <= hi THEN hi - lo + 1 ELSE 0
          /\ \A i \in 1 .. hi - lo + 1 : s[i] = bytes[lo + i - 1]
    <3>1. bytes \in Seq(Byte) /\ 1 <= lo
      BY <1>3, <2>3, Zenon
    <3> QED
      BY <2>2, <3>1, PieceIs, ZenonT(40)
  <2>5. Len(s) = t
    <3>1. (IF lo <= hi THEN hi - lo + 1 ELSE 0) = t
      BY <1>5, <2>1, <2>3
    <3> QED
      BY <2>4, <3>1, Zenon
  <2>6. \A i \in 1 .. t : lo + i - 1 = 4 + i
    BY <2>3
  <2>7. \A i \in 1 .. t : bytes[4 + i] = msg.token[i]
    BY <1>4 DEF Holds
  <2>8. \A i \in 1 .. t : s[i] = msg.token[i]
    BY <2>3, <2>4, <2>6, <2>7, Zenon
  <2>9. s = msg.token
    <3>1. PICK token \in Seq(Byte) : token = msg.token
      BY <1>1
    <3>2. Len(s) = Len(token) /\ \A i \in 1 .. Len(s) : s[i] = token[i]
      BY <1>4, <2>5, <2>8, <3>1, Zenon
    <3> QED
      BY <3>1, <3>2, SeqEqual, Zenon
  <2> QED
    BY <2>1, <2>3, <2>4, <2>9, Zenon
<1>11. /\ ~(Len(bytes) < 4 \/ bytes[1] \div 64 # 1)
       /\ ~(t > MaxTokenLen \/ ~Room(bytes, 4, t)) /\ ~(4 + t > Len(bytes))
  <2>1. ~(n < 4) /\ ~(4 + t > n) /\ 4 + t <= n /\ ~(t > MaxTokenLen)
    BY <1>5, <1>7 DEF MaxTokenLen
  <2> QED
    BY <1>6, <1>7, <2>1, Zenon DEF Room
<1>12. Decode(bytes)
         = LET rest == Parse(bytes, start) IN
           IF Failed(rest) THEN rest
           ELSE [type |-> msg.type, code |-> msg.code, msgId |-> msg.msgId, token |-> msg.token,
                 options |-> rest.options, payload |-> rest.payload]
  <2>1. Decode(bytes)
          = LET rest == Parse(bytes, 4 + t) IN
            IF Failed(rest) THEN rest
            ELSE [type |-> (bytes[1] \div 16) % 4, code |-> bytes[2],
                  msgId |-> 256 * bytes[3] + bytes[4], token |-> SubSeq(bytes, 5, 4 + t),
                  options |-> rest.options, payload |-> rest.payload]
    BY <1>6, <1>11, Zenon DEF Decode
  <2> QED
    BY <1>4, <1>6, <1>8, <1>10, <2>1, Zenon
<1>13. CASE Len(msg.options) <= MaxOptions
  <2>1. PICK rest : rest = [options |-> msg.options, payload |-> msg.payload]
    OBVIOUS
  <2>2. ~Failed(rest) /\ rest.options = msg.options /\ rest.payload = msg.payload
    BY <2>1 DEF Failed
  <2>3. Parse(bytes, start) = rest
    BY <1>9, <1>13, <2>1, Zenon
  <2>4. Decode(bytes) = msg
    BY <1>1, <1>12, <2>2, <2>3, Zenon
  <2> QED
    BY <1>2, <1>13, <2>4, Zenon
<1>14. CASE ~(Len(msg.options) <= MaxOptions)
  <2>1. Failed(Refused)
    BY DEF Failed, Refused
  <2>2. Parse(bytes, start) = Refused
    BY <1>9, <1>14, Zenon
  <2>3. Decode(bytes) = Refused
    BY <1>12, <2>1, <2>2, Zenon
  <2> QED
    BY <1>2, <1>14, <2>3, Zenon
<1> QED
  BY <1>13, <1>14

\* Whatever bytes arrive, the decoder reads none behind their end, and what it
\* makes of them is refused or is a message with a token of at most
\* MaxTokenLen bytes and at most COAP_MAX_OPTION options.
THEOREM DecodeInBounds ==
    ASSUME NEW buf \in Seq(Byte)
    PROVE  Decode(buf) \in Requests \cup {Refused}
<1>1. Len(buf) \in Nat
  BY LenProperties
<1>2. CASE Len(buf) < 4 \/ buf[1] \div 64 # 1
  BY <1>2 DEF Decode
<1>3. CASE ~(Len(buf) < 4 \/ buf[1] \div 64 # 1)
  <2>1. buf[1] \in Byte /\ buf[2] \in Byte /\ buf[3] \in Byte /\ buf[4] \in Byte
    <3>1. 1 \in 1 .. Len(buf) /\ 2 \in 1 .. Len(buf) /\ 3 \in 1 .. Len(buf) /\ 4 \in 1 .. Len(buf)
      BY <1>1, <1>3
    <3> QED
      BY <3>1, ElementOfSeq
  <2>2. PICK t \in Nat : t = buf[1] % 16
    <3>1. PICK x \in Byte : x = buf[1]
      BY <2>1
    <3>2. x % 16 \in Nat
      BY DEF Byte
    <3> QED
      BY <3>1, <3>2
  <2>3. CASE t > MaxTokenLen \/ ~Room(buf, 4, t)
    BY <1>3, <2>2, <2>3, Zenon DEF Decode
  <2>4. CASE ~(t > MaxTokenLen \/ ~Room(buf, 4, t))
    <3>1. /\ ~(4 + t > Len(buf)) /\ 4 + t \in 0 .. Len(buf)
          /\ 4 + t <= Len(buf) /\ 4 + t \in Nat /\ t \in 0 .. MaxTokenLen
      BY <1>1, <2>4 DEF Room, MaxTokenLen
    <3>2. PICK rest : rest = Parse(buf, 4 + t)
      OBVIOUS
    <3>3. Decode(buf)
            = IF Failed(rest) THEN rest
              ELSE [type |-> (buf[1] \div 16) % 4, code |-> buf[2],
                    msgId |-> 256 * buf[3] + buf[4], token |-> SubSeq(buf, 5, 4 + t),
                    options |-> rest.options, payload |-> rest.payload]
      BY <1>3, <2>2, <2>4, <3>1, <3>2, Zenon DEF Decode
    <3>4. CASE rest = Refused
      <4>1. Failed(rest)
        BY <3>4 DEF Failed, Refused
      <4> QED
        BY <3>3, <3>4, <4>1, Zenon
    <3>5. ASSUME NEW options \in Seq(Options), NEW payload \in Seq(Byte),
                 Len(options) <= MaxOptions, rest = [options |-> options, payload |-> payload]
          PROVE  Decode(buf) \in Requests
      <4>1. ~Failed(rest) /\ rest.options = options /\ rest.payload = payload
        BY <3>5 DEF Failed
      <4>2. PICK type \in 0 .. 3, id \in UInt16 :
              type = (buf[1] \div 16) % 4 /\ id = 256 * buf[3] + buf[4]
        <5>1. PICK x \in Byte, y \in Byte, z \in Byte : x = buf[1] /\ y = buf[3] /\ z = buf[4]
          BY <2>1
        <5>2. (x \div 16) % 4 \in 0 .. 3 /\ 256 * y + z \in UInt16
          BY DEF Byte, UInt16
        <5> QED
          BY <5>1, <5>2
      <4>3. PICK token \in Seq(Byte) : token = SubSeq(buf, 5, 4 + t) /\ Len(token) <= MaxTokenLen
        <5>1. PICK hi \in Nat : hi = 4 + t /\ 5 \in Nat /\ 1 <= 5 /\ hi <= Len(buf)
          BY <3>1
        <5>2. /\ SubSeq(buf, 5, hi) \in Seq(Byte)
              /\ Len(SubSeq(buf, 5, hi)) = IF 5 <= hi THEN hi - 5 + 1 ELSE 0
          BY <5>1, PieceType
        <5>3. (IF 5 <= hi THEN hi - 5 + 1 ELSE 0) <= MaxTokenLen
          BY <3>1, <5>1 DEF MaxTokenLen
        <5> QED
          BY <5>1, <5>2, <5>3
      <4>4. Decode(buf) = [type |-> type, code |-> buf[2], msgId |-> id, token |-> token,
                           options |-> options, payload |-> payload]
        BY <3>3, <4>1, <4>2, <4>3, Zenon
      <4> QED
        BY <2>1, <3>5, <4>3, <4>4 DEF Requests, Contents
    <3> QED
      BY <3>1, <3>2, <3>4, <3>5, ParseType
  <2> QED
    BY <2>3, <2>4
<1> QED
  BY <1>2, <1>3

-----------------------------------------------------------------------------
(* CoapExchange: an exchange of datagrams                                  *)

\* A message is told apart from an error.
LEMMA MessageFacts ==
    ASSUME NEW msg \in Contents
    PROVE  ~Failed(msg) /\ msg # Refused /\ msg # NoMessage /\ msg # Panicked
<1>1. ~Failed(msg)
  BY DEF Contents, Failed
<1>2. Failed(Refused) /\ Failed(NoMessage) /\ Failed(Panicked)
  BY DEF Failed, Refused, NoMessage, Panicked
<1> QED
  BY <1>1, <1>2, Zenon

\* An answer is a message that there is room for.
LEMMA AnswerType ==
    ASSUME NEW request \in Requests
    PROVE  /\ AnswerMessage(request, Host, Path, Payload) \in Contents
           /\ Len(AnswerMessage(request, Host, Path, Payload).options) <= MaxOptions
<1> DEFINE options == DiscoverOptions(Host, Path)
<1>1. /\ Host \in Seq(Byte) /\ Path \in Seq(Byte) /\ Payload \in Seq(Byte)
  BY ExchangeAssumption
<1>2. options \in Seq(Options) /\ Len(options) = 2
  <2>1. PICK host \in Options, path \in Options :
          host = [num |-> UriHost, value |-> Host] /\ path = [num |-> UriPath, value |-> Path]
    <3>1. UriHost \in UInt16 /\ UriPath \in UInt16
      BY DEF UInt16, UriHost, UriPath
    <3>2. [num |-> UriHost, value |-> Host] \in Options /\ [num |-> UriPath, value |-> Path] \in Options
      BY <1>1, <3>1 DEF Options
    <3> QED
      BY <3>2
  <2>2. <<host, path>> \in Seq(Options) /\ Len(<<host, path>>) = 2
    OBVIOUS
  <2> QED
    BY <2>1, <2>2, Zenon DEF DiscoverOptions
<1>3. Append(Payload, 0) \in Seq(Byte)
  <2>1. 0 \in Byte
    BY DEF Byte
  <2> QED
    BY <1>1, <2>1, AppendProperties
<1>4. request.code \in Byte /\ request.msgId \in UInt16 /\ request.token \in Seq(Byte)
  BY DEF Requests, Contents
<1>5. AnswerMessage(request, Host, Path, Payload)
        = [type |-> 1, code |-> request.code, msgId |-> request.msgId, token |-> request.token,
           options |-> options, payload |-> Append(Payload, 0)]
  BY DEF AnswerMessage, SameId
<1> HIDE DEF options
<1>6. AnswerMessage(request, Host, Path, Payload) \in Contents
  BY <1>2, <1>3, <1>4, <1>5 DEF Contents
<1>7. AnswerMessage(request, Host, Path, Payload).options = options
  BY <1>5
<1>8. Len(options) <= MaxOptions
  BY <1>2 DEF MaxOptions
<1> QED
  BY <1>6, <1>7, <1>8

LEMMA CapType ==
    ASSUME ExchangeTypeOK
    PROVE  cap \in 0 .. MaxValue /\ cap \in Nat
<1>1. cap \in Caps /\ Caps \subseteq 0 .. MaxValue
  BY ExchangeAssumption, Zenon DEF ExchangeTypeOK
<1>2. 0 .. MaxValue \subseteq Nat
  BY DEF MaxValue
<1> QED
  BY <1>1, <1>2, Zenon

LEMMA ExchangeBegins == ExchangeInit => ExchangeInv
<1> SUFFICES ASSUME ExchangeInit PROVE ExchangeInv
  OBVIOUS
<1>1. <<>> \in Seq(Byte)
  OBVIOUS
<1>2. ExchangeTypeOK
  BY <1>1 DEF ExchangeInit, ExchangeTypeOK
<1>3. OnTheWire /\ InTurn /\ RoundTrip /\ AnswerWhole
  BY DEF ExchangeInit, OnTheWire, InTurn, RoundTrip, AnswerWhole
<1> QED
  BY <1>2, <1>3 DEF ExchangeInv

LEMMA SendKeeps == ASSUME ExchangeInv, Send PROVE ExchangeInv'
<1>1. PICK msg \in Messages :
        LET bytes == Encode(msg, cap) IN
        /\ sent' = msg
        /\ IF bytes = Refused THEN step' = "end" /\ UNCHANGED wire
           ELSE step' = "sent" /\ wire' = bytes
  BY DEF Send
<1>2. /\ step = "begin" /\ UNCHANGED <<cap, received, answer>>
      /\ ExchangeTypeOK /\ received = NoMessage /\ answer = NoMessage /\ wire \in Seq(Byte)
  BY DEF Send, ExchangeInv, InTurn, ExchangeTypeOK
<1>3. msg \in Contents /\ cap \in Nat
  BY <1>2, ExchangeAssumption, CapType
<1>4. Encode(msg, cap) # Refused => Encode(msg, cap) \in Seq(Byte)
  BY <1>3, MessageParts
<1>5. ExchangeTypeOK'
  <2>1. step' \in {"sent", "end"} /\ wire' \in Seq(Byte)
    BY <1>1, <1>2, <1>4
  <2> QED
    BY <1>1, <1>2, <1>3, <2>1 DEF ExchangeTypeOK
<1>6. OnTheWire'
  BY <1>1, <1>2 DEF OnTheWire
<1>7. InTurn' /\ RoundTrip' /\ AnswerWhole'
  BY <1>1, <1>2 DEF InTurn, RoundTrip, AnswerWhole
<1> QED
  BY <1>5, <1>6, <1>7 DEF ExchangeInv

LEMMA ArriveKeeps == ASSUME ExchangeInv, Arrive PROVE ExchangeInv'
<1>1. /\ step = "begin" /\ step' = "sent" /\ wire' \in Seq(Byte)
      /\ UNCHANGED <<sent, cap, received, answer>>
      /\ ExchangeTypeOK /\ sent = NoMessage /\ received = NoMessage /\ answer = NoMessage
  BY ExchangeAssumption DEF Arrive, ExchangeInv, InTurn
<1>2. ExchangeTypeOK'
  BY <1>1 DEF ExchangeTypeOK
<1>3. OnTheWire' /\ InTurn' /\ RoundTrip' /\ AnswerWhole'
  BY <1>1 DEF OnTheWire, InTurn, RoundTrip, AnswerWhole
<1> QED
  BY <1>2, <1>3 DEF ExchangeInv

LEMMA ReceiveKeeps == ASSUME ExchangeInv, ReceiveDatagram PROVE ExchangeInv'
<1>1. /\ step = "sent" /\ received' = Decode(wire)
      /\ step' = IF Failed(received') THEN "end" ELSE "received"
      /\ UNCHANGED <<sent, cap, wire, answer>>
      /\ ExchangeTypeOK /\ answer = NoMessage /\ wire \in Seq(Byte)
  BY DEF ReceiveDatagram, ExchangeInv, InTurn, ExchangeTypeOK
<1>2. received' \in Requests \cup {Refused}
  BY <1>1, DecodeInBounds
<1>3. Failed(Refused)
  BY DEF Failed, Refused
<1>4. step' \in {"received", "end"} /\ (step' = "received" => received' \in Requests)
  BY <1>1, <1>2, <1>3
<1>5. ExchangeTypeOK'
  BY <1>1, <1>2, <1>4 DEF ExchangeTypeOK
<1>6. OnTheWire' /\ InTurn' /\ AnswerWhole'
  BY <1>1, <1>4 DEF OnTheWire, InTurn, AnswerWhole
<1>7. ASSUME sent # NoMessage
      PROVE  received' = IF Len(sent.options) <= MaxOptions THEN sent ELSE Refused
  <2>1. wire = Encode(sent, cap) /\ wire # Refused
    BY <1>1, <1>7 DEF ExchangeInv, OnTheWire
  <2>2. sent \in Contents /\ cap \in 0 .. MaxValue
    BY <1>1, <1>7, CapType DEF ExchangeTypeOK
  <2> QED
    BY <1>1, <2>1, <2>2, MessageRoundTrip, Zenon
<1>8. RoundTrip'
  BY <1>1, <1>7, Zenon DEF RoundTrip
<1> QED
  BY <1>5, <1>6, <1>8 DEF ExchangeInv

LEMMA AnswerKeeps == ASSUME ExchangeInv, Answer PROVE ExchangeInv'
<1> DEFINE bytes == BuildSendPkt(received, Host, Path, Payload, cap)
<1>1. /\ step = "received" /\ received \in Requests /\ answer = NoMessage
      /\ IF bytes = Refused THEN step' = "end" /\ UNCHANGED wire
         ELSE step' = "answered" /\ wire' = bytes
      /\ UNCHANGED <<sent, cap, received, answer>>
      /\ ExchangeTypeOK /\ wire \in Seq(Byte) /\ RoundTrip
  BY DEF Answer, ExchangeInv, InTurn, ExchangeTypeOK
<1>2. bytes # Refused => bytes \in Seq(Byte)
  <2>1. AnswerMessage(received, Host, Path, Payload) \in Contents /\ cap \in Nat
    BY <1>1, AnswerType, CapType
  <2>2. bytes # Refused =>
          /\ Encode(AnswerMessage(received, Host, Path, Payload), cap) # Refused
          /\ bytes = Encode(AnswerMessage(received, Host, Path, Payload), cap)
    BY Zenon DEF BuildSendPkt
  <2> QED
    BY <2>1, <2>2, MessageParts
<1> HIDE DEF bytes
<1>3. step' \in {"answered", "end"} /\ wire' \in Seq(Byte)
  BY <1>1, <1>2
<1>4. ExchangeTypeOK'
  BY <1>1, <1>3 DEF ExchangeTypeOK
<1>5. OnTheWire'
  <2>1. step' = "answered" => wire' # Refused /\ wire' = bytes
    BY <1>1
  <2>2. UNCHANGED <<received, cap>>
    BY <1>1
  <2> QED
    BY <1>3, <2>1, <2>2 DEF OnTheWire, bytes
<1>6. InTurn' /\ RoundTrip' /\ AnswerWhole'
  BY <1>1, <1>3 DEF InTurn, RoundTrip, AnswerWhole
<1> QED
  BY <1>4, <1>5, <1>6 DEF ExchangeInv

LEMMA ReceiveAnswerKeeps == ASSUME ExchangeInv, ReceiveAnswer PROVE ExchangeInv'
<1> DEFINE reply == AnswerMessage(received, Host, Path, Payload)
<1>1. /\ step = "answered" /\ received \in Requests /\ answer' = Decode(wire) /\ step' = "end"
      /\ UNCHANGED <<sent, cap, wire, received>>
      /\ ExchangeTypeOK /\ RoundTrip
      /\ wire # Refused /\ wire = BuildSendPkt(received, Host, Path, Payload, cap)
  BY DEF ReceiveAnswer, ExchangeInv, InTurn, OnTheWire
<1>2. reply \in Contents /\ Len(reply.options) <= MaxOptions /\ cap \in 0 .. MaxValue /\ cap \in Nat
  BY <1>1, AnswerType, CapType
<1> HIDE DEF reply
<1>3. wire = Encode(reply, cap) /\ Encode(reply, cap) # Refused
  BY <1>1, Zenon DEF BuildSendPkt, reply
<1>4. answer' = reply
  BY <1>1, <1>2, <1>3, MessageRoundTrip, Zenon
<1>5. Len(reply.token) <= MaxTokenLen
  BY <1>2, <1>3, MessageParts, SMTT(30)
<1>6. answer' \in Requests
  BY <1>2, <1>4, <1>5 DEF Requests
<1>7. ExchangeTypeOK'
  BY <1>1, <1>6 DEF ExchangeTypeOK
<1>8. OnTheWire' /\ InTurn' /\ RoundTrip'
  BY <1>1 DEF OnTheWire, InTurn, RoundTrip
<1>9. AnswerWhole'
  BY <1>1, <1>4 DEF AnswerWhole, reply
<1> QED
  BY <1>7, <1>8, <1>9 DEF ExchangeInv

\* At every step of an exchange, the bytes under way are those of the message
\* or of the answer, and what has been decoded from them is what was encoded.
THEOREM ExchangeInvariance == ExchangeSpec => []ExchangeInv
<1>1. ExchangeInit => ExchangeInv
  BY ExchangeBegins
<1>2. ExchangeInv /\ [ExchangeNext]_exchangeVars => ExchangeInv'
  <2> SUFFICES ASSUME ExchangeInv, [ExchangeNext]_exchangeVars PROVE ExchangeInv'
    OBVIOUS
  <2>1. CASE Send
    BY <2>1, SendKeeps
  <2>2. CASE Arrive
    BY <2>2, ArriveKeeps
  <2>3. CASE ReceiveDatagram
    BY <2>3, ReceiveKeeps
  <2>4. CASE Answer
    BY <2>4, AnswerKeeps
  <2>5. CASE ReceiveAnswer
    BY <2>5, ReceiveAnswerKeeps
  <2>6. CASE UNCHANGED exchangeVars
    BY <2>6 DEF exchangeVars, ExchangeInv, ExchangeTypeOK, OnTheWire, InTurn, RoundTrip, AnswerWhole
  <2> QED
    BY <2>1, <2>2, <2>3, <2>4, <2>5, <2>6 DEF ExchangeNext
<1> QED
  BY <1>1, <1>2, PTL DEF ExchangeSpec

\* parseOptionsAndPayload gives the receiver the message that
\* COAP_SoftBusEncode was given, for every message, and refuses one with more
\* options than COAP_MAX_OPTION.
THEOREM AlwaysRoundTrip == ExchangeSpec => []RoundTrip
<1>1. ExchangeInv => RoundTrip
  BY DEF ExchangeInv
<1> QED
  BY <1>1, ExchangeInvariance, PTL

\* COAP_SoftBusDecode indexes no byte behind the end of a datagram, whatever
\* its bytes are.
THEOREM AlwaysInBounds == ExchangeSpec => []InBounds
<1>1. ExchangeInv => InBounds
  <2> SUFFICES ASSUME ExchangeInv PROVE Panicked \notin {received, answer}
    BY DEF InBounds
  <2>1. received \in Requests \cup {Refused, NoMessage} /\ answer \in Requests \cup {NoMessage}
    BY DEF ExchangeInv, ExchangeTypeOK
  <2>2. Panicked # Refused /\ Panicked # NoMessage
    BY DEF Panicked, Refused, NoMessage
  <2>3. Panicked \notin Requests
    BY MessageFacts DEF Requests
  <2> QED
    BY <2>1, <2>2, <2>3
<1> QED
  BY <1>1, ExchangeInvariance, PTL

\* The answer that BuildSendPkt has made is decoded by who asked, and has the
\* id and the token of the request and the bytes of the payload.
THEOREM AnswersAlwaysMatch == ExchangeSpec => []AnswerMatches
<1>1. ExchangeInv => AnswerMatches
  <2> SUFFICES ASSUME ExchangeInv, answer # NoMessage
               PROVE  /\ ~Failed(answer)
                      /\ <<answer.msgId, answer.token>> = <<received.msgId, received.token>>
                      /\ answer.payload = Append(Payload, 0)
    BY DEF AnswerMatches
  <2>1. received \in Requests /\ answer = AnswerMessage(received, Host, Path, Payload)
    BY DEF ExchangeInv, AnswerWhole
  <2>2. ~Failed(answer)
    BY <2>1, AnswerType, MessageFacts
  <2> QED
    BY <2>1, <2>2 DEF AnswerMessage, SameId
<1> QED
  BY <1>1, ExchangeInvariance, PTL
=============================================================================
