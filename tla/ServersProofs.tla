---------------------------- MODULE ServersProofs ----------------------------
(***************************************************************************)
(* Proofs about Servers, for any names an application passes, any answers  *)
(* of the DNS and any behaviour of the servers.                            *)
(***************************************************************************)
EXTENDS Servers, TLAPS

LEMMA Indices ==
  /\ {WORKING, SECONDARY, PRIMARY} = WORKING..PRIMARY
  /\ PRIMARY \notin {WORKING, SECONDARY}
BY DEF WORKING, SECONDARY, PRIMARY

-----------------------------------------------------------------------------
(* Types *)

LEMMA NamesOfTable ==
  /\ "primary" \in Names /\ "secondary" \in Names
  /\ \A name \in ServerNames : name # "" => name \in Names
BY DEF Names

LEMMA TypeInit == Init => TypeOK
<1> SUFFICES ASSUME Init PROVE TypeOK
  OBVIOUS
<1>1. servers \in [WORKING..PRIMARY -> Server]
  BY NamesOfTable DEF Init, Server
<1>2. dns \in [Names -> AllAddresses \cup {""}] /\ reachable \in SUBSET AllAddresses
  BY DEF Init
<1> QED
  BY <1>1, <1>2 DEF Init, TypeOK

\* A lookup finds an address, or nothing.
LEMMA AnswersType ==
  ASSUME TypeOK, NEW name \in Names
  PROVE  Answers(name) \subseteq AllAddresses \cup {""}
BY DEF TypeOK, Answers, Candidates, AllAddresses

LEMMA FoundType ==
  ASSUME TypeOK, NEW name \in Names, NEW address \in AllAddresses \cup {""},
         Found(name, address)
  PROVE  addressesOf' \in [Names -> SUBSET AllAddresses]
BY DEF TypeOK, Found

LEMMA UpdateType ==
  ASSUME TypeOK, NEW i \in WORKING..PRIMARY, NEW name \in Names,
         UpdateDnsAddress(i, name)
  PROVE  /\ servers' \in [WORKING..PRIMARY -> Server]
         /\ addressesOf' \in [Names -> SUBSET AllAddresses]
<1>1. PICK address \in Answers(name) :
        /\ servers' = [servers EXCEPT ![i] = [name |-> name, address |-> address]]
        /\ Found(name, address)
  BY DEF UpdateDnsAddress
<1>2. address \in AllAddresses \cup {""}
  BY AnswersType
<1>3. servers' \in [WORKING..PRIMARY -> Server]
  BY <1>1, <1>2 DEF TypeOK, Server
<1> QED
  BY <1>1, <1>2, <1>3, FoundType

\* What tcpConnect() connects to, or fails to.
LEMMA TargetsType ==
  ASSUME TypeOK, NEW name \in Names
  PROVE  Targets(name) \subseteq AllAddresses \cup {""}
BY AnswersType DEF Targets, AllAddresses

LEMMA ActiveType ==
  ASSUME TypeOK
  PROVE  /\ activeServer.name \in Names
         /\ activeServer.address \in AllAddresses \cup {""}
BY Indices DEF TypeOK, activeServer, Server

LEMMA TypeStep == ASSUME TypeOK, [Next]_vars PROVE TypeOK'
<1> USE DEF TypeOK
<1>1. CASE UNCHANGED vars
  BY <1>1 DEF vars, world
<1>2. CASE InitWorking
  <2>1. (IF serverName # "" THEN serverName ELSE activeServer.name) \in Names
    BY NamesOfTable, ActiveType
  <2> QED
    BY <1>2, <2>1, UpdateType, Indices DEF InitWorking, world
<1>3. CASE InitOther(SECONDARY, "initSecondary", "initPrimary")
  <2>1. servers[SECONDARY].name \in Names /\ SECONDARY \in WORKING..PRIMARY
    BY Indices DEF Server
  <2> QED
    BY <1>3, <2>1, UpdateType DEF InitOther, world
<1>4. CASE InitOther(PRIMARY, "initPrimary", "interval")
  <2>1. servers[PRIMARY].name \in Names /\ PRIMARY \in WORKING..PRIMARY
    BY Indices DEF Server
  <2> QED
    BY <1>4, <2>1, UpdateType DEF InitOther, world
<1>5. CASE ActiveValid
  BY <1>5 DEF ActiveValid, world
<1>6. CASE ActiveResolves
  BY <1>6, UpdateType, ActiveType, Indices DEF ActiveResolves, world
<1>7. CASE NextInTable
  <2>1. /\ index \in {0, 1, 2}
        /\ index' = IF index < 2 THEN index + 1 ELSE index
    <3> HIDE DEF TypeOK
    <3>1. index \in {WORKING, SECONDARY, PRIMARY}
      BY DEF TypeOK
    <3> QED
      BY <1>7, <3>1 DEF NextInTable, WORKING, SECONDARY, PRIMARY
  <2>2. index' \in {WORKING, SECONDARY, PRIMARY} /\ index' \in WORKING..PRIMARY
    <3> HIDE DEF TypeOK
    <3> QED
      BY <2>1 DEF WORKING, SECONDARY, PRIMARY
  <2>3. servers' \in [WORKING..PRIMARY -> Server]
    BY <1>7, <2>2, Indices DEF NextInTable
  <2> QED
    BY <1>7, <2>2, <2>3 DEF NextInTable, world
<1>8. CASE LastLookup
  BY <1>8, UpdateType, ActiveType, Indices DEF LastLookup, world
<1>9. CASE StartConnect
  BY <1>9 DEF StartConnect, world
<1>10. CASE TcpConnect
  <2>1. PICK address \in Targets(activeServer.name) :
          /\ connectedTo' = [name |-> activeServer.name, address |-> address]
          /\ Found(activeServer.name, address)
    BY <1>10 DEF TcpConnect
  <2>2. address \in AllAddresses \cup {""}
    BY ActiveType, TargetsType
  <2>3. connectedTo' \in Server
    BY <2>1, <2>2, ActiveType DEF Server
  <2>4. addressesOf' \in [Names -> SUBSET AllAddresses]
    BY <2>1, <2>2, ActiveType, FoundType
  <2> QED
    BY <1>10, <2>3, <2>4, ActiveType DEF TcpConnect, world
<1>11. CASE TcpConnectFails
  <2>1. addressesOf' \in [Names -> SUBSET AllAddresses]
    BY <1>11, ActiveType, TargetsType, FoundType DEF TcpConnectFails
  <2> QED
    BY <1>11, <2>1 DEF TcpConnectFails, world
<1>12. CASE Disconnect
  BY <1>12 DEF Disconnect, world
<1>13. CASE Reinit
  BY <1>13 DEF Reinit
<1> QED
  BY <1>1, <1>2, <1>3, <1>4, <1>5, <1>6, <1>7, <1>8, <1>9, <1>10, <1>11, <1>12,
     <1>13 DEF Next, Sig

\* TypeCorrect: TypeOK holds of every behaviour: getNextActiveServer() and the
\* loop of getActiveServer() never move index past the table.
THEOREM TypeCorrect == Spec => []TypeOK
BY TypeInit, TypeStep, PTL DEF Spec

-----------------------------------------------------------------------------
(* The table *)

\* An address that name has had, or none.
Had(address, name) == address \in {""} \cup addressesOf[name]

\* Every address of the table is one that its name was found to have.
AddressesMatch ==
  \A i \in WORKING..PRIMARY : Had(servers[i].address, servers[i].name)

\* The last server of the table is the primary one, and it is the active server
\* when getActiveServer() comes to its last lookup.
PrimaryIsLast ==
  /\ servers[PRIMARY].name = "primary"
  /\ pc = "lastLookup" => index = PRIMARY /\ servers[WORKING].name = "primary"

ServersInv ==
  AddressesMatch /\ PrimaryIsLast /\ FallsBackToPrimary /\ NoWrongAddress

LEMMA InvInit == Init => ServersInv
<1> SUFFICES ASSUME Init PROVE ServersInv
  OBVIOUS
<1> USE DEF Init
<1>1. AddressesMatch
  BY DEF AddressesMatch, Had
<1>2. PrimaryIsLast
  BY Indices DEF PrimaryIsLast
<1>3. FallsBackToPrimary /\ NoWrongAddress
  BY DEF FallsBackToPrimary, NoWrongAddress
<1> QED
  BY <1>1, <1>2, <1>3 DEF ServersInv

\* What a name was found to have is not forgotten.
LEMMA FoundKeeps ==
  ASSUME TypeOK, NEW name \in Names, NEW address, Found(name, address)
  PROVE  /\ address \in {""} \cup addressesOf'[name]
         /\ \A n \in Names : addressesOf[n] \subseteq addressesOf'[n]
BY DEF TypeOK, Found

LEMMA TableKept ==
  ASSUME TypeOK, AddressesMatch, servers' = servers,
         \A n \in Names : addressesOf[n] \subseteq addressesOf'[n]
  PROVE  AddressesMatch'
<1>1. \A i \in WORKING..PRIMARY : servers[i].name \in Names
  BY DEF TypeOK, Server
<1> QED
  BY <1>1 DEF AddressesMatch, Had

\* A lookup of server i under a name keeps the table in order.
LEMMA UpdateKeeps ==
  ASSUME TypeOK, AddressesMatch, NEW i \in WORKING..PRIMARY, NEW name \in Names,
         UpdateDnsAddress(i, name)
  PROVE  /\ AddressesMatch'
         /\ servers'[i].name = name
         /\ \A j \in WORKING..PRIMARY \ {i} : servers'[j] = servers[j]
<1>1. PICK address \in Answers(name) :
        /\ servers' = [servers EXCEPT ![i] = [name |-> name, address |-> address]]
        /\ Found(name, address)
  BY DEF UpdateDnsAddress
<1>2. /\ servers'[i] = [name |-> name, address |-> address]
      /\ \A j \in WORKING..PRIMARY \ {i} : servers'[j] = servers[j]
  BY <1>1 DEF TypeOK
<1>3. /\ address \in {""} \cup addressesOf'[name]
      /\ \A n \in Names : addressesOf[n] \subseteq addressesOf'[n]
  BY <1>1, FoundKeeps
<1>4. \A j \in WORKING..PRIMARY : servers[j].name \in Names
  BY DEF TypeOK, Server
<1>5. ASSUME NEW j \in WORKING..PRIMARY
      PROVE  Had(servers[j].address, servers[j].name)'
  <2>1. CASE j = i
    <3>1. servers'[j].name = name /\ servers'[j].address = address
      BY <1>2, <2>1
    <3>2. servers'[j].address \in {""} \cup addressesOf'[servers'[j].name]
      BY <1>3, <3>1
    <3> QED
      BY <3>2 DEF Had
  <2>2. CASE j # i
    <3>1. servers'[j] = servers[j] /\ servers[j].name \in Names
      BY <1>2, <1>4, <2>2
    <3>2. servers[j].address \in {""} \cup addressesOf[servers[j].name]
      BY DEF AddressesMatch, Had
    <3>3. servers[j].address \in {""} \cup addressesOf'[servers[j].name]
      BY <1>3, <3>1, <3>2
    <3> QED
      BY <3>1, <3>3 DEF Had
  <2> QED
    BY <2>1, <2>2
<1> QED
  BY <1>2, <1>5 DEF AddressesMatch

LEMMA InvInitialise ==
  ASSUME TypeOK, ServersInv,
         \/ InitWorking
         \/ InitOther(SECONDARY, "initSecondary", "initPrimary")
         \/ InitOther(PRIMARY, "initPrimary", "interval")
  PROVE  ServersInv'
<1> USE DEF ServersInv
<1>1. AddressesMatch' /\ servers'[PRIMARY].name = "primary"
  <2>1. CASE InitWorking
    <3>1. (IF serverName # "" THEN serverName ELSE activeServer.name) \in Names
      BY NamesOfTable, ActiveType DEF TypeOK
    <3> QED
      BY <2>1, <3>1, UpdateKeeps, Indices DEF InitWorking, PrimaryIsLast
  <2>2. CASE InitOther(SECONDARY, "initSecondary", "initPrimary")
    <3>1. servers[SECONDARY].name \in Names
      BY Indices DEF TypeOK, Server
    <3> QED
      BY <2>2, <3>1, UpdateKeeps, Indices DEF InitOther, PrimaryIsLast
  <2>3. CASE InitOther(PRIMARY, "initPrimary", "interval")
    <3>1. servers[PRIMARY].name \in Names
      BY Indices DEF TypeOK, Server
    <3> QED
      BY <2>3, <3>1, UpdateKeeps, Indices DEF InitOther, PrimaryIsLast
  <2> QED
    BY <2>1, <2>2, <2>3
<1>2. pc' \in {"initSecondary", "initPrimary", "interval"}
  BY DEF InitWorking, InitOther
<1> QED
  BY <1>1, <1>2 DEF PrimaryIsLast, FallsBackToPrimary, NoWrongAddress

LEMMA InvActive ==
  ASSUME TypeOK, ServersInv,
         ActiveValid \/ ActiveResolves \/ NextInTable \/ LastLookup
  PROVE  ServersInv'
<1> USE DEF ServersInv
<1>1. CASE ActiveValid
  <2>1. pc' \in {"tcpConnect", "interval"}
    BY <1>1 DEF ActiveValid, TypeOK
  <2> QED
    BY <1>1, <2>1 DEF ActiveValid, AddressesMatch, Had, PrimaryIsLast,
                      FallsBackToPrimary, NoWrongAddress, activeServer
<1>2. CASE ActiveResolves
  <2>1. AddressesMatch' /\ servers'[PRIMARY].name = "primary"
    BY <1>2, ActiveType, UpdateKeeps, Indices DEF ActiveResolves, PrimaryIsLast
  <2>2. servers'[WORKING].address # "" /\ pc' \in {"tcpConnect", "interval"}
    BY <1>2 DEF ActiveResolves, TypeOK
  <2> QED
    BY <2>1, <2>2
       DEF PrimaryIsLast, FallsBackToPrimary, NoWrongAddress, activeServer
<1>3. CASE NextInTable
  <2>1. /\ index' \in WORKING..PRIMARY
        /\ servers' = [servers EXCEPT ![WORKING] = servers[index']]
        /\ pc' = IF index' < PRIMARY THEN "active" ELSE "lastLookup"
    <3>1. index \in WORKING..PRIMARY
      BY Indices DEF TypeOK
    <3>2. index' = IF index < PRIMARY THEN index + 1 ELSE index
      BY <1>3 DEF NextInTable
    <3>3. index' \in WORKING..PRIMARY
      BY <3>1, <3>2 DEF WORKING, PRIMARY
    <3> QED
      BY <1>3, <3>3 DEF NextInTable
  <2>2. /\ servers'[WORKING] = servers[index']
        /\ \A i \in WORKING..PRIMARY \ {WORKING} : servers'[i] = servers[i]
        /\ addressesOf' = addressesOf
    BY <1>3, <2>1, Indices DEF NextInTable, TypeOK
  <2>3. AddressesMatch'
    BY <2>1, <2>2 DEF AddressesMatch, Had
  <2>4. PrimaryIsLast'
    <3>1. servers'[PRIMARY] = servers[PRIMARY]
      BY <2>2, Indices
    <3>2. pc' = "lastLookup" => index' = PRIMARY
      BY <2>1 DEF WORKING, PRIMARY
    <3> QED
      BY <2>2, <3>1, <3>2 DEF PrimaryIsLast
  <2> QED
    BY <2>1, <2>3, <2>4 DEF FallsBackToPrimary, NoWrongAddress
<1>4. CASE LastLookup
  <2>1. pc' \in {"tcpConnect", "interval"}
    BY <1>4 DEF LastLookup, TypeOK
  <2>2. CASE UNCHANGED <<servers, addressesOf>>
    BY <1>4, <2>1, <2>2 DEF LastLookup, AddressesMatch, Had, PrimaryIsLast,
                            FallsBackToPrimary, NoWrongAddress, activeServer
  <2>3. CASE UpdateDnsAddress(WORKING, activeServer.name)
    <3>1. /\ AddressesMatch' /\ servers'[PRIMARY].name = "primary"
          /\ servers'[WORKING].name = servers[WORKING].name
      BY <2>3, ActiveType, UpdateKeeps, Indices DEF PrimaryIsLast, activeServer
    <3> QED
      BY <1>4, <2>1, <3>1 DEF LastLookup, PrimaryIsLast, FallsBackToPrimary,
                              NoWrongAddress, activeServer
  <2> QED
    BY <1>4, <2>2, <2>3 DEF LastLookup
<1> QED
  BY <1>1, <1>2, <1>3, <1>4

LEMMA InvConnect ==
  ASSUME TypeOK, ServersInv,
         StartConnect \/ TcpConnect \/ TcpConnectFails \/ Disconnect \/ Reinit
  PROVE  ServersInv'
<1> USE DEF ServersInv
<1>1. CASE StartConnect \/ Disconnect \/ Reinit
  BY <1>1 DEF StartConnect, Disconnect, Reinit, AddressesMatch, Had,
              PrimaryIsLast, FallsBackToPrimary, NoWrongAddress
<1>2. CASE TcpConnect
  <2>1. /\ connectedTo'.name = activeServer.name
        /\ \A n \in Names : addressesOf[n] \subseteq addressesOf'[n]
    <3>1. PICK address \in Targets(activeServer.name) :
            /\ connectedTo' = [name |-> activeServer.name, address |-> address]
            /\ Found(activeServer.name, address)
      BY <1>2 DEF TcpConnect
    <3>2. \A n \in Names : addressesOf[n] \subseteq addressesOf'[n]
      BY <3>1, ActiveType, FoundKeeps
    <3> QED
      BY <3>1, <3>2
  <2>2. AddressesMatch'
    BY <1>2, <2>1, TableKept DEF TcpConnect
  <2>3. NoWrongAddress'
    BY <1>2, <2>1, <2>2, Indices
       DEF TcpConnect, NoWrongAddress, AddressesMatch, Had, activeServer
  <2> QED
    BY <1>2, <2>2, <2>3 DEF TcpConnect, PrimaryIsLast, FallsBackToPrimary
<1>3. CASE TcpConnectFails
  <2>1. \A n \in Names : addressesOf[n] \subseteq addressesOf'[n]
    BY <1>3, ActiveType, FoundKeeps DEF TcpConnectFails
  <2>2. AddressesMatch'
    BY <1>3, <2>1, TableKept DEF TcpConnectFails
  <2> QED
    BY <1>3, <2>2 DEF TcpConnectFails, PrimaryIsLast, FallsBackToPrimary,
                      NoWrongAddress
<1> QED
  BY <1>1, <1>2, <1>3

LEMMA InvStep == TypeOK /\ ServersInv /\ [Next]_vars => ServersInv'
<1> SUFFICES ASSUME TypeOK, ServersInv, [Next]_vars PROVE ServersInv'
  OBVIOUS
<1>1. CASE UNCHANGED vars
  BY <1>1 DEF vars, world, ServersInv, AddressesMatch, Had, PrimaryIsLast,
              FallsBackToPrimary, NoWrongAddress, activeServer
<1> QED
  BY <1>1, InvInitialise, InvActive, InvConnect DEF Next, Sig

-----------------------------------------------------------------------------
(* Theorems *)

\* RightAddress: NoWrongAddress holds of every behaviour, whatever the DNS answers
\* and whenever it changes: an address travels with its name through every lookup,
\* copy and switch of server.
THEOREM RightAddress == Spec => []NoWrongAddress
<1>1. ServersInv => NoWrongAddress
  BY DEF ServersInv
<1> QED
  BY <1>1, InvInit, InvStep, TypeCorrect, PTL DEF Spec

\* PrimaryIsTheFallback: FallsBackToPrimary holds of every behaviour: the loop of
\* getActiveServer() ends with an address or at the end of the table.
THEOREM PrimaryIsTheFallback == Spec => []FallsBackToPrimary
<1>1. ServersInv => FallsBackToPrimary
  BY DEF ServersInv
<1> QED
  BY <1>1, InvInit, InvStep, TypeCorrect, PTL DEF Spec
=============================================================================
