------------------------------ MODULE Servers -------------------------------
(***************************************************************************)
(* The choice of a server: SignallingObject::Servers and connect()         *)
(* (hkClient.cpp, hkClient.h).                                             *)
(*                                                                         *)
(* activeServer is a C++ reference to servers[WORKING]: an assignment to   *)
(* it copies a server there.  Only the signalling thread runs this code;   *)
(* around it the DNS answers, at once or never, with one address today and *)
(* another one tomorrow, and servers accept a connection or do not.  Each  *)
(* lookup is a step: connect() goes by the name, which tcpConnect() looks  *)
(* up again, and CONNECTIONINFO passes on the address found before.        *)
(***************************************************************************)
EXTENDS Naturals

CONSTANTS
  ServerNames,  \* what the application may pass to init(), perhaps ""
  IPAddresses,  \* those of them that isIPAddress() recognises
  Addresses     \* what the DNS may answer for any other name

ASSUME ServersAssumption ==
  /\ IPAddresses \subseteq ServerNames \ {""}
  /\ "" \notin Addresses

WORKING == 0
SECONDARY == 1
PRIMARY == 2

\* HYPERCUBE_SERVER_NAME_SECONDARY and HYPERCUBE_SERVER_NAME_PRIMARY.
Names == (ServerNames \ {""}) \cup {"secondary", "primary"}

VARIABLES
  index,
  servers,          \* name and address of WORKING, SECONDARY and PRIMARY
  serverName,       \* init()'s argument
  dns,              \* what a lookup of each name gives, "" if it fails ...
  reachable,        \* ... and the addresses whose server accepts a connection,
  worldChanges,     \* unless these and the application's choice of a server
                    \* change while the client runs
  addressesOf,      \* history: the addresses that each name was found to have
  connectedTo,      \* the server the socket is connected to, or Nobody
  serverIpAddress,  \* what sendConnectionInfo() last told the server
  pc,
  caller            \* where getActiveServer() returns to

world == <<serverName, dns, reachable, worldChanges>>
vars == <<index, servers, world, addressesOf, connectedTo, serverIpAddress, pc,
          caller>>

AllAddresses == Addresses \cup IPAddresses
Server == [name : Names, address : AllAddresses \cup {""}]
Nobody == [name |-> "", address |-> ""]

TypeOK ==
  /\ index \in {WORKING, SECONDARY, PRIMARY}
  /\ servers \in [WORKING..PRIMARY -> Server]
  /\ serverName \in ServerNames
  /\ dns \in [Names -> AllAddresses \cup {""}]
  /\ reachable \in SUBSET AllAddresses
  /\ worldChanges \in BOOLEAN
  /\ addressesOf \in [Names -> SUBSET AllAddresses]
  /\ connectedTo \in Server \cup {Nobody}
  /\ serverIpAddress \in AllAddresses \cup {""}
  /\ pc \in {"initWorking", "initSecondary", "initPrimary", "interval",
             "active", "lastLookup", "tcpConnect", "connected"}
  /\ caller \in {"tcpConnect", "interval"}

\* The addresses that a name may have: a name that is one has itself.
Candidates(name) == IF name \in IPAddresses THEN {name} ELSE Addresses

Init ==
  /\ index = WORKING
  /\ servers = [i \in WORKING..PRIMARY |->
                  [name |-> IF i = PRIMARY THEN "primary" ELSE "secondary",
                   address |-> ""]]
  /\ serverName \in ServerNames
  /\ worldChanges \in BOOLEAN
  /\ \/ /\ worldChanges
        /\ dns = [name \in Names |-> ""]
        /\ reachable = {}
     \/ /\ ~worldChanges
        /\ dns \in [Names -> AllAddresses \cup {""}]
        /\ \A name \in Names : dns[name] \in Candidates(name) \cup {""}
        /\ reachable \in SUBSET AllAddresses
  /\ addressesOf = [name \in Names |-> {}]
  /\ connectedTo = Nobody
  /\ serverIpAddress = ""
  /\ pc = "initWorking"
  /\ caller = "tcpConnect"

activeServer == servers[WORKING]

\* What tcpDnsLookup() may find for a name.
Answers(name) ==
  IF worldChanges THEN Candidates(name) \cup {""} ELSE {dns[name]}

Found(name, address) ==
  addressesOf' = [addressesOf EXCEPT ![name] = @ \cup ({address} \ {""})]

\* Server::updateDnsAddress(), of servers[i].
UpdateDnsAddress(i, name) ==
  \E address \in Answers(name) :
    /\ servers' = [servers EXCEPT ![i] = [name |-> name, address |-> address]]
    /\ Found(name, address)

-----------------------------------------------------------------------------
(* Servers::init *)

InitWorking ==
  /\ pc = "initWorking"
  /\ UpdateDnsAddress(WORKING, IF serverName # "" THEN serverName
                                                  ELSE activeServer.name)
  /\ pc' = "initSecondary"
  /\ UNCHANGED <<index, world, connectedTo, serverIpAddress, caller>>

InitOther(i, from, to) ==
  /\ pc = from
  /\ UpdateDnsAddress(i, servers[i].name)
  /\ pc' = to
  /\ UNCHANGED <<index, world, connectedTo, serverIpAddress, caller>>

-----------------------------------------------------------------------------
(* getActiveServer(), called by connect() and by getNextActiveServer() *)

ActiveValid ==
  /\ pc = "active"
  /\ activeServer.address # ""
  /\ pc' = caller
  /\ UNCHANGED <<index, servers, world, addressesOf, connectedTo,
                 serverIpAddress, caller>>

ActiveResolves ==
  /\ pc = "active"
  /\ activeServer.address = ""
  /\ UpdateDnsAddress(WORKING, activeServer.name)
  /\ servers'[WORKING].address # ""
  /\ pc' = caller
  /\ UNCHANGED <<index, world, connectedTo, serverIpAddress, caller>>

\* Mutant: activeServer is not assigned.
NextInTable_NotCopied ==
  /\ pc = "active"
  /\ activeServer.address = ""
  /\ "" \in Answers(activeServer.name)
  /\ index' = IF index < PRIMARY THEN index + 1 ELSE index
  /\ pc' = IF index' < PRIMARY THEN "active" ELSE "lastLookup"
  /\ UNCHANGED <<servers, world, addressesOf, connectedTo, serverIpAddress,
                 caller>>

\* Mutant: the primary server is taken over at once.
NextInTable_Skips ==
  /\ pc = "active"
  /\ activeServer.address = ""
  /\ "" \in Answers(activeServer.name)
  /\ index' = PRIMARY
  /\ servers' = [servers EXCEPT ![WORKING] = servers[PRIMARY]]
  /\ pc' = "lastLookup"
  /\ UNCHANGED <<world, addressesOf, connectedTo, serverIpAddress, caller>>

\* The lookup fails: take over the next server of the table.
NextInTable ==
  /\ pc = "active"
  /\ activeServer.address = ""
  /\ "" \in Answers(activeServer.name)
  /\ index' = IF index < PRIMARY THEN index + 1 ELSE index
  /\ servers' = [servers EXCEPT ![WORKING] = servers[index']]
  /\ pc' = IF index' < PRIMARY THEN "active" ELSE "lastLookup"
  /\ UNCHANGED <<world, addressesOf, connectedTo, serverIpAddress, caller>>

LastLookup ==
  /\ pc = "lastLookup"
  /\ IF activeServer.address # "" THEN UNCHANGED <<servers, addressesOf>>
     ELSE UpdateDnsAddress(WORKING, activeServer.name)
  /\ pc' = caller
  /\ UNCHANGED <<index, world, connectedTo, serverIpAddress, caller>>

-----------------------------------------------------------------------------
(* connect() *)

StartConnect ==
  /\ pc = "interval"
  /\ pc' = "active"
  /\ caller' = "tcpConnect"
  /\ UNCHANGED <<index, servers, world, addressesOf, connectedTo,
                 serverIpAddress>>

\* tcpConnect() is given the name, and looks it up itself.
Targets(name) == IF name \in IPAddresses THEN {name} ELSE Answers(name)

MayAccept(address) == address # "" /\ (worldChanges \/ address \in reachable)
MayRefuse(address) == address = "" \/ worldChanges \/ address \notin reachable

\* Mutant: the address is read from the table, at index.
TcpConnect_FromTable ==
  /\ pc = "tcpConnect"
  /\ \E address \in Targets(activeServer.name) :
       /\ MayAccept(address)
       /\ connectedTo' = [name |-> activeServer.name, address |-> address]
       /\ Found(activeServer.name, address)
  /\ serverIpAddress' = servers[index].address
  /\ pc' = "connected"
  /\ UNCHANGED <<index, servers, world, caller>>

\* The connection is set up: sendConnectionInfo() passes on the address that
\* the active server was looked up with before.
TcpConnect ==
  /\ pc = "tcpConnect"
  /\ \E address \in Targets(activeServer.name) :
       /\ MayAccept(address)
       /\ connectedTo' = [name |-> activeServer.name, address |-> address]
       /\ Found(activeServer.name, address)
  /\ serverIpAddress' = activeServer.address
  /\ pc' = "connected"
  /\ UNCHANGED <<index, servers, world, caller>>

\* Mutant: the index is counted up past the table.
TcpConnectFails_Counts ==
  /\ pc = "tcpConnect"
  /\ \E address \in Targets(activeServer.name) :
       MayRefuse(address) /\ Found(activeServer.name, address)
  /\ index' = index + 1
  /\ pc' = "active"
  /\ caller' = "interval"
  /\ UNCHANGED <<servers, world, connectedTo, serverIpAddress>>

\* getNextActiveServer() moves the index and calls getActiveServer().
TcpConnectFails ==
  /\ pc = "tcpConnect"
  /\ \E address \in Targets(activeServer.name) :
       MayRefuse(address) /\ Found(activeServer.name, address)
  /\ index' = IF index = SECONDARY THEN PRIMARY ELSE SECONDARY
  /\ pc' = "active"
  /\ caller' = "interval"
  /\ UNCHANGED <<servers, world, connectedTo, serverIpAddress>>

Disconnect ==
  /\ pc = "connected"
  /\ connectedTo' = Nobody
  /\ pc' = "interval"
  /\ UNCHANGED <<index, servers, world, addressesOf, serverIpAddress, caller>>

\* HKClientCore::deinit, which ends the signalling thread between two attempts,
\* and init() again: it finds the table and the index as they were left.
Reinit ==
  /\ worldChanges
  /\ pc \in {"interval", "connected"}
  /\ pc' = "initWorking"
  /\ serverName' \in ServerNames
  /\ connectedTo' = Nobody
  /\ UNCHANGED <<index, servers, dns, reachable, worldChanges, addressesOf,
                 serverIpAddress, caller>>

-----------------------------------------------------------------------------
Sig ==
  \/ InitWorking
  \/ InitOther(SECONDARY, "initSecondary", "initPrimary")
  \/ InitOther(PRIMARY, "initPrimary", "interval")
  \/ ActiveValid \/ ActiveResolves \/ NextInTable \/ LastLookup
  \/ StartConnect \/ TcpConnect \/ TcpConnectFails

Next == Sig \/ Disconnect \/ Reinit

\* The signalling thread runs, and its interval ends.
Spec == Init /\ [][Next]_vars
FairSpec == Spec /\ WF_vars(Sig)

-----------------------------------------------------------------------------
(* Properties *)

\* FallsBackToPrimary: getActiveServer() hands out a server without an address
\* only when it has come to the PRIMARY one.
FallsBackToPrimary ==
  pc = "tcpConnect" /\ activeServer.address = ""
    => activeServer.name = "primary" /\ index = PRIMARY

\* NoWrongAddress: the address told to the server in CONNECTIONINFO is never
\* that of another server than the one connected to, although the name and the
\* address are looked up, copied and switched separately.  It may be one that this
\* server had before: the address told is the one found when the server became
\* the active one, the address connected to is looked up at every attempt.
NoWrongAddress ==
  pc = "connected" => serverIpAddress \in {""} \cup addressesOf[connectedTo.name]

\* The first server of the table, from the working one on, that resolves.
FirstChoice ==
  LET first == IF serverName # "" THEN serverName ELSE "secondary"
  IN CASE dns[first] # "" -> first
       [] dns[first] = "" /\ dns["secondary"] # "" -> "secondary"
       [] OTHER -> "primary"

\* Where tcpConnect() gets to with a name, while nothing changes.
Address(name) == IF name \in IPAddresses THEN name ELSE dns[name]
Connected(name) == connectedTo = [name |-> name, address |-> Address(name)]

\* FallsBackOnLookup: while the DNS and the servers do not change, the client
\* connects to the first server in the table that resolves, if it is reachable.
FallsBackOnLookup ==
  ~worldChanges /\ Address(FirstChoice) \in reachable => <>Connected(FirstChoice)

\* TriesSecondary: if the connection to the primary server fails, the client
\* tries the secondary one, which is there.
OnlySecondaryIsUp ==
  Address("primary") \notin reachable /\ Address("secondary") \in reachable
TriesSecondary ==
  ~worldChanges /\ serverName = "primary" /\ OnlySecondaryIsUp
    => <>Connected("secondary")
=============================================================================
