---------------------------- MODULE ServerProofs ----------------------------
(***************************************************************************)
(* Theorems about the server's process: about Boot, for any servers, any   *)
(* names of their tools, and any runners; about Store, for any set of      *)
(* concurrent operations.  The two share no variable.                      *)
(***************************************************************************)
EXTENDS Boot, Store, FiniteSetTheorems, TLAPS

-----------------------------------------------------------------------------
(* The lifespan: the inductive invariant.                                  *)

Connecting == {"start", "connect", "connecting", "list"}
Ended == {"disconnect", "down", "failed"}

(* What is open and who works at each stage.                               *)
Stages ==
  /\ stage \in Connecting => next >= 1 /\ calling = None /\ ~workers
  /\ stage \in {"listing", "closing", "gateway", "disconnect", "down"}
       => calling = None /\ ~workers
  /\ stage \in {"connecting", "list"} => next \in DOMAIN Servers
  /\ stage = "list" => client[Server] = "open"
  /\ stage \notin {"start", "down", "failed"} => store
  /\ stage \notin Ended => \A s \in returned : client[s] = "open"

OwnedBy(s) == {t \in DOMAIN owner : owner[t] = s}

(* A server whose turn to connect is yet to come has nothing so far.       *)
InOrder ==
  stage \in Connecting =>
    \A n \in DOMAIN Servers :
      n >= next => Servers[n] \notin returned /\ OwnedBy(Servers[n]) = {}

(* Some but not all of the tools of s are registered to it.                *)
HalfRegistered(s) ==
  \E k \in DOMAIN ToolsOf[s] : OwnedBy(s) \subseteq {ToolsOf[s][j] : j \in 1..(k - 1)}

(* A name leads to a kept server, or to one that failed half way.          *)
Owners ==
  /\ \A s \in Configured : OwnedBy(s) # {} => s \in returned \/ HalfRegistered(s)
  /\ calling # None => OwnedBy(calling) # {}

IInv == TypeOK /\ Stages /\ InOrder /\ Owners /\ KeptIsComplete

-----------------------------------------------------------------------------
(* Registration.                                                           *)

(* The new names lead to the server, and the old ones where they led.      *)
LEMMA RegisteredTools ==
  ASSUME TypeOK, NEW tools, owner' = Registered(tools), AllNew(tools),
         NEW s \in Configured, s = Server
  PROVE  /\ owner' \in [DOMAIN owner' -> Configured \cup {None}]
         /\ \A t \in DOMAIN owner : t \in DOMAIN owner' /\ owner'[t] = owner[t]
         /\ \A k \in DOMAIN tools : tools[k] \in DOMAIN owner' /\ owner'[tools[k]] = s
         /\ \A u \in Configured : u # s => OwnedBy(u)' = OwnedBy(u)
         /\ OwnedBy(s)' = OwnedBy(s) \cup {tools[k] : k \in DOMAIN tools}
<1> DEFINE new == {tools[k] : k \in DOMAIN tools}
<1>1. owner' = [t \in DOMAIN owner \cup new |-> IF t \in DOMAIN owner THEN owner[t] ELSE s]
  BY DEF Registered
<1>2. new \cap DOMAIN owner = {}  BY DEF AllNew
<1>3. \A t \in DOMAIN owner : owner[t] \in Configured \cup {None}  BY DEF TypeOK
<1>4. \A k \in DOMAIN tools : tools[k] \in new  OBVIOUS
<1> HIDE DEF new
<1>5. /\ DOMAIN owner' = DOMAIN owner \cup new
      /\ \A t \in DOMAIN owner : owner'[t] = owner[t]
      /\ \A t \in new : owner'[t] = s
  BY <1>1, <1>2
<1>6. owner' \in [DOMAIN owner' -> Configured \cup {None}]  BY <1>1, <1>3
<1>7. \A u \in Configured : u # s => OwnedBy(u)' = OwnedBy(u)  BY <1>5 DEF OwnedBy
<1>8. OwnedBy(s)' = OwnedBy(s) \cup new  BY <1>5, <1>2 DEF OwnedBy
<1>9. QED  BY <1>4, <1>5, <1>6, <1>7, <1>8 DEF new

(* In a failed registration the names before the one that is taken.        *)
LEMMA HalfWay ==
  ASSUME TypeOK, stage = "list", next \in DOMAIN Servers, HalfRegisters,
         NEW s \in Configured, s = Server, OwnedBy(s) = {}
  PROVE  /\ owner' \in [DOMAIN owner' -> Configured \cup {None}]
         /\ \A t \in DOMAIN owner : t \in DOMAIN owner' /\ owner'[t] = owner[t]
         /\ \A u \in Configured : u # s => OwnedBy(u)' = OwnedBy(u)
         /\ OwnedBy(s)' # {} => HalfRegistered(s)'
<1>1. CASE UNCHANGED owner
  BY <1>1 DEF TypeOK, OwnedBy
<1>2. CASE \E k \in DOMAIN ToolsOf[Server] :
             LET before == SubSeq(ToolsOf[Server], 1, k - 1)
             IN /\ AllNew(before) /\ ~AllNew(Append(before, ToolsOf[Server][k]))
                /\ owner' = Registered(before)
  <2>1. PICK k \in DOMAIN ToolsOf[s] :
          /\ AllNew(SubSeq(ToolsOf[s], 1, k - 1))
          /\ owner' = Registered(SubSeq(ToolsOf[s], 1, k - 1))
    BY <1>2
  <2> DEFINE before == SubSeq(ToolsOf[s], 1, k - 1)
  <2>2. k \in 1..Len(ToolsOf[s]) /\ Len(ToolsOf[s]) \in Nat
    <3>1. ToolsOf[s] \in Seq({ToolsOf[s][i] : i \in DOMAIN ToolsOf[s]})
      BY BootAssumption DEF Configured
    <3>2. QED  BY <3>1
  <2>3. /\ DOMAIN before = 1..(k - 1)
        /\ \A j \in 1..(k - 1) : before[j] = ToolsOf[s][j]
    <3>1. ToolsOf[s] \in Seq({ToolsOf[s][i] : i \in DOMAIN ToolsOf[s]})
      BY BootAssumption DEF Configured
    <3>2. QED  BY <2>2, <3>1
  <2>4. AllNew(before) /\ owner' = Registered(before)  BY <2>1
  <2> HIDE DEF before
  <2>5. /\ owner' \in [DOMAIN owner' -> Configured \cup {None}]
        /\ \A t \in DOMAIN owner : t \in DOMAIN owner' /\ owner'[t] = owner[t]
        /\ \A u \in Configured : u # s => OwnedBy(u)' = OwnedBy(u)
        /\ OwnedBy(s)' = OwnedBy(s) \cup {before[j] : j \in DOMAIN before}
    BY <2>4, RegisteredTools
  <2>6. OwnedBy(s)' \subseteq {ToolsOf[s][j] : j \in 1..(k - 1)}  BY <2>3, <2>5
  <2>7. HalfRegistered(s)'  BY <2>6 DEF HalfRegistered
  <2>8. QED  BY <2>5, <2>7
<1>3. QED  BY <1>1, <1>2 DEF HalfRegisters

(* There are fewer tools than the server lists.                            *)
LEMMA HalfIsFewer ==
  ASSUME NEW s \in Configured, HalfRegistered(s)
  PROVE  Cardinality(OwnedBy(s)) < Len(ToolsOf[s])
<1>1. PICK k \in DOMAIN ToolsOf[s] : OwnedBy(s) \subseteq {ToolsOf[s][j] : j \in 1..(k - 1)}
  BY DEF HalfRegistered
<1> DEFINE n == k - 1
           names == {ToolsOf[s][j] : j \in 1..n}
           f == [j \in 1..n |-> ToolsOf[s][j]]
<1>2. n \in Nat /\ n < Len(ToolsOf[s]) /\ Len(ToolsOf[s]) \in Nat
  <2>1. ToolsOf[s] \in Seq({ToolsOf[s][i] : i \in DOMAIN ToolsOf[s]})
    BY BootAssumption DEF Configured
  <2>2. QED  BY <2>1
<1>3. f \in [1..n -> names] /\ \A x \in names : \E j \in 1..n : f[j] = x  OBVIOUS
<1>4. IsFiniteSet(1..n) /\ Cardinality(1..n) = n
  <2> HIDE DEF n
  <2>1. 0 \in Int /\ 1 \in Int /\ n \in Int  BY <1>2
  <2>2. QED  BY <2>1, <1>2, FS_Interval
<1>5. f \in Surjection(1..n, names)  BY <1>3 DEF Surjection
<1> HIDE DEF f, n, names
<1>6. IsFiniteSet(names) /\ Cardinality(names) <= n  BY <1>4, <1>5, FS_Surjection
<1>7. OwnedBy(s) \subseteq names  BY <1>1 DEF names, n
<1>8. Cardinality(OwnedBy(s)) <= Cardinality(names) /\ Cardinality(OwnedBy(s)) \in Nat
      /\ Cardinality(names) \in Nat
  BY <1>6, <1>7, FS_Subset, FS_CardinalityType
<1>9. QED  BY <1>2, <1>6, <1>8

-----------------------------------------------------------------------------
(* The parts of the invariant.                                             *)

LEMMA ServersInOrder ==
  /\ DOMAIN Servers = 1..Len(Servers) /\ Len(Servers) \in Nat
  /\ \A n \in DOMAIN Servers : Servers[n] \in Configured
  /\ \A m, n \in DOMAIN Servers : Servers[m] = Servers[n] => m = n
  /\ None \notin Configured
BY BootAssumption DEF Configured

LEMMA BootInit == Init => IInv
<1> SUFFICES ASSUME Init PROVE IInv  OBVIOUS
<1>1. OwnedBy(None) = BuiltIn /\ \A s \in Configured : OwnedBy(s) = {}
  BY ServersInOrder DEF Init, OwnedBy
<1>2. TypeOK  BY DEF Init, TypeOK, Configured
<1>3. Stages  BY DEF Init, Stages, Connecting, Ended
<1>4. InOrder  BY <1>1, ServersInOrder DEF Init, InOrder
<1>5. Owners  BY <1>1 DEF Init, Owners
<1>6. KeptIsComplete  BY DEF Init, KeptIsComplete
<1>7. QED  BY <1>2, <1>3, <1>4, <1>5, <1>6 DEF IInv

(* The steps that leave the registry alone.                                *)
Elsewhere ==
  \/ Prepare \/ StartupFails \/ Ignore \/ Connect \/ ConnectHangs \/ ConnectFails
  \/ ListHangs \/ Connected \/ StartGateway \/ StartRunner \/ Yield \/ Shutdown \/ Return
  \/ StopRunner \/ StopGateway \/ CloseStore
  \/ (\E s \in clients : Disconnect(s))
  \/ (\E t \in DOMAIN owner : Call(t))
  \/ UNCHANGED vars

LEMMA RegistryAlone ==
  ASSUME Elsewhere
  PROVE  UNCHANGED <<owner, returned>>
BY DEF Elsewhere, Prepare, StartupFails, Ignore, Connect, ConnectHangs, ConnectFails,
   ListHangs, Connected, StartGateway, StartRunner, Yield, Shutdown, Return, StopRunner, StopGateway, CloseStore,
   Disconnect, Call, vars

LEMMA TypeStep ==
  ASSUME IInv, [Next]_vars
  PROVE  TypeOK' /\ Stages'
<1> USE DEF IInv
<1>1. next \in Nat /\ client \in [Configured -> {"none", "open", "left", "closed"}]
  BY DEF TypeOK
<1>2. ASSUME next \in DOMAIN Servers, stage \in Connecting
      PROVE  Server \in Configured /\ Server \notin returned /\ next + 1 >= 1
  BY <1>1, <1>2, ServersInOrder DEF InOrder, Server
<1>3. ASSUME Prepare PROVE TypeOK' /\ Stages'
  BY <1>3 DEF Prepare, TypeOK, Stages, Connecting, Ended
<1>4. ASSUME StartupFails PROVE TypeOK' /\ Stages'
  BY <1>4 DEF StartupFails, TypeOK, Stages, Connecting, Ended
<1>5. ASSUME Ignore PROVE TypeOK' /\ Stages'
  BY <1>5 DEF Ignore, Skip, TypeOK, Stages, Connecting, Ended
<1>6. ASSUME Connect PROVE TypeOK' /\ Stages'
  BY <1>1, <1>2, <1>6 DEF Connect, Server, TypeOK, Stages, Connecting, Ended
<1>7. ASSUME ConnectHangs \/ ListHangs PROVE TypeOK' /\ Stages'
  BY <1>7 DEF ConnectHangs, ListHangs, TypeOK, Stages, Connecting, Ended
<1>8. ASSUME ConnectFails PROVE TypeOK' /\ Stages'
  <2>1. next \in DOMAIN Servers /\ stage \in {"connect", "connecting"}
    BY <1>8 DEF ConnectFails, Bounded, Stages
  <2>2. QED  BY <1>1, <1>2, <1>8, <2>1 DEF ConnectFails, Skip, TypeOK, Stages, Connecting, Ended
<1>9. ASSUME Register PROVE TypeOK' /\ Stages'
  <2>1. stage = "list" /\ next \in DOMAIN Servers /\ client[Server] = "open"
    BY <1>9 DEF Register, Stages
  <2>2. Server \in Configured  BY <1>2, <2>1 DEF Connecting
  <2>3. owner' \in [DOMAIN owner' -> Configured \cup {None}]
    BY <1>9, <2>2, RegisteredTools DEF Register
  <2>4. QED
    BY <1>1, <1>9, <2>1, <2>2, <2>3 DEF Register, Skip, TypeOK, Stages, Connecting, Ended
<1>10. ASSUME RegisterFails \/ CloseHangs PROVE TypeOK' /\ Stages'
  <2>1. stage = "list" /\ next \in DOMAIN Servers /\ HalfRegisters
    BY <1>10 DEF RegisterFails, CloseHangs, Stages
  <2>2. Server \in Configured /\ Server \notin returned  BY <1>2, <2>1 DEF Connecting
  <2>3. OwnedBy(Server) = {}
    BY <1>1, <2>1, ServersInOrder DEF InOrder, Connecting, Server
  <2>4. owner' \in [DOMAIN owner' -> Configured \cup {None}]
    BY <2>1, <2>2, <2>3, HalfWay
  <2>5. CASE RegisterFails
    BY <1>1, <2>1, <2>2, <2>4, <2>5
    DEF RegisterFails, Skip, TypeOK, Stages, Connecting, Ended
  <2>6. CASE CloseHangs
    BY <1>1, <2>1, <2>2, <2>4, <2>6
    DEF CloseHangs, TypeOK, Stages, Connecting, Ended
  <2>7. QED  BY <1>10, <2>5, <2>6
<1>11. ASSUME Connected \/ StartGateway \/ StartRunner \/ Yield \/ Shutdown
       PROVE  TypeOK' /\ Stages'
  <2>1. Len(Runners) \in Nat  BY BootAssumption
  <2>2. CASE Connected
    BY <1>1, <2>2 DEF Connected, TypeOK, Stages, Connecting, Ended
  <2>3. CASE StartGateway
    BY <1>1, <2>3 DEF StartGateway, TypeOK, Stages, Connecting, Ended
  <2>4. CASE StartRunner
    BY <1>1, <2>4 DEF StartRunner, TypeOK, Stages, Connecting, Ended
  <2>5. CASE Yield \/ Shutdown
    BY <1>1, <2>1, <2>5 DEF Yield, Shutdown, TypeOK, Stages, Connecting, Ended
  <2>6. QED  BY <1>11, <2>2, <2>3, <2>4, <2>5
<1>12. ASSUME StopRunner \/ StopGateway \/ CloseStore PROVE TypeOK' /\ Stages'
  <2>1. CASE StopRunner
    <3>1. next - 1 \in Nat  BY <1>1, <2>1 DEF StopRunner
    <3>2. QED  BY <2>1, <3>1 DEF StopRunner, TypeOK, Stages, Connecting, Ended
  <2>2. CASE StopGateway
    BY <2>2 DEF StopGateway, TypeOK, Stages, Connecting, Ended
  <2>3. CASE CloseStore
    BY <2>3 DEF CloseStore, TypeOK, Stages, Connecting, Ended
  <2>4. QED  BY <1>12, <2>1, <2>2, <2>3
<1>13. ASSUME NEW s \in clients, Disconnect(s) PROVE TypeOK' /\ Stages'
  BY <1>1, <1>13 DEF Disconnect, AfterGateway, TypeOK, Stages, Connecting, Ended
<1>14. ASSUME Return PROVE TypeOK' /\ Stages'
  BY <1>14 DEF Return, TypeOK, Stages, Connecting, Ended
<1>15. ASSUME NEW t \in DOMAIN owner, Call(t) PROVE TypeOK' /\ Stages'
  <2>1. owner[t] \in Configured  BY <1>15 DEF Call, TypeOK
  <2>2. QED  BY <1>15, <2>1 DEF Call, TypeOK, Stages, Connecting, Ended
<1>16. ASSUME UNCHANGED vars PROVE TypeOK' /\ Stages'
  BY <1>16 DEF vars, TypeOK, Stages, Server
<1>17. QED
  BY <1>3, <1>4, <1>5, <1>6, <1>7, <1>8, <1>9, <1>10, <1>11, <1>12, <1>13, <1>14, <1>15,
     <1>16 DEF Next, Startup, Ending

LEMMA OrderStep ==
  ASSUME IInv, [Next]_vars
  PROVE  InOrder' /\ Owners' /\ KeptIsComplete'
<1> USE DEF IInv
<1>1. next \in Nat  BY DEF TypeOK
<1>2. ASSUME Elsewhere PROVE InOrder'
  <2>1. UNCHANGED <<owner, returned>>  BY <1>2, RegistryAlone
  <2>2. stage' \in Connecting => stage \in Connecting /\ next' \in Nat /\ next' >= next
    BY <1>1, <1>2
    DEF Elsewhere, Prepare, StartupFails, Ignore, Skip, Connect, ConnectHangs, ConnectFails,
        Bounded, ListHangs, Connected, StartGateway, StartRunner, Yield, Shutdown, Return, StopRunner,
        StopGateway, CloseStore, Disconnect, AfterGateway, Call, vars, Connecting, Stages
  <2>3. ASSUME stage' \in Connecting, NEW n \in DOMAIN Servers, n >= next'
        PROVE  n >= next
    BY <1>1, <2>2, <2>3, ServersInOrder
  <2>4. QED  BY <2>1, <2>2, <2>3 DEF InOrder, OwnedBy
<1>3. ASSUME Elsewhere PROVE Owners' /\ KeptIsComplete'
  <2>1. UNCHANGED <<owner, returned>>  BY <1>3, RegistryAlone
  <2>2. \A s \in Configured : OwnedBy(s) = OwnedBy(s)' /\ HalfRegistered(s) = HalfRegistered(s)'
    BY <2>1 DEF OwnedBy, HalfRegistered
  <2>3. calling' # None => OwnedBy(calling') # {}
    BY <1>3 DEF Elsewhere, Prepare, StartupFails, Ignore, Connect, ConnectHangs, ConnectFails,
        ListHangs, Connected, StartGateway, StartRunner, Yield, Shutdown, Return, StopRunner,
        StopGateway, CloseStore, Disconnect, Call, vars, Owners, OwnedBy
  <2>4. calling' # None => OwnedBy(calling)' # {}  BY <2>1, <2>3 DEF OwnedBy
  <2>5. clients' \subseteq returned \cup clients
    BY <1>3 DEF Elsewhere, Prepare, StartupFails, Ignore, Connect, ConnectHangs, ConnectFails,
        ListHangs, Connected, StartGateway, StartRunner, Yield, Shutdown, Return, StopRunner,
        StopGateway, CloseStore, Disconnect, Call, vars
  <2>6. Owners'  BY <2>1, <2>2, <2>4 DEF Owners
  <2>7. KeptIsComplete'  BY <2>1, <2>5 DEF KeptIsComplete
  <2>8. QED  BY <2>6, <2>7
<1>4. ASSUME Register \/ RegisterFails \/ CloseHangs
      PROVE  /\ stage = "list" /\ next \in DOMAIN Servers
             /\ Server \in Configured /\ OwnedBy(Server) = {}
             /\ stage' = "closing" \/ (stage' = "connect" /\ next' = next + 1)
             /\ calling = None /\ calling' = None /\ clients' = clients
             /\ \A n \in DOMAIN Servers : n >= next + 1 =>
                  /\ Servers[n] \in Configured /\ Servers[n] # Server
                  /\ Servers[n] \notin returned /\ OwnedBy(Servers[n]) = {}
  <2>1. stage = "list" /\ next \in DOMAIN Servers /\ calling = None
    BY <1>4 DEF Register, RegisterFails, CloseHangs, Stages, Connecting
  <2>2. /\ stage' = "closing" \/ (stage' = "connect" /\ next' = next + 1)
        /\ calling' = calling /\ clients' = clients
    BY <1>4 DEF Register, RegisterFails, CloseHangs, Skip
  <2>3. \A n \in DOMAIN Servers : n >= next + 1 => n >= next /\ n # next
    BY <1>1, ServersInOrder
  <2>4. next >= next  BY <1>1
  <2>5. QED  BY <2>1, <2>2, <2>3, <2>4, ServersInOrder DEF InOrder, Connecting, Server
<1>5. ASSUME Register PROVE InOrder' /\ Owners' /\ KeptIsComplete'
  <2>1. PICK s \in Configured : s = Server  BY <1>4, <1>5
  <2>2. AllNew(ToolsOf[s]) /\ owner' = Registered(ToolsOf[s]) /\ returned' = returned \cup {s}
    BY <1>5, <2>1 DEF Register
  <2>3. /\ \A t \in DOMAIN owner : t \in DOMAIN owner' /\ owner'[t] = owner[t]
        /\ \A k \in DOMAIN ToolsOf[s] :
             ToolsOf[s][k] \in DOMAIN owner' /\ owner'[ToolsOf[s][k]] = s
        /\ \A u \in Configured : u # s => OwnedBy(u)' = OwnedBy(u)
    BY <2>1, <2>2, RegisteredTools
  <2>a. stage' = "connect" /\ next' = next + 1  BY <1>5 DEF Register, Skip
  <2>4. InOrder'  BY <1>4, <1>5, <2>1, <2>2, <2>3, <2>a DEF InOrder, Connecting
  <2>5. \A u \in Configured : u # s => (HalfRegistered(u) => HalfRegistered(u)')
    BY <2>3 DEF HalfRegistered
  <2>6. Owners'  BY <1>4, <1>5, <2>2, <2>3, <2>5 DEF Owners
  <2>7. KeptIsComplete'  BY <1>4, <1>5, <2>2, <2>3 DEF KeptIsComplete
  <2>8. QED  BY <2>4, <2>6, <2>7
<1>6. ASSUME RegisterFails \/ CloseHangs PROVE InOrder' /\ Owners' /\ KeptIsComplete'
  <2>1. PICK s \in Configured : s = Server  BY <1>4, <1>6
  <2>2. returned' = returned /\ HalfRegisters  BY <1>6 DEF RegisterFails, CloseHangs
  <2>3. /\ \A t \in DOMAIN owner : t \in DOMAIN owner' /\ owner'[t] = owner[t]
        /\ \A u \in Configured : u # s => OwnedBy(u)' = OwnedBy(u)
        /\ OwnedBy(s)' # {} => HalfRegistered(s)'
    BY <1>4, <1>6, <2>1, <2>2, HalfWay
  <2>4. InOrder'  BY <1>4, <1>6, <2>1, <2>2, <2>3 DEF InOrder, Connecting
  <2>5. \A u \in Configured : u # s => (HalfRegistered(u) => HalfRegistered(u)')
    BY <2>3 DEF HalfRegistered
  <2>6. Owners'  BY <1>4, <1>6, <2>2, <2>3, <2>5 DEF Owners
  <2>7. KeptIsComplete'  BY <1>4, <1>6, <2>2, <2>3 DEF KeptIsComplete
  <2>8. QED  BY <2>4, <2>6, <2>7
<1>7. QED  BY <1>2, <1>3, <1>5, <1>6 DEF Next, Startup, Ending, Elsewhere

-----------------------------------------------------------------------------
(* The theorems.                                                           *)

(* The invariant holds at the start and is kept by every step.             *)
THEOREM Invariance == Spec => []IInv
<1>1. IInv /\ [Next]_vars => IInv'  BY TypeStep, OrderStep DEF IInv
<1>2. QED  BY <1>1, BootInit, PTL DEF Spec

(* Every variable of the lifespan always has its type.                     *)
THEOREM TypeCorrect == Spec => []TypeOK
<1>1. IInv => TypeOK  BY DEF IInv
<1>2. QED  BY <1>1, Invariance, PTL

(* For any servers and names, colliding or not: a client that is kept has  *)
(* all of its server's tools, and they lead to it alone.                   *)
THEOREM KeptServersComplete == Spec => []KeptIsComplete
<1>1. IInv => KeptIsComplete  BY DEF IInv
<1>2. QED  BY <1>1, Invariance, PTL

(* Wherever the startup breaks and in whatever order the shutdown closes   *)
(* the clients: turns run on an open store and open clients, and only the  *)
(* tools of a server that failed half way lead to a closed one.            *)
THEOREM TurnsMeetOpenClients == Spec => []InUseIsOpen
<1>1. IInv => InUseIsOpen
  <2> SUFFICES ASSUME IInv, workers, stage # "failed" PROVE InUseIsOpen
    BY DEF InUseIsOpen
  <2>1. stage \notin Ended /\ stage # "start"
    BY DEF IInv, Stages, Connecting, Ended
  <2>2. store /\ \A s \in returned : client[s] = "open"
    BY <2>1 DEF IInv, Stages, Ended
  <2>3. \A s \in clients : client[s] = "open"  BY <2>2 DEF IInv, TypeOK
  <2>4. ASSUME calling # None, client[calling] # "open"
        PROVE  Cardinality(OwnedBy(calling)) < Len(ToolsOf[calling])
    <3>1. calling \in Configured  BY <2>4 DEF IInv, TypeOK
    <3>2. HalfRegistered(calling)  BY <2>2, <2>4, <3>1 DEF IInv, Owners
    <3>3. QED  BY <3>1, <3>2, HalfIsFewer
  <2>5. QED  BY <2>2, <2>3, <2>4 DEF InUseIsOpen, OwnedBy
<1>2. QED  BY <1>1, Invariance, PTL

-----------------------------------------------------------------------------
(* The store: the inductive invariant.                                     *)

(* Where an operation can be goes with its kind, and a process that is     *)
(* down runs none.                                                         *)
Places ==
  /\ \A t \in Tasks : pc[t] = "written" => kind[t] = "write"
  /\ \A t \in Tasks :
       pc[t] \in {"begun", "inserted", "updated", "failing"}
         => kind[t] = "complete"
  /\ up # "running" => \A t \in Tasks : pc[t] \in {"new"} \cup Over

(* Only the sweep interrupts, and it comes last.                           *)
SweepIsLast ==
  \A t \in Tasks : /\ <<t, "interrupted">> \notin buf
                   /\ <<t, "interrupted">> \in disk => up = "recovered"

(* What the statements of t have written when it is at its place.          *)
SoFar(t) ==
  CASE pc[t] = "written"  -> {<<t, "row">>}
    [] pc[t] = "inserted" -> {<<t, "result">>}
    [] pc[t] = "updated"  -> {<<t, "result">>, <<t, "status">>}
    [] OTHER              -> {}

(* What was written is committed, in the transaction, or rolled back by a  *)
(* completion.                                                             *)
Survives ==
  \A t \in Tasks :
    /\ SoFar(t) \subseteq disk \cup buf \cup undone
    /\ pc[t] = "returned" => Facts(t) \subseteq disk \cup undone

(* The transaction is some operation's that is not over, or that broke off *)
(* without a rollback, and so is every row in it.                          *)
Unfinished(t) == t \in Busy \/ BrokeOff(t)
Lingers == /\ open => \E t \in Tasks : Unfinished(t)
           /\ \A fact \in buf : Unfinished(fact[1])

(* An undisturbed operation has the transaction for itself: it holds what  *)
(* the operation has written, none of which is committed before the end.   *)
Owns(t) ==
  \/ /\ pc[t] # "failing"
     /\ buf = SoFar(t)
     /\ Facts(t) \cap disk = {}
  \/ /\ pc[t] = "failing"
     /\ buf \subseteq Facts(t)
     /\ Facts(t) \cap disk = {}
  \/ /\ pc[t] = "failing"
     /\ buf = {}
     /\ Whole(t)

AtRest(t) == /\ ~Torn(t)
             /\ pc[t] = "new" => Facts(t) \cap disk = {}
             /\ pc[t] = "returned" => Whole(t)

Alone ==
  ~disturbed =>
    /\ \A t, u \in Busy : t = u
    /\ Busy = {} => buf = {} /\ ~open
    /\ \A t \in Busy : Owns(t)
    /\ \A t \in Tasks : AtRest(t)
    /\ up = "recovered"
         => \A t \in Tasks : kind[t] = "complete"
              => (Whole(t) <=> <<t, "interrupted">> \notin disk)

StoreInv == /\ StoreTypeOK
        /\ Places
        /\ SweepIsLast
        /\ Survives
        /\ Lingers
        /\ Alone

-----------------------------------------------------------------------------
(* Lemmas.                                                                 *)

(* The rows each kind of operation writes.                                 *)
LEMMA FactsByKind ==
  ASSUME NEW t \in Tasks
  PROVE  /\ kind[t] = "write"    => Facts(t) = {<<t, "row">>}
         /\ kind[t] = "complete" => Facts(t) = {<<t, "result">>, <<t, "status">>}
<1>1. ASSUME kind[t] = "write" PROVE Facts(t) = {<<t, "row">>}
  <2>1. Needs[kind[t]] = {"row"}  BY <1>1 DEF Needs
  <2>2. QED  BY <2>1 DEF Facts
<1>2. ASSUME kind[t] = "complete"
      PROVE  Facts(t) = {<<t, "result">>, <<t, "status">>}
  <2>1. Needs[kind[t]] = {"result", "status"}  BY <1>2 DEF Needs
  <2>2. QED  BY <2>1 DEF Facts
<1>3. QED  BY <1>1, <1>2

(* Every step but Crash and Recover belongs to one task, and moves it only. *)
LEMMA StepMovesOne ==
  ASSUME StoreTypeOK, NEW t \in Tasks, Step(t)
  PROVE  /\ up = "running" /\ up' = up /\ kind' = kind
         /\ \E l \in {"written", "begun", "inserted", "updated", "failing",
                      "returned", "raised"} : pc' = [pc EXCEPT ![t] = l]
         /\ pc[t] \notin Over
BY DEF Step, Execute, ExecuteFails, Commit, CancelWrite, Begin, InsertResult,
   UpdateStatus, CommitPair, Breaks, Rollback, Starts, Continues, Goto, Over

(* Init satisfies the invariant.                                           *)
LEMMA InitInv == StoreInit => StoreInv
<1> SUFFICES ASSUME StoreInit PROVE StoreInv
  OBVIOUS
<1>1. \A t \in Tasks : pc[t] = "new"  BY DEF StoreInit
<1>2. Busy = {}  BY <1>1 DEF Busy
<1>3. StoreTypeOK  BY DEF StoreInit, StoreTypeOK, AllFacts, Needs, Over
<1>4. \A t \in Tasks : AtRest(t)
  BY <1>1 DEF StoreInit, AtRest, Torn, Whole
<1>5. Alone  BY <1>2, <1>4 DEF StoreInit, Alone
<1>6. QED
  BY <1>1, <1>3, <1>5 DEF StoreInit, StoreInv, Places, SweepIsLast,
     Survives, Lingers, SoFar

(* What a step of a task may put on disk: the transaction's rows, which    *)
(* the step may extend by one row of the task.                             *)
LEMMA StepWrites ==
  ASSUME StoreTypeOK, NEW t \in Tasks, Step(t)
  PROVE  /\ disk \subseteq disk'
         /\ disk' \subseteq disk \cup buf
         /\ \E fact \in {<<t, "row">>, <<t, "result">>, <<t, "status">>} :
              buf' \subseteq buf \cup {fact}
BY DEF Step, Execute, ExecuteFails, Commit, CancelWrite, Begin, InsertResult,
   UpdateStatus, CommitPair, Breaks, Rollback, Put, CommitAll, RollbackAll

(* Steps keep the types.                                                   *)
LEMMA StoreTypeStep == StoreTypeOK /\ [StoreNext]_storeVars => StoreTypeOK'
<1> SUFFICES ASSUME StoreTypeOK, [StoreNext]_storeVars PROVE StoreTypeOK'
  OBVIOUS
<1>1. ASSUME NEW t \in Tasks, Step(t) PROVE StoreTypeOK'
  <2>1. pc' \in [Tasks -> {"new", "written", "begun", "inserted", "updated",
                           "failing"} \cup Over]
        /\ up' = up /\ kind' = kind
    BY <1>1, StepMovesOne DEF StoreTypeOK, Over
  <2>2. disk' \subseteq AllFacts /\ buf' \subseteq AllFacts
    <3>1. {<<t, "row">>, <<t, "result">>, <<t, "status">>} \subseteq AllFacts
      BY DEF AllFacts
    <3>2. QED  BY <1>1, <3>1, StepWrites DEF StoreTypeOK
  <2>3. (buf' # {} => open') /\ open' \in BOOLEAN
    BY <1>1 DEF StoreTypeOK, Step, Execute, ExecuteFails, Commit, CancelWrite, Begin,
       InsertResult, UpdateStatus, CommitPair, Breaks, Rollback, Put, CommitAll,
       RollbackAll
  <2>4. disturbed' \in BOOLEAN
    <3>1. disturbed' = TRUE \/ disturbed' = disturbed
          \/ disturbed' = (disturbed \/ Busy # {})
      BY <1>1, Zenon DEF Step, Execute, ExecuteFails, Commit, CancelWrite,
         Begin, InsertResult, UpdateStatus, CommitPair, Breaks, Rollback, Starts
    <3>2. (disturbed \/ Busy # {}) \in BOOLEAN  OBVIOUS
    <3>3. disturbed \in BOOLEAN  BY DEF StoreTypeOK
    <3>4. TRUE \in BOOLEAN  OBVIOUS
    <3>5. CASE disturbed' = TRUE  BY <3>5, <3>4, Zenon
    <3>6. CASE disturbed' = disturbed  BY <3>6, <3>3, Zenon
    <3>7. CASE disturbed' = (disturbed \/ Busy # {})  BY <3>7, <3>2, Zenon
    <3>8. QED  BY <3>1, <3>5, <3>6, <3>7, Zenon
  <2>5. undone' \subseteq AllFacts
    BY <1>1 DEF StoreTypeOK, Step, Execute, ExecuteFails, Commit, CancelWrite, Begin,
       InsertResult, UpdateStatus, CommitPair, Breaks, Rollback
  <2>6. QED  BY <2>1, <2>2, <2>3, <2>4, <2>5 DEF StoreTypeOK
<1>2. CASE Crash
  <2>1. pc' \in [Tasks -> {"new", "written", "begun", "inserted", "updated",
                           "failing"} \cup Over]
    BY <1>2 DEF Crash, StoreTypeOK, Over
  <2>2. QED  BY <1>2, <2>1 DEF Crash, RollbackAll, StoreTypeOK
<1>3. CASE Recover
  <2>1. {<<t, "interrupted">> : t \in Orphans} \subseteq AllFacts
    <3>1. Orphans \subseteq Tasks  BY DEF Orphans
    <3>2. \A t \in Tasks : <<t, "interrupted">> \in AllFacts  BY DEF AllFacts
    <3>3. QED  BY <3>1, <3>2
  <2>2. QED  BY <1>3, <2>1 DEF Recover, StoreTypeOK
<1>4. CASE UNCHANGED storeVars  BY <1>4 DEF storeVars, StoreTypeOK
<1>5. QED  BY <1>1, <1>2, <1>3, <1>4 DEF StoreNext

(* Steps keep places and kinds together.                                   *)
LEMMA PlacesStep == StoreTypeOK /\ Places /\ [StoreNext]_storeVars => Places'
<1> SUFFICES ASSUME StoreTypeOK, Places, [StoreNext]_storeVars PROVE Places'
  OBVIOUS
<1> USE DEF Places
<1>1. ASSUME NEW t \in Tasks, Step(t) PROVE Places'
  <2>1. /\ pc'[t] = "written" => kind[t] = "write"
        /\ pc'[t] \in {"begun", "inserted", "updated", "failing"}
             => kind[t] = "complete"
    BY <1>1 DEF StoreTypeOK, Step, Execute, ExecuteFails, Commit, CancelWrite, Begin,
       InsertResult, UpdateStatus, CommitPair, Breaks, Rollback, Starts,
       Continues, Goto
  <2>2. QED  BY <1>1, <2>1, StepMovesOne DEF StoreTypeOK
<1>2. CASE Crash
  <2>1. \A t \in Tasks : pc'[t] \in {"new"} \cup Over
    BY <1>2 DEF Crash, Busy, Over
  <2>2. QED  BY <2>1, <1>2 DEF Crash, Over
<1>3. CASE Recover  BY <1>3 DEF Recover
<1>4. CASE UNCHANGED storeVars  BY <1>4 DEF storeVars
<1>5. QED  BY <1>1, <1>2, <1>3, <1>4 DEF StoreNext

(* Only Recover interrupts.                                                *)
LEMMA SweepStep ==
  StoreTypeOK /\ SweepIsLast /\ [StoreNext]_storeVars => SweepIsLast'
<1> SUFFICES ASSUME StoreTypeOK, SweepIsLast, [StoreNext]_storeVars
             PROVE  SweepIsLast'
  OBVIOUS
<1> USE DEF SweepIsLast
<1>1. ASSUME NEW t \in Tasks, Step(t) PROVE SweepIsLast'
  <2>1. up = "running" /\ up' = up  BY <1>1, StepMovesOne
  <2>2. \A u \in Tasks : /\ <<u, "interrupted">> \notin buf'
                         /\ <<u, "interrupted">> \notin disk'
    <3>1. \A u \in Tasks :
            <<u, "interrupted">> \notin
              {<<t, "row">>, <<t, "result">>, <<t, "status">>}
      OBVIOUS
    <3>2. \A u \in Tasks : <<u, "interrupted">> \notin disk \cup buf
      BY <2>1
    <3>3. QED  BY <1>1, <3>1, <3>2, StepWrites
  <2>3. QED  BY <2>1, <2>2
<1>2. CASE Crash  BY <1>2 DEF Crash, RollbackAll
<1>3. CASE Recover  BY <1>3 DEF Recover, Orphans
<1>4. CASE UNCHANGED storeVars  BY <1>4 DEF storeVars
<1>5. QED  BY <1>1, <1>2, <1>3, <1>4 DEF StoreNext

(* What the statements so far have written, place by place.                *)
LEMMA SoFarByPlace ==
  ASSUME NEW t \in Tasks
  PROVE  /\ pc[t] = "written"  => SoFar(t) = {<<t, "row">>}
         /\ pc[t] = "inserted" => SoFar(t) = {<<t, "result">>}
         /\ pc[t] = "updated"  => SoFar(t) = {<<t, "result">>, <<t, "status">>}
         /\ pc[t] \notin {"written", "inserted", "updated"} => SoFar(t) = {}
BY DEF SoFar

(* All but a rollback keep what is committed or in the transaction.        *)
LEMMA NothingLost ==
  ASSUME NEW t \in Tasks, Step(t), ~Rollback(t)
  PROVE  disk \cup buf \subseteq disk' \cup buf' /\ undone' = undone
BY DEF Step, Execute, ExecuteFails, Commit, CancelWrite, Begin, InsertResult,
   UpdateStatus, CommitPair, Breaks, Put, CommitAll

(* A task that a step leaves where it is keeps its part of Survives.       *)
LEMMA OthersSurvive ==
  ASSUME StoreTypeOK, NEW t \in Tasks, NEW u \in Tasks, pc'[u] = pc[u],
         kind' = kind
  PROVE  SoFar(u)' = SoFar(u) /\ Facts(u)' = Facts(u)
BY DEF SoFar, Facts

(* The step of an operation keeps its own part of Survives.                *)
LEMMA OwnSurvives ==
  ASSUME StoreTypeOK, Places, NEW t \in Tasks, Step(t), ~Rollback(t),
         SoFar(t) \subseteq disk \cup buf \cup undone
  PROVE  /\ SoFar(t)' \subseteq disk' \cup buf' \cup undone'
         /\ pc'[t] = "returned" => Facts(t)' \subseteq disk' \cup undone'
<1> USE DEF Goto, Continues, Starts, StoreTypeOK
<1>1. Facts(t)' = Facts(t)  BY StepMovesOne DEF Facts
<1>2. CASE Execute(t)
  <2>1. pc'[t] = "written" /\ <<t, "row">> \in buf'
    BY <1>2 DEF Execute, Put
  <2>2. QED  BY <2>1 DEF SoFar
<1>3. CASE ExecuteFails(t) \/ CancelWrite(t) \/ Begin(t) \/ Breaks(t)
  <2>1. pc'[t] \in {"raised", "begun", "failing"}
    BY <1>3 DEF ExecuteFails, CancelWrite, Begin, Breaks
  <2>2. QED  BY <2>1 DEF SoFar
<1>4. CASE InsertResult(t)
  <2>1. pc'[t] = "inserted" /\ <<t, "result">> \in buf'
    BY <1>4 DEF InsertResult, Put
  <2>2. QED  BY <2>1 DEF SoFar
<1>5. CASE UpdateStatus(t)
  <2>1. pc'[t] = "updated" /\ <<t, "status">> \in buf'
    BY <1>5 DEF UpdateStatus, Put
  <2>2. SoFar(t) = {<<t, "result">>}  BY <1>5 DEF UpdateStatus, SoFar
  <2>3. <<t, "result">> \in disk' \cup buf' \cup undone'
    BY <2>2, NothingLost
  <2>4. QED  BY <2>1, <2>3 DEF SoFar
<1>6. CASE Commit(t) \/ CommitPair(t)
  <2>1. disk' = disk \cup buf /\ undone' = undone
    BY <1>6 DEF Commit, CommitPair, CommitAll
  <2>2. pc'[t] \in {"returned", "raised", "failing"}
    BY <1>6 DEF Commit, CommitPair
  <2>3. SoFar(t)' = {}  BY <2>2 DEF SoFar
  <2>4. Facts(t) = SoFar(t)
    BY <1>6, FactsByKind, SoFarByPlace DEF Commit, CommitPair, Places
  <2>5. QED  BY <1>1, <2>1, <2>3, <2>4
<1>7. QED  BY <1>2, <1>3, <1>4, <1>5, <1>6 DEF Step

(* What was written survives, or a completion rolls it back.               *)
LEMMA SurvivesStep == StoreTypeOK /\ Places /\ Survives /\ [StoreNext]_storeVars => Survives'
<1> SUFFICES ASSUME StoreTypeOK, Places, Survives, [StoreNext]_storeVars
             PROVE  Survives'
  OBVIOUS
<1> USE DEF Survives
<1>1. ASSUME NEW t \in Tasks, Step(t) PROVE Survives'
  <2>1. disk \cup undone \subseteq disk' \cup undone'
        /\ disk \cup buf \cup undone \subseteq disk' \cup buf' \cup undone'
    <3>1. CASE Rollback(t)  BY <3>1 DEF Rollback, RollbackAll
    <3>2. CASE ~Rollback(t)  BY <1>1, <3>2, NothingLost, StepWrites
    <3>3. QED  BY <3>1, <3>2
  <2>2. ASSUME NEW u \in Tasks, u # t
        PROVE  /\ SoFar(u)' \subseteq disk' \cup buf' \cup undone'
               /\ pc'[u] = "returned" => Facts(u)' \subseteq disk' \cup undone'
    <3>1. pc'[u] = pc[u] /\ kind' = kind
      BY <1>1, <2>2, StepMovesOne DEF StoreTypeOK
    <3>2. QED  BY <2>1, <3>1, OthersSurvive
  <2>3. /\ SoFar(t)' \subseteq disk' \cup buf' \cup undone'
        /\ pc'[t] = "returned" => Facts(t)' \subseteq disk' \cup undone'
    <3>1. CASE Rollback(t)
      <4>1. pc'[t] = "raised"
        BY <3>1 DEF Rollback, Continues, Goto, StoreTypeOK
      <4>2. QED  BY <4>1 DEF SoFar
    <3>2. CASE ~Rollback(t)  BY <1>1, <3>2, OwnSurvives
    <3>3. QED  BY <3>1, <3>2
  <2>4. QED  BY <2>2, <2>3
<1>2. CASE Crash
  <2>1. ASSUME NEW u \in Tasks
        PROVE  /\ SoFar(u)' \subseteq disk' \cup buf' \cup undone'
               /\ pc'[u] = "returned" => Facts(u)' \subseteq disk' \cup undone'
    <3>1. pc'[u] \in {"new"} \cup Over
          /\ (pc'[u] = "returned" => pc[u] = "returned")
      BY <1>2 DEF Crash, Busy, Over, StoreTypeOK
    <3>2. SoFar(u)' = {}  BY <3>1 DEF SoFar, Over
    <3>3. Facts(u)' = Facts(u) /\ disk' = disk /\ undone' = undone
      BY <1>2 DEF Crash, RollbackAll, Facts
    <3>4. QED  BY <3>1, <3>2, <3>3
  <2>2. QED  BY <2>1
<1>3. CASE Recover \/ UNCHANGED storeVars
  <2>1. disk \subseteq disk' /\ UNCHANGED <<buf, kind, pc, undone>>
    BY <1>3 DEF Recover, storeVars
  <2>2. ASSUME NEW u \in Tasks
        PROVE  SoFar(u)' = SoFar(u) /\ Facts(u)' = Facts(u)
    BY <2>1 DEF SoFar, Facts
  <2>3. QED  BY <2>1, <2>2
<1>4. QED  BY <1>1, <1>2, <1>3 DEF StoreNext

(* A transaction stays open only for an operation that still is to end it, *)
(* or for a simple write that broke off.                                   *)
LEMMA LingersStep == StoreTypeOK /\ Places /\ Lingers /\ [StoreNext]_storeVars => Lingers'
<1> SUFFICES ASSUME StoreTypeOK, Places, Lingers, [StoreNext]_storeVars
             PROVE  Lingers'
  OBVIOUS
<1>1. ASSUME NEW t \in Tasks, Step(t) PROVE Lingers'
  <2>1. CASE Commit(t) \/ CommitPair(t) \/ Rollback(t)
    <3>1. ~open' /\ buf' = {}
      BY <2>1 DEF Commit, CommitPair, Rollback, CommitAll, RollbackAll
    <3>2. QED  BY <3>1 DEF Lingers
  <2>2. CASE ~(Commit(t) \/ CommitPair(t) \/ Rollback(t))
    <3>1. \/ pc'[t] \in {"written", "begun", "inserted", "updated", "failing"}
          \/ pc'[t] = "raised" /\ kind[t] = "write"
      BY <1>1, <2>2 DEF StoreTypeOK, Places, Step, Execute, ExecuteFails,
         CancelWrite, Begin, InsertResult, UpdateStatus, Breaks, Starts,
         Continues, Goto
    <3>2. Unfinished(t)'
      BY <1>1, <3>1, StepMovesOne DEF Unfinished, Busy, BrokeOff, Over
    <3>3. ASSUME NEW u \in Tasks, Unfinished(u) PROVE Unfinished(u)'
      <4>1. CASE u = t  BY <4>1, <3>2
      <4>2. CASE u # t
        <5>1. pc'[u] = pc[u] /\ kind' = kind
          BY <1>1, <4>2, StepMovesOne DEF StoreTypeOK
        <5>2. QED  BY <3>3, <5>1 DEF Unfinished, Busy, BrokeOff
      <4>3. QED  BY <4>1, <4>2
    <3>4. ASSUME NEW fact \in buf' PROVE Unfinished(fact[1])'
      <4>1. CASE fact \in buf
        <5>1. fact[1] \in Tasks  BY <4>1 DEF StoreTypeOK, AllFacts
        <5>2. QED  BY <4>1, <5>1, <3>3 DEF Lingers
      <4>2. CASE fact \notin buf
        <5>1. fact[1] = t  BY <1>1, <3>4, <4>2, StepWrites
        <5>2. QED  BY <5>1, <3>2
      <4>3. QED  BY <4>1, <4>2
    <3>5. QED  BY <3>2, <3>4 DEF Lingers
  <2>3. QED  BY <2>1, <2>2
<1>2. CASE Crash
  <2>1. ~open' /\ buf' = {}  BY <1>2 DEF Crash, RollbackAll
  <2>2. QED  BY <2>1 DEF Lingers
<1>3. CASE Recover \/ UNCHANGED storeVars
  BY <1>3 DEF Recover, storeVars, Lingers, Unfinished, Busy, BrokeOff
<1>4. QED  BY <1>1, <1>2, <1>3 DEF StoreNext

(* The operations of two tasks have no row in common.                      *)
LEMMA FactsApart ==
  ASSUME NEW t \in Tasks, NEW u \in Tasks, t # u
  PROVE  Facts(t) \cap Facts(u) = {}
BY DEF Facts

(* What an operation has written is part of what it is to write.           *)
LEMMA SoFarIsFacts ==
  ASSUME Places, NEW t \in Tasks
  PROVE  SoFar(t) \subseteq Facts(t)
BY FactsByKind, SoFarByPlace DEF Places

(* A step that disturbs nothing is of the one busy task, or of a new task  *)
(* while none is busy.                                                     *)
LEMMA UndisturbedStep ==
  ASSUME StoreTypeOK, Alone, NEW t \in Tasks, Step(t), ~disturbed'
  PROVE  /\ ~disturbed
         /\ Busy \subseteq {t}
         /\ Busy' \subseteq {t}
<1>1. ~disturbed /\ (pc[t] = "new" => Busy = {})
  <2>1. CASE Execute(t) \/ Begin(t)
    <3>1. disturbed' = (disturbed \/ Busy # {})
      BY <2>1, Zenon DEF Execute, Begin, Starts
    <3>2. QED  BY <3>1, Zenon
  <2>2. CASE ExecuteFails(t) \/ CancelWrite(t)
    BY <2>2 DEF ExecuteFails, CancelWrite
  <2>3. CASE \/ Commit(t) \/ InsertResult(t) \/ UpdateStatus(t)
             \/ CommitPair(t) \/ Breaks(t) \/ Rollback(t)
    <3>1. disturbed' = disturbed
      BY <2>3 DEF Commit, InsertResult, UpdateStatus, CommitPair, Breaks,
         Rollback
    <3>2. pc[t] # "new"
      BY <2>3 DEF Commit, InsertResult, UpdateStatus, CommitPair, Breaks,
         Rollback, Continues
    <3>3. QED  BY <3>1, <3>2
  <2>4. QED  BY <2>1, <2>2, <2>3 DEF Step
<1>2. pc[t] # "new" => t \in Busy  BY StepMovesOne DEF Busy
<1>3. Busy \subseteq {t}  BY <1>1, <1>2 DEF Alone
<1>4. Busy' \subseteq {t}
  <2>1. \A u \in Tasks : u # t => pc'[u] = pc[u]
    BY StepMovesOne DEF StoreTypeOK
  <2>2. QED  BY <1>3, <2>1 DEF Busy
<1>5. QED  BY <1>1, <1>2, <1>3, <1>4 DEF Alone

(* Alone, the step of an operation keeps the transaction its own.          *)
LEMMA OwnAlone ==
  ASSUME StoreTypeOK, Places, Alone, NEW t \in Tasks, Step(t), ~disturbed'
  PROVE  /\ t \in Busy' => Owns(t)'
         /\ t \notin Busy' => buf' = {} /\ ~open'
         /\ AtRest(t)'
         /\ disk' \subseteq disk \cup Facts(t)
<1> USE DEF Goto, Continues, Starts
<1>a. Facts(t)' = Facts(t)  BY StepMovesOne DEF Facts
<1>b. ~disturbed /\ Busy \subseteq {t}  BY UndisturbedStep
<1>c. AtRest(t)  BY <1>b DEF Alone
<1>d. \A l : pc' = [pc EXCEPT ![t] = l] => pc'[t] = l  BY DEF StoreTypeOK
<1>e. pc'[t] \in {"returned", "raised"} => t \notin Busy'
  BY DEF Busy, Over
<1>f. pc'[t] \notin {"new", "returned", "raised", "gone"} => t \in Busy'
  BY DEF Busy, Over
<1>1. CASE Execute(t)
  <2>1. Busy = {} /\ kind[t] = "write" /\ pc[t] = "new"
    BY <1>1 DEF Execute
  <2>2. buf = {} /\ Facts(t) \cap disk = {}
    BY <2>1, <1>b, <1>c DEF Alone, AtRest
  <2>3. buf' = {<<t, "row">>} /\ disk' = disk /\ pc'[t] = "written"
    BY <1>1, <2>2, <1>d DEF Execute, Put
  <2>4. SoFar(t)' = {<<t, "row">>}  BY <2>3 DEF SoFar
  <2>5. QED  BY <1>a, <1>f, <2>2, <2>3, <2>4 DEF Owns, AtRest, Torn, Whole
<1>2. CASE Begin(t)
  <2>1. Busy = {} /\ kind[t] = "complete" /\ pc[t] = "new"
    BY <1>2 DEF Begin
  <2>2. buf = {} /\ ~open /\ Facts(t) \cap disk = {}
    BY <2>1, <1>b, <1>c DEF Alone, AtRest
  <2>3. buf' = {} /\ disk' = disk /\ pc'[t] = "begun"
    BY <1>2, <2>2, <1>d DEF Begin
  <2>4. SoFar(t)' = {}  BY <2>3 DEF SoFar
  <2>5. QED  BY <1>a, <1>f, <2>2, <2>3, <2>4 DEF Owns, AtRest, Torn, Whole
<1>3. ASSUME t \in Busy, pc[t] # "failing"
      PROVE  buf = SoFar(t) /\ Facts(t) \cap disk = {}
  BY <1>3, <1>b DEF Alone, Owns
<1>4. CASE InsertResult(t)
  <2>1. pc[t] = "begun" /\ t \in Busy
    BY <1>4 DEF InsertResult, Busy, Over
  <2>2. buf = {} /\ Facts(t) \cap disk = {}
    BY <2>1, <1>3, SoFarByPlace
  <2>3. buf' = {<<t, "result">>} /\ disk' = disk /\ pc'[t] = "inserted"
    BY <1>4, <2>2, <1>d DEF InsertResult, Put
  <2>4. SoFar(t)' = {<<t, "result">>}  BY <2>3 DEF SoFar
  <2>5. QED  BY <1>a, <1>f, <2>2, <2>3, <2>4 DEF Owns, AtRest, Torn, Whole
<1>5. CASE UpdateStatus(t)
  <2>1. pc[t] = "inserted" /\ t \in Busy
    BY <1>5 DEF UpdateStatus, Busy, Over
  <2>2. buf = {<<t, "result">>} /\ Facts(t) \cap disk = {}
    BY <2>1, <1>3, SoFarByPlace
  <2>3. /\ buf' = {<<t, "result">>, <<t, "status">>}
        /\ disk' = disk
        /\ pc'[t] = "updated"
    BY <1>5, <2>2, <1>d DEF UpdateStatus, Put
  <2>4. SoFar(t)' = {<<t, "result">>, <<t, "status">>}  BY <2>3 DEF SoFar
  <2>5. QED  BY <1>a, <1>f, <2>2, <2>3, <2>4 DEF Owns, AtRest, Torn, Whole
<1>6. CASE Commit(t) \/ CommitPair(t)
  <2>1. pc[t] \in {"written", "updated"} /\ t \in Busy
    BY <1>6 DEF Commit, CommitPair, Busy, Over
  <2>2. buf = Facts(t)
    BY <2>1, <1>3, SoFarByPlace, FactsByKind DEF Places
  <2>3. disk' = disk \cup Facts(t) /\ buf' = {} /\ ~open'
    BY <1>6, <2>2 DEF Commit, CommitPair, CommitAll
  <2>4. pc'[t] \in {"returned", "raised", "failing"}
    BY <1>6, <1>d DEF Commit, CommitPair
  <2>5. Whole(t)'  BY <1>a, <2>3 DEF Whole
  <2>6. QED  BY <1>e, <2>3, <2>4, <2>5 DEF Owns, AtRest, Torn
<1>7. CASE Breaks(t)
  <2>1. pc[t] # "failing" /\ t \in Busy
    BY <1>7 DEF Breaks, Busy, Over
  <2>2. buf \subseteq Facts(t) /\ Facts(t) \cap disk = {}
    BY <2>1, <1>3, SoFarIsFacts
  <2>3. buf' = buf /\ disk' = disk /\ pc'[t] = "failing"
    BY <1>7, <1>d DEF Breaks
  <2>4. QED  BY <1>a, <1>f, <2>2, <2>3 DEF Owns, AtRest, Torn, Whole
<1>8. CASE Rollback(t)
  <2>1. buf' = {} /\ ~open' /\ disk' = disk /\ pc'[t] = "raised"
    BY <1>8, <1>d DEF Rollback, RollbackAll
  <2>2. QED  BY <1>a, <1>c, <1>e, <2>1 DEF AtRest, Torn, Whole
<1>9. ~ExecuteFails(t) /\ ~CancelWrite(t)
  BY DEF ExecuteFails, CancelWrite
<1>10. QED
  BY <1>1, <1>2, <1>4, <1>5, <1>6, <1>7, <1>8, <1>9 DEF Step

(* While operations do not overlap, each has the transaction for itself.   *)
LEMMA AloneStep ==
  StoreTypeOK /\ Places /\ SweepIsLast /\ Alone /\ [StoreNext]_storeVars => Alone'
<1> SUFFICES ASSUME StoreTypeOK, Places, SweepIsLast, Alone, [StoreNext]_storeVars,
                    ~disturbed'
             PROVE  Alone'
  BY DEF Alone
<1>1. ASSUME NEW t \in Tasks, Step(t) PROVE Alone'
  <2>1. ~disturbed /\ Busy' \subseteq {t}  BY <1>1, UndisturbedStep
  <2>2. /\ t \in Busy' => Owns(t)'
        /\ t \notin Busy' => buf' = {} /\ ~open'
        /\ AtRest(t)'
        /\ disk' \subseteq disk \cup Facts(t)
    BY <1>1, OwnAlone
  <2>3. ASSUME NEW u \in Tasks, u # t PROVE AtRest(u)'
    <3>1. pc'[u] = pc[u] /\ Facts(u)' = Facts(u)
      BY <1>1, <2>3, StepMovesOne DEF StoreTypeOK, Facts
    <3>2. Facts(u) \cap disk' = Facts(u) \cap disk
      BY <1>1, <2>2, <2>3, StepWrites, FactsApart
    <3>3. QED  BY <2>1, <3>1, <3>2 DEF Alone, AtRest, Torn, Whole
  <2>4. up' # "recovered"  BY <1>1, StepMovesOne
  <2>5. QED  BY <2>1, <2>2, <2>3, <2>4 DEF Alone
<1>2. CASE Crash
  <2>1. Busy' = {}  BY <1>2 DEF Crash, Busy, Over, StoreTypeOK
  <2>2. buf' = {} /\ ~open' /\ disk' = disk /\ up' = "crashed"
    BY <1>2 DEF Crash, RollbackAll
  <2>3. ASSUME NEW u \in Tasks PROVE AtRest(u)'
    <3>1. AtRest(u)  BY <1>2 DEF Crash, Alone
    <3>2. pc'[u] \in {pc[u], "gone"} /\ Facts(u)' = Facts(u)
      BY <1>2 DEF Crash, Facts, StoreTypeOK
    <3>3. QED  BY <2>2, <3>1, <3>2 DEF AtRest, Torn, Whole
  <2>4. QED  BY <2>1, <2>2, <2>3 DEF Alone
<1>3. CASE Recover
  <2>1. Busy = {} /\ Busy' = Busy
    BY <1>3 DEF Recover, Busy, Places
  <2>2. buf' = {} /\ ~open'  BY <1>3, <2>1 DEF Recover, Alone
  <2>3. ASSUME NEW u \in Tasks
        PROVE  /\ AtRest(u)'
               /\ kind'[u] = "complete"
                    => (Whole(u)' <=> <<u, "interrupted">> \notin disk')
    <3>1. AtRest(u)  BY <1>3 DEF Recover, Alone
    <3>2. Facts(u)' = Facts(u) /\ pc' = pc /\ kind' = kind
      BY <1>3 DEF Recover, Facts
    <3>3. \A n \in Tasks : <<n, "interrupted">> \notin Facts(u)
      BY FactsByKind DEF Facts, Needs, StoreTypeOK
    <3>4. Facts(u) \cap disk' = Facts(u) \cap disk
      BY <1>3, <3>3 DEF Recover, Orphans
    <3>5. <<u, "interrupted">> \in disk' <=> u \in Orphans
      BY <1>3 DEF Recover, SweepIsLast, Orphans
    <3>6. kind[u] = "complete" => (Whole(u) <=> u \notin Orphans)
      BY <3>1, FactsByKind DEF AtRest, Torn, Whole, Orphans
    <3>7. QED
      BY <3>1, <3>2, <3>4, <3>5, <3>6 DEF AtRest, Torn, Whole
  <2>4. QED  BY <2>1, <2>2, <2>3 DEF Alone
<1>4. CASE UNCHANGED storeVars
  BY <1>4 DEF storeVars, Alone, Busy, Owns, AtRest, Torn, Whole, Facts, SoFar
<1>5. QED  BY <1>1, <1>2, <1>3, <1>4 DEF StoreNext

-----------------------------------------------------------------------------
(* The theorems.                                                           *)

(* The invariant holds in every reachable state.                           *)
THEOREM StoreInvariance == StoreSpec => []StoreInv
<1>1. StoreInv /\ [StoreNext]_storeVars => StoreInv'
  BY StoreTypeStep, PlacesStep, SweepStep, SurvivesStep, LingersStep, AloneStep
     DEF StoreInv
<1>2. QED  BY <1>1, InitInv, PTL DEF StoreSpec

(* The connection's state is well formed.                                  *)
THEOREM StoreTypeCorrect == StoreSpec => []StoreTypeOK
<1>1. StoreInv => StoreTypeOK  BY DEF StoreInv
<1>2. QED  BY <1>1, StoreInvariance, PTL

(* For any number of operations that do not overlap, on any schedule, with *)
(* a crash or a failed statement anywhere, what returned is durable, a     *)
(* result and its status are written together, and the sweep of the next   *)
(* start separates the completed calls from the interrupted ones.          *)
THEOREM AtomicAlone == StoreSpec => []AtomicWhileAlone
<1>1. StoreInv => AtomicWhileAlone
  BY DEF StoreInv, Alone, AtRest, AtomicWhileAlone
<1>2. QED  BY <1>1, StoreInvariance, PTL

(* However many operations overlap, only the rollback of a failed          *)
(* complete_tool_call can take a row back from an operation that returned. *)
THEOREM OnlyRollbackLoses == StoreSpec => []LossNeedsRollback
<1>1. StoreInv => LossNeedsRollback
  BY DEF StoreInv, Survives, LossNeedsRollback
<1>2. QED  BY <1>1, StoreInvariance, PTL

(* For any number of operations, an idle connection inside a transaction   *)
(* was left there by a simple write that broke off, and holds the rows of  *)
(* such writes only.                                                       *)
THEOREM OnlyWritesLinger == StoreSpec => []LeftByWrites
<1>1. StoreInv => LeftByWrites
  BY DEF StoreInv, Lingers, Unfinished, LeftByWrites
<1>2. QED  BY <1>1, StoreInvariance, PTL
=============================================================================
