------------------------- MODULE CommandPath_proofs --------------------------
(***************************************************************************)
(* Proofs about CommandPath, for any clouds, attempts and commands: the    *)
(* commands of a session reach its device unless an older plant shadows    *)
(* it, they never end the master, and the path implements CommandSpec.     *)
(***************************************************************************)
EXTENDS CommandPath, SequenceTheorems, TLAPS

-----------------------------------------------------------------------------
(* Requests and messages.                                                  *)

\* What the queue carries.
Carried(q) == {q[i] : i \in DOMAIN q}

LEMMA CarriedBy ==
  ASSUME NEW q \in Seq(Messages)
  PROVE  /\ Carried(q) \subseteq Messages
         /\ Carried(<<>>) = {}
         /\ \A m \in Messages : Append(q, m) \in Seq(Messages)
                                  /\ Carried(Append(q, m)) = Carried(q) \cup {m}
         /\ q # <<>> => /\ Head(q) \in Carried(q) /\ Tail(q) \in Seq(Messages)
                        /\ Carried(Tail(q)) \subseteq Carried(q)
<1>1. Carried(q) \subseteq Messages /\ Carried(<<>>) = {}
  BY DEF Carried
<1>2. ASSUME NEW m \in Messages
      PROVE  Append(q, m) \in Seq(Messages) /\ Carried(Append(q, m)) = Carried(q) \cup {m}
  BY AppendProperties DEF Carried
<1>3. ASSUME q # <<>>
      PROVE  /\ Head(q) \in Carried(q) /\ Tail(q) \in Seq(Messages)
             /\ Carried(Tail(q)) \subseteq Carried(q)
  BY <1>3, HeadTailProperties DEF Carried
<1>4. QED
  BY <1>1, <1>2, <1>3

\* s is q at another place of its way.
SameRequest(q, s) ==
  /\ s.cmd = q.cmd /\ s.gw = q.gw /\ s.ip = q.ip
  /\ s.at = "lookup" <=> q.at = "lookup"

LEMMA Removed ==
  ASSUME requests \subseteq Requests, RemoveQueue
  PROVE  /\ requests' \subseteq Requests /\ queue' = <<>> /\ issued' = issued
         /\ \A s \in requests' : \E q \in requests : SameRequest(q, s)
         /\ \A q \in requests : \E s \in requests' : SameRequest(q, s)
         /\ (\A q, s \in requests : q.cmd = s.cmd => q = s) =>
              \A q, s \in requests' : q.cmd = s.cmd => q = s
<1> DEFINE f(q) == [q EXCEPT !.at = IF @ = "send" THEN "lost" ELSE @]
<1>1. requests' = {f(q) : q \in requests}
  BY DEF RemoveQueue
<1>2. ASSUME NEW q \in requests PROVE f(q) \in Requests /\ SameRequest(q, f(q))
  BY DEF Requests, SameRequest
<1>3. \A q \in requests : f(q) \in Requests /\ SameRequest(q, f(q))
  BY <1>2
<1> HIDE DEF f
<1>4. ASSUME \A q, s \in requests : q.cmd = s.cmd => q = s,
             NEW q \in requests', NEW s \in requests', q.cmd = s.cmd
      PROVE  q = s
  <2>1. PICK q0 \in requests, s0 \in requests : q = f(q0) /\ s = f(s0)
    BY <1>1
  <2>2. q0.cmd = s0.cmd
    BY <1>3, <1>4, <2>1 DEF SameRequest
  <2>3. QED
    BY <1>4, <2>1, <2>2
<1>5. QED
  BY <1>1, <1>3, <1>4 DEF RemoveQueue

\* Every request has a command of its own.
Apart(reqs) == \A q, s \in reqs : q.cmd = s.cmd => q = s

LEMMA Moved ==
  ASSUME requests \subseteq Requests, Apart(requests), NEW q \in requests,
         NEW next \in Requests, next.cmd = q.cmd, Moves(q, next)
  PROVE  requests' \subseteq Requests /\ Apart(requests') /\ issued' = issued
         /\ {s.cmd : s \in requests'} = {s.cmd : s \in requests}
  BY DEF Moves, Apart

LEMMA Answered ==
  ASSUME requests \subseteq Requests, Apart(requests), NEW q \in requests, Answer(q)
  PROVE  requests' \subseteq Requests /\ Apart(requests') /\ issued' = issued
         /\ {s.cmd : s \in requests'} = {s.cmd : s \in requests} \ {q.cmd}
         /\ requests' \subseteq requests
  BY DEF Answer, Apart

-----------------------------------------------------------------------------
(* The invariant.                                                          *)

\* What is deleted belonged to a gateway whose deletion had begun; a ready session has
\* had both its plants; and one row at most has the control plant's number.
TableInv ==
  /\ \A i \in gone : plants[i].gw \in deleted
  /\ \A g \in ready : Complete(g)
  /\ \A i, j \in Rows : plants[i].addr = Control /\ plants[j].addr = Control => i = j

\* Commands are numbered.
NumberInv == Apart(requests) /\ \A q \in requests : q.cmd \in 1..issued

\* A command is a ready session's.  Past the lookup it has an IP address, and unless
\* the session's deletion has begun, the session's gateway is there and has this one.
Bound(g, ip) == g \notin deleted => g \in gateways /\ clouds[g].ip = ip

CarryInv ==
  /\ \A q \in requests :
       q.gw \in ready /\ (q.at # "lookup" => q.ip \in Ips /\ Bound(q.gw, q.ip))
  /\ \A m \in Carried(queue) : m.gw \in ready /\ Bound(m.gw, m.ip)

Loaded == {"loaded", "listening"}

\* A session restarts the master when it has its plants, so a master that has loaded
\* since has its control plant, if the gateway was made and is not being deleted.
Held(g) == \A i \in DOMAIN plants : plants[i] = Plant(g, Control) => i \in table

LoadInv == master \in Loaded => \A g \in (ready \cap gateways) \ deleted : Held(g)

Inv == TypeOK /\ TableInv /\ NumberInv /\ CarryInv /\ LoadInv

\* What the types of the tables say of a row, and of its cloud.
LEMMA RowTyped ==
  ASSUME TypeOK
  PROVE  /\ \A g \in Attempts : clouds[g] \in [ip : Ips, port : Ports]
         /\ \A i \in DOMAIN plants :
              plants[i].gw \in Attempts /\ CloudOf(i) \in [ip : Ips, port : Ports]
         /\ opened \in Nat /\ opened <= Len(clouds) /\ Len(clouds) \in Nat
<1>1. clouds \in Seq([ip : Ips, port : Ports]) /\ opened \in 0..Len(clouds)
  BY CloudAssumption DEF TypeOK
<1>2. /\ Len(clouds) \in Nat /\ opened \in Nat /\ opened <= Len(clouds)
      /\ \A g \in 1..Len(clouds) : clouds[g] \in [ip : Ips, port : Ports]
  <2>1. Len(clouds) \in Nat
    BY <1>1, LenProperties
  <2>2. opened \in Nat /\ opened <= Len(clouds)
    BY <1>1, <2>1
  <2>3. \A g \in 1..Len(clouds) : clouds[g] \in [ip : Ips, port : Ports]
    BY <1>1, ElementOfSeq
  <2>4. QED
    BY <2>1, <2>2, <2>3
<1>3. \A g \in Attempts : clouds[g] \in [ip : Ips, port : Ports]
  BY <1>2 DEF Attempts
<1>4. \A i \in DOMAIN plants : plants[i] \in [gw : Attempts, addr : Addresses]
  <2> DEFINE Row == [gw : Attempts, addr : Addresses]
  <2>1. plants \in Seq(Row)
    BY DEF TypeOK
  <2> HIDE DEF Row
  <2>2. DOMAIN plants = 1..Len(plants) /\ \A i \in 1..Len(plants) : plants[i] \in Row
    BY <2>1, LenProperties, ElementOfSeq
  <2>3. QED
    BY <2>2 DEF Row
<1>5. QED
  BY <1>2, <1>3, <1>4 DEF CloudOf

\* A ready session that is not being deleted has its control plant's row, the only one
\* with that number.
LEMMA OwnRow ==
  ASSUME TypeOK, TableInv, NEW g \in ready, g \notin deleted
  PROVE  \E i \in Rows : /\ plants[i] = Plant(g, Control)
                         /\ \A j \in Rows : plants[j].addr = Control => j = i
<1>1. PICK i \in DOMAIN plants : plants[i] = Plant(g, Control)
  BY DEF TableInv, Complete, Addresses
<1>2. plants[i].gw = g /\ plants[i].addr = Control
  BY <1>1 DEF Plant
<1>3. i \in Rows
  BY <1>2 DEF TableInv, Rows
<1>4. QED
  BY <1>1, <1>2, <1>3 DEF TableInv

\* A request that has been looked up goes on with the IP address of the row it found.
LEMMA LookedUp ==
  ASSUME Inv, NEW q \in requests, Lookup(q)
  PROVE  \E next \in Requests :
           /\ Moves(q, next) /\ next.cmd = q.cmd /\ next.gw = q.gw /\ next.at = "exec"
           /\ next.ip \in Ips /\ Bound(q.gw, next.ip)
<1>1. PICK i \in Linked :
        /\ plants[i].addr = Control
        /\ Moves(q, [cmd |-> q.cmd, at |-> "exec", gw |-> q.gw, ip |-> CloudOf(i).ip])
  BY DEF Lookup
<1> DEFINE next == [cmd |-> q.cmd, at |-> "exec", gw |-> q.gw, ip |-> CloudOf(i).ip]
<1>2. i \in Rows /\ i \in DOMAIN plants /\ plants[i].gw \in gateways
  BY <1>1 DEF Linked, Rows
<1>3. CloudOf(i).ip \in Ips
  BY <1>2, RowTyped DEF Inv
<1>4. next \in Requests
  BY <1>3 DEF Inv, TypeOK, Requests
<1>5. Bound(q.gw, CloudOf(i).ip)
  <2> SUFFICES ASSUME q.gw \notin deleted
               PROVE  q.gw \in gateways /\ clouds[q.gw].ip = CloudOf(i).ip
    BY DEF Bound
  <2>1. q.gw \in ready
    BY DEF Inv, CarryInv
  <2>2. plants[i] = Plant(q.gw, Control)
    BY <1>1, <1>2, <2>1, OwnRow DEF Inv
  <2>3. plants[i].gw = q.gw
    BY <2>2 DEF Plant
  <2>4. QED
    BY <1>2, <2>3 DEF CloudOf
<1>6. QED
  BY <1>1, <1>3, <1>4, <1>5

LEMMA GotQueue ==
  ASSUME TypeOK, NEW q \in requests, GetQueue(q)
  PROVE  LET next == [q EXCEPT !.at = "send"]
         IN  next \in Requests /\ SameRequest(q, next) /\ q.at = "exec" /\ Moves(q, next)
  BY DEF GetQueue, TypeOK, Requests, SameRequest

LEMMA InitInv == Init => Inv
<1> SUFFICES ASSUME Init PROVE Inv
  OBVIOUS
<1>1. TypeOK
  <2>1. clouds \in Seq([ip : Ips, port : Ports])
    BY CloudAssumption DEF Init
  <2>2. Len(clouds) \in Nat
    BY <2>1
  <2>3. <<>> \in Seq(Messages) /\ <<>> \in Seq(Nat)
        /\ <<>> \in Seq([gw : Attempts, addr : Addresses])
    OBVIOUS
  <2>4. QED
    BY <2>2, <2>3 DEF Init, TypeOK
<1>2. Carried(queue) = {} /\ Rows = {}
  BY DEF Init, Carried, Rows
<1>3. TableInv /\ LoadInv
  BY <1>2 DEF Init, TableInv, LoadInv
<1>4. NumberInv /\ CarryInv
  BY <1>2 DEF Init, NumberInv, CarryInv, Apart
<1>5. QED
  BY <1>1, <1>3, <1>4 DEF Inv

-----------------------------------------------------------------------------
(* Its steps.                                                              *)

\* Nothing is new on the way of the commands.
LEMMA Fewer ==
  ASSUME Inv, issued' = issued, Apart(requests'),
         UNCHANGED <<clouds, gateways, deleted>>, ready \subseteq ready',
         \A s \in requests' : \E q \in requests : SameRequest(q, s),
         Carried(queue') \subseteq Carried(queue)
  PROVE  NumberInv' /\ CarryInv'
<1>1. NumberInv'
  BY DEF Inv, NumberInv, SameRequest
<1>2. \A g, ip : Bound(g, ip)' <=> Bound(g, ip)
  BY DEF Bound
<1>3. CarryInv'
  <2>1. ASSUME NEW s \in requests'
        PROVE  s.gw \in ready' /\ (s.at # "lookup" => s.ip \in Ips /\ Bound(s.gw, s.ip)')
    BY <1>2 DEF Inv, CarryInv, SameRequest
  <2>2. ASSUME NEW m \in Carried(queue')
        PROVE  m.gw \in ready' /\ Bound(m.gw, m.ip)'
    BY <1>2 DEF Inv, CarryInv
  <2>3. QED
    BY <2>1, <2>2 DEF CarryInv
<1>4. QED
  BY <1>1, <1>3

\* The queue and the requests, when the queue is removed.
LEMMA Emptied ==
  ASSUME Inv, RemoveQueue
  PROVE  /\ requests' \subseteq Requests /\ Apart(requests') /\ issued' = issued
         /\ \A s \in requests' : \E q \in requests : SameRequest(q, s)
         /\ queue' \in Seq(Messages) /\ Carried(queue') \subseteq Carried(queue)
<1>1. requests \subseteq Requests /\ Apart(requests)
  BY DEF Inv, TypeOK, NumberInv
<1>2. queue' = <<>> /\ Carried(<<>>) = {}
  BY DEF RemoveQueue, Carried
<1>3. QED
  BY <1>1, <1>2, Removed DEF Apart

\* While the tables and the sessions stay, so do the facts about them.
LEMMA SameTables ==
  ASSUME Inv, UNCHANGED tables, UNCHANGED sessions
  PROVE  /\ TableInv' /\ UNCHANGED <<clouds, opened, gateways, plants, gone, deleted>>
         /\ UNCHANGED <<restarted, ready>>
         /\ master' \in Loaded /\ master \in Loaded /\ table' = table => LoadInv'
         /\ master' \notin Loaded => LoadInv'
<1>1. UNCHANGED <<clouds, opened, gateways, plants, gone, deleted, restarted, ready>>
  BY DEF tables, sessions
<1>2. TableInv'
  BY <1>1 DEF Inv, TableInv, Complete, Rows
<1>3. QED
  BY <1>1, <1>2 DEF Inv, LoadInv, Held

\* Steps that write to the tables leave requests, queue and master alone.
LEMMA TableSteps ==
  ASSUME Inv,
         \/ CreateGateway
         \/ \E g \in Attempts :
              (\E a \in Addresses : CreatePlant(g, a)) \/ BeginDelete(g) \/ RemoveGateway(g)
         \/ \E i \in Rows : DestroyPlant(i)
  PROVE  Inv'
<1> USE DEF sessions, rest, dnp3
<1>1. /\ requests' = requests /\ issued' = issued /\ queue' = queue /\ master' = master
      /\ table' = table /\ done' = done /\ upsets' = upsets /\ clouds' = clouds
      /\ restarted' = restarted /\ ready' = ready
  BY DEF CreateGateway, CreatePlant, BeginDelete, RemoveGateway, DestroyPlant
<1>2. Carried(queue)' = Carried(queue) /\ NumberInv'
  BY <1>1 DEF Carried, Inv, NumberInv
<1>3. /\ opened \in Nat /\ opened <= Len(clouds) /\ Len(clouds) \in Nat
      /\ plants \in Seq([gw : Attempts, addr : Addresses]) /\ ready \subseteq Attempts
      /\ gateways \subseteq Attempts /\ deleted \subseteq Attempts
  BY RowTyped DEF Inv, TypeOK
<1>4. ASSUME \A g \in ready : g \notin deleted' => g \notin deleted
                                /\ (g \in gateways => g \in gateways')
      PROVE  CarryInv'
  BY <1>1, <1>2, <1>4 DEF Inv, CarryInv, Bound
<1>5. CASE CreateGateway
  <2>1. /\ opened < Len(clouds) /\ opened' = opened + 1
        /\ gateways' \in {gateways, gateways \cup {opened + 1}}
        /\ plants' = plants /\ gone' = gone /\ deleted' = deleted
    BY <1>5 DEF CreateGateway
  <2>2. Attempts' = Attempts \cup {opened + 1} /\ opened + 1 \notin Attempts
    <3>1. 1..(opened + 1) = (1..opened) \cup {opened + 1} /\ opened + 1 \notin 1..opened
      BY <1>3
    <3>2. QED
      BY <2>1, <3>1 DEF Attempts
  <2>3. plants' \in Seq([gw : Attempts', addr : Addresses])
    <3> DEFINE Old == [gw : Attempts, addr : Addresses]
               New == [gw : Attempts', addr : Addresses]
    <3>1. Old \subseteq New /\ plants \in Seq(Old)
      BY <1>3, <2>2
    <3> HIDE DEF Old, New
    <3>2. /\ plants = [i \in 1..Len(plants) |-> plants[i]] /\ Len(plants) \in Nat
          /\ \A i \in 1..Len(plants) : plants[i] \in New
      BY <3>1, LenProperties, ElementOfSeq
    <3>3. plants \in Seq(New)
      BY <3>2
    <3>4. QED
      BY <2>1, <3>3 DEF New
  <2>4. TypeOK'
    BY <1>1, <1>3, <2>1, <2>2, <2>3 DEF Inv, TypeOK
  <2>5. TableInv'
    BY <1>1, <2>1 DEF Inv, TableInv, Complete, Rows
  <2>6. LoadInv'
    BY <1>1, <1>3, <2>1, <2>2 DEF Inv, LoadInv, Held
  <2>7. CarryInv'
    BY <1>4, <2>1
  <2>8. QED
    BY <1>2, <2>4, <2>5, <2>6, <2>7 DEF Inv
<1>6. ASSUME NEW g \in Attempts, NEW a \in Addresses, CreatePlant(g, a)
      PROVE  Inv'
  <2> DEFINE p == Plant(g, a)
             n == Len(plants) + 1
  <2>1. /\ plants' = Append(plants, p) /\ opened' = opened /\ gateways' = gateways
        /\ gone' = gone /\ deleted' = deleted
        /\ \A i \in DOMAIN plants : plants[i] # Plant(g, a) /\ plants[i] # Plant(g, Uncontrol)
        /\ a = Control => \A i \in Rows : plants[i].addr # Control
    BY <1>6 DEF CreatePlant
  <2>2. p \in [gw : Attempts, addr : Addresses] /\ p.gw = g /\ p.addr = a
    BY DEF Plant
  <2> HIDE DEF p
  <2>3. /\ plants' \in Seq([gw : Attempts, addr : Addresses])
        /\ DOMAIN plants = 1..(n - 1) /\ DOMAIN plants' = 1..n /\ n \in Nat \ {0}
        /\ plants'[n] = p /\ \A i \in DOMAIN plants : plants'[i] = plants[i]
    BY <1>3, <2>1, <2>2, AppendProperties, LenProperties
  <2> HIDE DEF n
  <2>4. DOMAIN plants' = DOMAIN plants \cup {n} /\ n \notin DOMAIN plants
    BY <2>3
  <2>5. /\ Attempts' = Attempts /\ gone \subseteq DOMAIN plants
        /\ Rows' = Rows \cup {n} /\ n \notin Rows
    BY <2>1, <2>4 DEF Attempts, Rows, Inv, TypeOK
  <2>6. TypeOK'
    BY <1>1, <1>3, <2>1, <2>3, <2>4, <2>5 DEF Inv, TypeOK
  <2>7. g \notin ready
    BY <2>1 DEF Inv, TableInv, Complete, Addresses
  <2>8. TableInv'
    <3>1. \A i \in gone' : plants'[i].gw \in deleted'
      BY <2>1, <2>3, <2>5 DEF Inv, TableInv
    <3>2. \A h \in ready' : Complete(h)'
      BY <1>1, <2>3, <2>4 DEF Inv, TableInv, Complete
    <3>3. \A i \in Rows : plants'[i] = plants[i]
      BY <2>3 DEF Rows
    <3>4. \A i, j \in Rows' : plants'[i].addr = Control /\ plants'[j].addr = Control => i = j
      BY <2>1, <2>2, <2>3, <2>5, <3>3 DEF Inv, TableInv
    <3>5. QED
      BY <3>1, <3>2, <3>4 DEF TableInv
  <2>9. LoadInv'
    <3>1. ASSUME NEW h \in ready, Held(h) PROVE Held(h)'
      <4>1. plants'[n] # Plant(h, Control)
        BY <2>2, <2>3, <2>7 DEF Plant
      <4>2. QED
        BY <1>1, <2>3, <2>4, <3>1, <4>1 DEF Held, Plant
    <3>2. QED
      BY <1>1, <2>1, <3>1 DEF Inv, LoadInv
  <2>10. CarryInv'
    BY <1>4, <2>1
  <2>11. QED
    BY <1>2, <2>6, <2>8, <2>9, <2>10 DEF Inv
<1>7. ASSUME NEW g \in Attempts, BeginDelete(g) \/ RemoveGateway(g)
      PROVE  Inv'
  <2>1. /\ opened' = opened /\ plants' = plants /\ gone' = gone
        /\ deleted \subseteq deleted' /\ deleted' \subseteq deleted \cup {g}
        /\ gateways' \subseteq gateways /\ \A h \in gateways \ gateways' : h \in deleted
    BY <1>7 DEF BeginDelete, RemoveGateway
  <2>2. Attempts' = Attempts
    BY <2>1 DEF Attempts
  <2>3. TypeOK'
    BY <1>1, <2>1, <2>2 DEF Inv, TypeOK
  <2>4. TableInv'
    BY <1>1, <2>1 DEF Inv, TableInv, Complete, Rows
  <2>5. LoadInv'
    BY <1>1, <2>1 DEF Inv, LoadInv, Held
  <2>6. CarryInv'
    BY <1>4, <2>1
  <2>7. QED
    BY <1>2, <2>3, <2>4, <2>5, <2>6 DEF Inv
<1>8. ASSUME NEW i \in Rows, DestroyPlant(i)
      PROVE  Inv'
  <2>1. /\ opened' = opened /\ plants' = plants /\ gone' = gone \cup {i}
        /\ deleted' = deleted /\ gateways' = gateways /\ plants[i].gw \in deleted
        /\ i \in DOMAIN plants
    BY <1>8 DEF DestroyPlant, Rows
  <2>2. Attempts' = Attempts /\ Rows' \subseteq Rows
    BY <2>1 DEF Attempts, Rows
  <2>3. TypeOK'
    BY <1>1, <2>1, <2>2 DEF Inv, TypeOK
  <2>4. TableInv'
    BY <1>1, <2>1, <2>2 DEF Inv, TableInv, Complete
  <2>5. LoadInv'
    BY <1>1, <2>1 DEF Inv, LoadInv, Held
  <2>6. CarryInv'
    BY <1>4, <2>1
  <2>7. QED
    BY <1>2, <2>3, <2>4, <2>5, <2>6 DEF Inv
<1>9. QED
  BY <1>5, <1>6, <1>7, <1>8

\* A step of the REST server leaves the tables and the master as they are.
LEMMA RequestSteps ==
  ASSUME Inv, (\E g \in ready : Issue(g)) \/ Serve
  PROVE  Inv'
<1> USE DEF rest, dnp3
<1>1. /\ UNCHANGED <<tables, sessions>> /\ master' = master /\ table' = table
      /\ done' = done /\ upsets' = upsets
  BY DEF Issue, Serve, LookupNothing, Unmapped, Lookup, ExecFails, GetQueue, Send
<1>2. UNCHANGED tables /\ UNCHANGED sessions
  BY <1>1
<1>3. /\ TableInv' /\ LoadInv' /\ clouds' = clouds /\ opened' = opened
      /\ gateways' = gateways /\ plants' = plants /\ gone' = gone /\ deleted' = deleted
      /\ restarted' = restarted /\ ready' = ready /\ Attempts' = Attempts
  BY <1>1, <1>2, SameTables DEF Attempts
<1>4. /\ requests \subseteq Requests /\ queue \in Seq(Messages) /\ Apart(requests)
      /\ issued \in Nat
  BY DEF Inv, TypeOK, NumberInv
<1>5. ASSUME requests' \subseteq Requests, issued' \in Nat, queue' \in Seq(Messages)
      PROVE  TypeOK'
  BY <1>1, <1>3, <1>5 DEF Inv, TypeOK
<1>6. \A g, ip : Bound(g, ip)' <=> Bound(g, ip)
  BY <1>3 DEF Bound
<1>7. ASSUME NEW g \in ready, Issue(g)
      PROVE  Inv'
  <2> DEFINE new == [cmd |-> issued + 1, at |-> "lookup", gw |-> g, ip |-> ""]
  <2>1. issued' = issued + 1 /\ requests' = requests \cup {new} /\ queue' = queue
    BY <1>7 DEF Issue
  <2>2. g \in Nat
    <3>1. g \in Attempts /\ opened \in Nat
      BY RowTyped DEF Inv, TypeOK
    <3>2. QED
      BY <3>1 DEF Attempts
  <2>3. new.cmd = issued + 1 /\ new.at = "lookup" /\ new.gw = g /\ new \in Requests
    <3>1. issued + 1 \in Nat
      BY <1>4
    <3>2. QED
      BY <2>2, <3>1 DEF Requests
  <2> HIDE DEF new
  <2>4. TypeOK'
    BY <1>4, <1>5, <2>1, <2>3
  <2>5. NumberInv'
    <3>1. \A q \in requests : q.cmd \in 1..issued
      BY DEF Inv, NumberInv
    <3>2. Apart(requests')
      BY <1>4, <2>1, <2>3, <3>1 DEF Apart
    <3>3. QED
      BY <1>4, <2>1, <2>3, <3>1, <3>2 DEF NumberInv
  <2>6. CarryInv'
    <3>1. Carried(queue)' = Carried(queue)
      BY <2>1 DEF Carried
    <3>2. QED
      BY <1>3, <1>6, <2>1, <2>3, <3>1 DEF Inv, CarryInv
  <2>7. QED
    BY <1>3, <2>4, <2>5, <2>6 DEF Inv
<1>8. ASSUME NEW q \in requests, Answer(q), queue' = queue
      PROVE  Inv'
  <2>1. /\ requests' \subseteq requests /\ requests' \subseteq Requests
        /\ Apart(requests') /\ issued' = issued
    BY <1>4, <1>8, Answered
  <2>2. Carried(queue') \subseteq Carried(queue)
    BY <1>8 DEF Carried
  <2>3. \A s \in requests' : \E r \in requests : SameRequest(r, s)
    BY <2>1 DEF SameRequest
  <2>4. NumberInv' /\ CarryInv'
    BY Fewer, <1>3, <2>1, <2>2, <2>3
  <2>5. TypeOK'
    BY <1>4, <1>5, <1>8, <2>1
  <2>6. QED
    BY <1>3, <2>4, <2>5 DEF Inv
<1>9. ASSUME NEW q \in requests, NEW next \in Requests, Moves(q, next), queue' = queue,
             next.cmd = q.cmd, next.gw = q.gw, next.ip \in Ips, Bound(q.gw, next.ip)
      PROVE  Inv'
  <2>1. /\ requests' = (requests \ {q}) \cup {next}
        /\ requests' \subseteq Requests /\ Apart(requests') /\ issued' = issued
    BY <1>4, <1>9, Moved DEF Moves
  <2>2. Carried(queue)' = Carried(queue)
    BY <1>9 DEF Carried
  <2>3. TypeOK'
    BY <1>4, <1>5, <1>9, <2>1
  <2>4. NumberInv'
    BY <1>9, <2>1 DEF Inv, NumberInv
  <2>5. CarryInv'
    BY <1>3, <1>6, <1>9, <2>1, <2>2 DEF Inv, CarryInv
  <2>6. QED
    BY <1>3, <2>3, <2>4, <2>5 DEF Inv
<1>10. ASSUME NEW q \in requests, Send(q), q.at = "send"
       PROVE  Inv'
  <2> DEFINE m == Message(q)
  <2>1. q.gw \in ready /\ q.ip \in Ips /\ Bound(q.gw, q.ip)
    BY <1>10 DEF Inv, CarryInv
  <2>2. m \in Messages /\ m.gw = q.gw /\ m.ip = q.ip
    BY <1>4, <2>1 DEF Requests, Messages, Message
  <2>3. queue' = Append(queue, m) /\ Answer(q)
    BY <1>10 DEF Send
  <2> HIDE DEF m
  <2>4. queue' \in Seq(Messages) /\ Carried(queue') = Carried(queue) \cup {m}
    BY <1>4, <2>2, <2>3, CarriedBy
  <2>5. /\ requests' \subseteq requests /\ requests' \subseteq Requests
        /\ Apart(requests') /\ issued' = issued
    BY <1>4, <2>3, Answered
  <2>6. TypeOK'
    BY <1>4, <1>5, <2>4, <2>5
  <2>7. NumberInv'
    BY <2>5 DEF Inv, NumberInv
  <2>8. CarryInv'
    BY <1>3, <1>6, <2>1, <2>2, <2>4, <2>5 DEF Inv, CarryInv
  <2>9. QED
    BY <1>3, <2>6, <2>7, <2>8 DEF Inv
<1>11. QED
  <2>1. ASSUME NEW q \in requests,
               LookupNothing(q) \/ Unmapped(q) \/ ExecFails(q) \/ (Send(q) /\ q.at # "send")
        PROVE  Inv'
    BY <1>8, <2>1 DEF LookupNothing, Unmapped, ExecFails, Send
  <2>2. ASSUME NEW q \in requests, Lookup(q)
        PROVE  Inv'
    BY <1>9, <2>2, LookedUp DEF Lookup
  <2>3. ASSUME NEW q \in requests, GetQueue(q)
        PROVE  Inv'
    <3> DEFINE next == [q EXCEPT !.at = "send"]
    <3>1. next \in Requests /\ SameRequest(q, next) /\ q.at = "exec" /\ Moves(q, next)
      BY <2>3, GotQueue DEF Inv
    <3> HIDE DEF next
    <3>2. next.cmd = q.cmd /\ next.gw = q.gw /\ next.ip = q.ip
      BY <3>1 DEF SameRequest
    <3>3. next.ip \in Ips /\ Bound(q.gw, next.ip)
      BY <3>1, <3>2 DEF Inv, CarryInv
    <3>4. queue' = queue
      BY <2>3 DEF GetQueue
    <3>5. QED
      BY <1>9, <3>1, <3>2, <3>3, <3>4
  <2>4. QED
    BY <1>7, <1>10, <2>1, <2>2, <2>3 DEF Serve

\* The processes of the container end, and a session may become ready with them.
LEMMA EndSteps ==
  ASSUME Inv, UNCHANGED tables, RemoveQueue, table' = {}, master' \in {"stopped", "starting"},
         done' = done, upsets' \in Nat,
         UNCHANGED sessions \/ \E g \in Attempts : Concludes(g)
  PROVE  Inv'
<1>2. /\ clouds' = clouds /\ opened' = opened /\ gateways' = gateways /\ plants' = plants
      /\ gone' = gone /\ deleted' = deleted /\ Attempts' = Attempts /\ Rows' = Rows
  BY DEF tables, Attempts, Rows
<1>3. /\ requests' \subseteq Requests /\ Apart(requests') /\ issued' = issued
      /\ \A s \in requests' : \E q \in requests : SameRequest(q, s)
      /\ queue' \in Seq(Messages) /\ Carried(queue') \subseteq Carried(queue)
  BY Emptied
<1>4. /\ restarted' \subseteq Attempts /\ ready' \subseteq restarted'
      /\ ready \subseteq ready' /\ \A g \in ready' \ ready : Complete(g)
  BY DEF sessions, Concludes, Inv, TypeOK
<1>5. TypeOK'
  BY <1>2, <1>3, <1>4 DEF Inv, TypeOK
<1>6. TableInv'
  <2>1. \A g \in ready' : Complete(g)'
    BY <1>2, <1>4 DEF Inv, TableInv, Complete
  <2>2. QED
    BY <1>2, <2>1 DEF Inv, TableInv
<1>7. NumberInv' /\ CarryInv'
  BY Fewer, <1>2, <1>3, <1>4
<1>8. LoadInv'
  BY DEF LoadInv, Loaded
<1>9. QED
  BY <1>5, <1>6, <1>7, <1>8 DEF Inv

\* The master starts, loads, listens or takes a message.
LEMMA MasterSteps ==
  ASSUME Inv, Start \/ Loads \/ Clear \/ Perform \/ Drop
  PROVE  Inv'
<1> USE DEF rest
<1>1. UNCHANGED tables /\ UNCHANGED sessions /\ upsets' = upsets
      /\ master' \in {"starting", "loaded", "listening"}
  BY DEF Start, Loads, Clear, Perform, Drop, Receives
<1>2. /\ TableInv' /\ clouds' = clouds /\ opened' = opened
      /\ gateways' = gateways /\ plants' = plants /\ gone' = gone /\ deleted' = deleted
      /\ restarted' = restarted /\ ready' = ready /\ Attempts' = Attempts
  BY <1>1, SameTables DEF Attempts
<1>3. requests \subseteq Requests /\ queue \in Seq(Messages) /\ Apart(requests)
  BY DEF Inv, TypeOK, NumberInv
<1>4. /\ requests' \subseteq Requests /\ Apart(requests') /\ issued' = issued
      /\ \A s \in requests' : \E q \in requests : SameRequest(q, s)
      /\ queue' \in Seq(Messages) /\ Carried(queue') \subseteq Carried(queue)
  <2>1. CASE Clear
    BY <2>1, Emptied DEF Clear
  <2>2. CASE Start \/ Loads \/ Perform \/ Drop
    <3>1. requests' = requests /\ issued' = issued
      BY <2>2 DEF Start, Loads, Perform, Drop
    <3>2. queue' = queue \/ (queue # <<>> /\ queue' = Tail(queue))
      <4>1. CASE Start \/ Loads
        BY <4>1 DEF Start, Loads
      <4>2. CASE Perform \/ Drop
        BY <4>2 DEF Perform, Drop, Receives
      <4>3. QED
        BY <2>2, <4>1, <4>2
    <3>3. QED
      BY <1>3, <3>1, <3>2, CarriedBy DEF SameRequest
  <2>3. QED
    BY <2>1, <2>2
<1>5. table' \subseteq DOMAIN plants
  BY DEF Start, Loads, Clear, Perform, Drop, Inv, TypeOK, Linked, Rows
<1>6. done' \in Seq(Nat)
  <2>1. CASE Perform
    <3>1. queue # <<>> /\ done' = Append(done, Head(queue).cmd)
      BY <2>1 DEF Perform, Receives
    <3>2. Head(queue) \in Messages
      BY <1>3, <3>1, CarriedBy
    <3>3. Head(queue).cmd \in Nat /\ done \in Seq(Nat)
      BY <3>2 DEF Messages, Inv, TypeOK
    <3>4. QED
      BY <3>1, <3>3, AppendProperties
  <2>2. CASE Start \/ Loads \/ Clear \/ Drop
    BY <2>2 DEF Start, Loads, Clear, Drop, Inv, TypeOK
  <2>3. QED
    BY <2>1, <2>2
<1>7. TypeOK'
  BY <1>1, <1>2, <1>4, <1>5, <1>6 DEF Inv, TypeOK
<1>8. NumberInv' /\ CarryInv'
  BY Fewer, <1>2, <1>4
<1>9. LoadInv'
  <2>1. CASE Loads
    <3>1. table' = Linked
      BY <2>1 DEF Loads
    <3>2. ASSUME NEW g \in (ready \cap gateways) \ deleted, NEW i \in DOMAIN plants,
                 plants[i] = Plant(g, Control)
          PROVE  i \in Linked
      <4>1. plants[i].gw = g
        BY <3>2 DEF Plant
      <4>2. i \in Rows
        BY <3>2, <4>1 DEF Inv, TableInv, Rows
      <4>3. QED
        BY <3>2, <4>1, <4>2 DEF Linked
    <3>3. QED
      BY <1>2, <3>1, <3>2 DEF LoadInv, Held
  <2>2. CASE Start
    BY <2>2 DEF Start, LoadInv, Loaded
  <2>3. CASE Clear \/ Perform \/ Drop
    <3>1. master \in Loaded /\ table' = table /\ master' \in Loaded
      BY <2>3 DEF Clear, Perform, Drop, Receives, Loaded
    <3>2. QED
      BY <1>1, <3>1, SameTables
  <2>4. QED
    BY <2>1, <2>2, <2>3
<1>10. QED
  BY <1>2, <1>7, <1>8, <1>9 DEF Inv

LEMMA StepInv == Inv /\ [Next]_vars => Inv'
<1> SUFFICES ASSUME Inv, [Next]_vars PROVE Inv'
  OBVIOUS
<1>1. CASE UNCHANGED vars
  <2>1. UNCHANGED <<clouds, opened, gateways, plants, gone, deleted, restarted, ready,
                    requests, issued, master, table, queue, done, upsets>>
    BY <1>1 DEF vars, tables, sessions, rest, dnp3
  <2>2. TypeOK' /\ TableInv' /\ NumberInv'
    BY <2>1 DEF Inv, TypeOK, TableInv, NumberInv, Attempts, Complete, Rows
  <2>3. CarryInv' /\ LoadInv'
    BY <2>1 DEF Inv, CarryInv, LoadInv, Bound, Held, Carried
  <2>4. QED
    BY <2>2, <2>3 DEF Inv
<1>2. CASE Stop \/ Die \/ Crash \/ (Load /\ ~Loads)
  <2>1. upsets \in Nat
    BY DEF Inv, TypeOK
  <2>2. /\ UNCHANGED tables /\ UNCHANGED sessions /\ RemoveQueue /\ table' = {} /\ done' = done
        /\ master' \in {"stopped", "starting"} /\ upsets' \in Nat
    BY <1>2, <2>1 DEF Stop, Die, Crash, Load, Ends
  <2>3. QED
    BY <2>2, EndSteps
<1>3. ASSUME NEW g \in Attempts, RestartMaster(g)
      PROVE  Inv'
  <2>1. /\ UNCHANGED tables /\ Concludes(g) /\ RemoveQueue /\ table' = {} /\ done' = done
        /\ master' = "starting" /\ upsets' = upsets /\ upsets \in Nat
    BY <1>3 DEF RestartMaster, Ends, Inv, TypeOK
  <2>2. QED
    BY <2>1, EndSteps
<1>4. CASE Provision
  BY <1>3, <1>4, TableSteps DEF Provision
<1>5. QED
  BY <1>1, <1>2, <1>4, RequestSteps, MasterSteps DEF Next, Main, Load

LEMMA InvHolds == Spec => []Inv
  BY InitInv, StepInv, PTL DEF Spec

\* The table of a master that receives a message of a session whose deletion has not
\* begun has the session's control plant, at the message's address.
LEMMA OwnPlant ==
  ASSUME Inv, Receives, Head(queue).gw \notin deleted
  PROVE  \E i \in At(Head(queue).ip) :
           plants[i] = Plant(Head(queue).gw, Control) /\ CloudOf(i) = clouds[Head(queue).gw]
<1> DEFINE m == Head(queue)
<1>1. m \in Carried(queue)
  BY CarriedBy DEF Receives, Inv, TypeOK
<1>2. m.gw \in ready /\ m.gw \in gateways /\ clouds[m.gw].ip = m.ip /\ m.gw \notin deleted
  BY <1>1 DEF Inv, CarryInv, Bound
<1> HIDE DEF m
<1>3. PICK i \in Rows : plants[i] = Plant(m.gw, Control)
  BY <1>2, OwnRow DEF Inv
<1>4. i \in table
  BY <1>2, <1>3 DEF Inv, LoadInv, Loaded, Receives, Held, Rows
<1>5. CloudOf(i) = clouds[m.gw]
  BY <1>3 DEF CloudOf, Plant
<1>6. QED
  BY <1>2, <1>3, <1>4, <1>5 DEF At, m

-----------------------------------------------------------------------------
(* The refinement.                                                         *)

LEMMA BorneOf ==
  ASSUME NEW S, NEW q \in Seq(S), \A e \in S : e.cmd \in Nat
  PROVE  /\ Borne(q) \in Seq(Nat) /\ Len(Borne(q)) = Len(q)
         /\ \A i \in 1..Len(q) : Borne(q)[i] = q[i].cmd
<1>1. Len(q) \in Nat /\ DOMAIN q = 1..Len(q) /\ \A i \in 1..Len(q) : q[i] \in S
  BY LenProperties
<1>2. Borne(q) = [i \in 1..Len(q) |-> q[i].cmd]
  BY <1>1 DEF Borne
<1>3. \A i \in 1..Len(q) : q[i].cmd \in Nat
  BY <1>1
<1>4. QED
  BY <1>1, <1>2, <1>3

LEMMA BorneEmpty == Borne(<<>>) = <<>>
<1>1. <<>> \in Seq(Messages) /\ \A e \in Messages : e.cmd \in Nat
  BY DEF Messages
<1>2. Borne(<<>>) \in Seq(Nat) /\ Len(Borne(<<>>)) = 0
  BY <1>1, BorneOf, EmptySeq
<1>3. QED
  BY <1>2, EmptySeq

LEMMA BorneAppend ==
  ASSUME NEW S, NEW q \in Seq(S), NEW m \in S, \A e \in S : e.cmd \in Nat
  PROVE  Borne(Append(q, m)) = Append(Borne(q), m.cmd)
<1> DEFINE a == Append(q, m)
           b == Append(Borne(q), m.cmd)
<1>1. a \in Seq(S) /\ Len(a) = Len(q) + 1 /\ Len(q) \in Nat /\ a[Len(q) + 1] = m
      /\ \A i \in 1..Len(q) : a[i] = q[i]
  BY AppendProperties, LenProperties
<1>2. Borne(q) \in Seq(Nat) /\ Len(Borne(q)) = Len(q)
      /\ \A i \in 1..Len(q) : Borne(q)[i] = q[i].cmd
  BY BorneOf
<1>3. b \in Seq(Nat) /\ Len(b) = Len(q) + 1 /\ b[Len(q) + 1] = m.cmd
      /\ \A i \in 1..Len(q) : b[i] = q[i].cmd
  BY <1>2, AppendProperties
<1> HIDE DEF a, b
<1>4. Borne(a) \in Seq(Nat) /\ Len(Borne(a)) = Len(q) + 1
      /\ \A i \in 1..(Len(q) + 1) : Borne(a)[i] = a[i].cmd
  BY <1>1, BorneOf
<1>5. ASSUME NEW i \in 1..(Len(q) + 1)
      PROVE  Borne(a)[i] = b[i]
  <2>1. Borne(a)[i] = a[i].cmd
    BY <1>4
  <2>2. CASE i = Len(q) + 1
    BY <1>1, <1>3, <2>1, <2>2
  <2>3. CASE i # Len(q) + 1
    <3>1. i \in 1..Len(q)
      BY <1>1, <2>3
    <3>2. QED
      BY <1>1, <1>3, <2>1, <3>1
  <2>4. QED
    BY <2>2, <2>3
<1>6. Borne(a) = b
  BY <1>3, <1>4, <1>5, SeqEqual
<1>7. QED
  BY <1>6 DEF a, b

LEMMA BorneTail ==
  ASSUME NEW S, NEW q \in Seq(S), q # <<>>, \A e \in S : e.cmd \in Nat
  PROVE  /\ Borne(q) # <<>> /\ Head(Borne(q)) = Head(q).cmd
         /\ Borne(Tail(q)) = Tail(Borne(q))
<1>1. /\ Len(q) \in Nat \ {0} /\ Tail(q) \in Seq(S) /\ Len(Tail(q)) = Len(q) - 1
      /\ \A i \in 1..(Len(q) - 1) : Tail(q)[i] = q[i + 1]
  BY HeadTailProperties, EmptySeq
<1>2. Borne(q) \in Seq(Nat) /\ Len(Borne(q)) = Len(q)
      /\ \A i \in 1..Len(q) : Borne(q)[i] = q[i].cmd
  BY BorneOf
<1>3. Borne(q) # <<>>
  BY <1>1, <1>2, EmptySeq
<1>4. Head(Borne(q)) = Head(q).cmd
  <2>1. Head(q) = q[1] /\ Head(Borne(q)) = Borne(q)[1] /\ 1 \in 1..Len(q)
    BY <1>1
  <2>2. QED
    BY <1>2, <2>1
<1>5. /\ Tail(Borne(q)) \in Seq(Nat) /\ Len(Tail(Borne(q))) = Len(q) - 1
      /\ \A i \in 1..(Len(q) - 1) : Tail(Borne(q))[i] = Borne(q)[i + 1]
  BY <1>2, <1>3, HeadTailProperties
<1>6. /\ Borne(Tail(q)) \in Seq(Nat) /\ Len(Borne(Tail(q))) = Len(q) - 1
      /\ \A i \in 1..(Len(q) - 1) : Borne(Tail(q))[i] = Tail(q)[i].cmd
  BY <1>1, BorneOf
<1>7. ASSUME NEW i \in 1..(Len(q) - 1)
      PROVE  Borne(Tail(q))[i] = Tail(Borne(q))[i]
  <2>1. Borne(Tail(q))[i] = q[i + 1].cmd
    BY <1>1, <1>6
  <2>2. Tail(Borne(q))[i] = Borne(q)[i + 1] /\ i + 1 \in 1..Len(q)
    BY <1>1, <1>5
  <2>3. Borne(q)[i + 1] = q[i + 1].cmd
    BY <1>2, <2>2
  <2>4. QED
    BY <2>1, <2>2, <2>3
<1>8. Borne(Tail(q)) = Tail(Borne(q))
  BY <1>5, <1>6, <1>7, SeqEqual
<1>9. QED
  BY <1>3, <1>4, <1>8

\* What CommandSpec calls settled.
Settled == (1..issued) \ Outstanding

\* A request that is answered settles its command.
LEMMA Settles ==
  ASSUME Inv, NEW q \in requests, Answer(q)
  PROVE  q.cmd \notin Settled /\ Settled' = Settled \cup {q.cmd}
<1>1. /\ requests \subseteq Requests /\ Apart(requests) /\ q.cmd \in 1..issued
      /\ q.cmd \in Outstanding
  BY DEF Inv, TypeOK, NumberInv, Outstanding
<1>2. issued' = issued /\ Outstanding' = Outstanding \ {q.cmd}
  BY <1>1 DEF Answer, Outstanding, Apart
<1>3. QED
  BY <1>1, <1>2 DEF Settled

LEMMA NothingSettles ==
  ASSUME Inv, \/ UNCHANGED rest \/ RemoveQueue \/ \E g \in ready : Issue(g)
              \/ \E q \in requests : Lookup(q) \/ GetQueue(q)
  PROVE  Settled' = Settled
<1>1. requests \subseteq Requests /\ Apart(requests) /\ issued \in Nat
      /\ \A q \in requests : q.cmd \in 1..issued
  BY DEF Inv, TypeOK, NumberInv
<1>2. ASSUME issued' = issued, Outstanding' = Outstanding
      PROVE  Settled' = Settled
  BY <1>2 DEF Settled
<1>3. ASSUME NEW g \in ready, Issue(g)
      PROVE  Settled' = Settled
  <2> DEFINE new == [cmd |-> issued + 1, at |-> "lookup", gw |-> g, ip |-> ""]
  <2>1. issued' = issued + 1 /\ requests' = requests \cup {new} /\ new.cmd = issued + 1
    BY <1>3 DEF Issue
  <2> HIDE DEF new
  <2>2. Outstanding' = Outstanding \cup {issued + 1}
    BY <2>1 DEF Outstanding
  <2>3. QED
    BY <1>1, <2>1, <2>2 DEF Settled
<1>4. ASSUME NEW q \in requests, NEW next, Moves(q, next), next.cmd = q.cmd
      PROVE  Settled' = Settled
  BY <1>2, <1>4 DEF Moves, Outstanding
<1>5. ASSUME NEW q \in requests, Lookup(q) \/ GetQueue(q)
      PROVE  Settled' = Settled
  BY <1>4, <1>5, LookedUp, GotQueue DEF Inv, SameRequest
<1>6. ASSUME RemoveQueue
      PROVE  Settled' = Settled
  <2> DEFINE f(q) == [q EXCEPT !.at = IF @ = "send" THEN "lost" ELSE @]
  <2>1. requests' = {f(q) : q \in requests} /\ issued' = issued
    BY <1>6 DEF RemoveQueue
  <2>2. \A q \in requests : f(q).cmd = q.cmd
    BY <1>1 DEF Requests
  <2> HIDE DEF f
  <2>3. Outstanding' = Outstanding
    BY <2>1, <2>2 DEF Outstanding
  <2>4. QED
    BY <1>2, <2>1, <2>3
<1>7. ASSUME UNCHANGED rest
      PROVE  Settled' = Settled
  BY <1>2, <1>7 DEF Outstanding, rest
<1>8. QED
  BY <1>3, <1>5, <1>6, <1>7

LEMMA Simulates == Inv /\ [Next]_vars => [Commands!Next]_(Commands!vars)
<1> SUFFICES ASSUME Inv, [Next]_vars PROVE [Commands!Next]_(Commands!vars)
  OBVIOUS
<1> USE DEF rest, dnp3
<1>1. queue \in Seq(Messages) /\ done \in Seq(Nat) /\ \A m \in Messages : m.cmd \in Nat
  BY DEF Inv, TypeOK, Messages
<1>2. ASSUME Settled' = Settled, queue' = queue, done' = done
      PROVE  UNCHANGED Commands!vars
  <2>1. Borne(queue)' = Borne(queue)
    BY <1>2 DEF Borne
  <2>2. QED
    BY <1>2, <2>1 DEF Commands!vars, Settled
<1>3. ASSUME NEW q \in requests, Answer(q), queue' = queue, done' = done
      PROVE  Commands!Next
  <2>1. q.cmd \notin Settled /\ Settled' = Settled \cup {q.cmd}
    BY <1>3, Settles
  <2>2. Borne(queue)' = Borne(queue)
    BY <1>3 DEF Borne
  <2>3. Commands!Refuse(q.cmd) /\ q.cmd \in Settled'
    BY <1>3, <2>1, <2>2 DEF Commands!Refuse, Commands!Settle, Settled
  <2>4. QED
    BY <2>3 DEF Commands!Next, Settled
<1>4. ASSUME NEW q \in requests, Send(q), q.at = "send"
      PROVE  Commands!Next
  <2>1. q.cmd \notin Settled /\ Settled' = Settled \cup {q.cmd}
    BY <1>4, Settles DEF Send
  <2>2. /\ Message(q) \in Messages /\ Message(q).cmd = q.cmd
        /\ queue' = Append(queue, Message(q)) /\ done' = done
    BY <1>4 DEF Send, Inv, TypeOK, CarryInv, Requests, Messages, Message
  <2>3. Borne(queue') = Append(Borne(queue), q.cmd)
    BY <1>1, <2>2, BorneAppend
  <2>4. Commands!Accept(q.cmd) /\ q.cmd \in Settled'
    BY <2>1, <2>2, <2>3 DEF Commands!Accept, Commands!Settle, Settled
  <2>5. QED
    BY <2>4 DEF Commands!Next, Settled
<1>5. ASSUME RemoveQueue, done' = done
      PROVE  [Commands!Next]_(Commands!vars)
  <2>1. Settled' = Settled /\ queue' = <<>>
    BY <1>5, NothingSettles DEF RemoveQueue
  <2>2. Borne(queue') = <<>>
    BY <2>1, BorneEmpty
  <2>3. CASE Borne(queue) = <<>>
    BY <1>5, <2>1, <2>2, <2>3 DEF Commands!vars, Settled
  <2>4. CASE Borne(queue) # <<>>
    <3>1. Commands!Discard
      BY <1>5, <2>1, <2>2, <2>4 DEF Commands!Discard, Settled
    <3>2. QED
      BY <3>1 DEF Commands!Next
  <2>5. QED
    BY <2>3, <2>4
<1>6. ASSUME queue # <<>>, queue' = Tail(queue), UNCHANGED rest
      PROVE  /\ Settled' = Settled /\ Borne(queue) # <<>>
             /\ Head(Borne(queue)) = Head(queue).cmd
             /\ Borne(queue') = Tail(Borne(queue))
  BY <1>1, <1>6, BorneTail, NothingSettles
<1>7. CASE Perform
  <2>1. /\ queue # <<>> /\ queue' = Tail(queue) /\ UNCHANGED rest
        /\ done' = Append(done, Head(queue).cmd)
    BY <1>7 DEF Perform, Receives
  <2>2. Commands!Perform
    BY <1>6, <2>1 DEF Commands!Perform, Commands!Take, Settled
  <2>3. QED
    BY <2>2 DEF Commands!Next
<1>8. CASE Drop
  <2>1. queue # <<>> /\ queue' = Tail(queue) /\ UNCHANGED rest /\ done' = done
    BY <1>8 DEF Drop, Receives
  <2>2. Commands!Drop
    BY <1>6, <2>1 DEF Commands!Drop, Commands!Take, Settled
  <2>3. QED
    BY <2>2 DEF Commands!Next
<1>9. CASE \/ Stop \/ Die \/ (\E g \in Attempts : RestartMaster(g)) \/ Clear \/ Crash
           \/ (Load /\ ~Loads)
  BY <1>5, <1>9 DEF Stop, Die, RestartMaster, Clear, Crash, Load, Ends
<1>10. CASE \E g \in ready : Issue(g)
  BY <1>2, <1>10, NothingSettles DEF Issue
<1>11. CASE Serve
  <2>1. ASSUME NEW q \in requests, Lookup(q) \/ GetQueue(q)
        PROVE  UNCHANGED Commands!vars
    BY <1>2, <2>1, NothingSettles DEF Lookup, GetQueue
  <2>2. ASSUME NEW q \in requests, LookupNothing(q) \/ Unmapped(q) \/ ExecFails(q)
        PROVE  Commands!Next
    BY <1>3, <2>2 DEF LookupNothing, Unmapped, ExecFails
  <2>3. ASSUME NEW q \in requests, Send(q), q.at # "send"
        PROVE  Commands!Next
    BY <1>3, <2>3 DEF Send
  <2>4. QED
    BY <1>4, <1>11, <2>1, <2>2, <2>3 DEF Serve
<1>12. CASE \/ Start \/ CreateGateway \/ Loads \/ UNCHANGED vars
            \/ \E g \in Attempts : \/ \E a \in Addresses : CreatePlant(g, a)
                                   \/ BeginDelete(g) \/ RemoveGateway(g)
            \/ \E i \in Rows : DestroyPlant(i)
  <2>1. UNCHANGED rest /\ queue' = queue /\ done' = done
    BY <1>12 DEF Start, CreateGateway, CreatePlant, BeginDelete, RemoveGateway,
                 DestroyPlant, Loads, vars
  <2>2. QED
    BY <1>2, <2>1, NothingSettles
<1>13. QED
  BY <1>7, <1>8, <1>9, <1>10, <1>11, <1>12 DEF Next, Main, Provision, Load

-----------------------------------------------------------------------------
(* No command twice.                                                       *)

\* Joined sequences, index by index.
LEMMA Joined ==
  ASSUME NEW p \in Seq(Nat), NEW w \in Seq(Nat)
  PROVE  /\ p \o w \in Seq(Nat) /\ Len(p \o w) = Len(p) + Len(w)
         /\ Len(p) \in Nat /\ Len(w) \in Nat /\ DOMAIN (p \o w) = 1..(Len(p) + Len(w))
         /\ \A i \in 1..Len(p) : (p \o w)[i] = p[i]
         /\ \A i \in 1..Len(w) : (p \o w)[Len(p) + i] = w[i]
<1>1. p \o w \in Seq(Nat) /\ Len(p \o w) = Len(p) + Len(w) /\ Len(p) \in Nat /\ Len(w) \in Nat
  BY ConcatProperties, LenProperties
<1>2. DOMAIN (p \o w) = 1..(Len(p) + Len(w))
  BY <1>1, LenProperties
<1>3. \A i \in 1..Len(w) : (p \o w)[Len(p) + i] = w[i]
  <2> SUFFICES ASSUME NEW i \in 1..Len(w) PROVE (p \o w)[Len(p) + i] = w[i]
    OBVIOUS
  <2>1. Len(p) + i \in 1..(Len(p) + Len(w)) /\ Len(p) + i > Len(p) /\ (Len(p) + i) - Len(p) = i
    BY <1>1
  <2>2. QED
    BY <2>1, ConcatProperties
<1>4. QED
  BY <1>1, <1>2, <1>3, ConcatProperties

\* s has no element twice and only elements of A.
Once(s, A) ==
  \A i \in DOMAIN s : s[i] \in A /\ \A j \in DOMAIN s : s[i] = s[j] => i = j

\* Accepting adds at the end, ...
LEMMA OnceAccept ==
  ASSUME NEW p \in Seq(Nat), NEW w \in Seq(Nat), NEW c \in Nat, NEW A, c \notin A,
         Once(p \o w, A)
  PROVE  Once(p \o Append(w, c), A \cup {c})
<1> DEFINE s == p \o w
           t == p \o Append(w, c)
           n == Len(p) + Len(w)
<1>1. /\ Append(w, c) \in Seq(Nat) /\ Len(Append(w, c)) = Len(w) + 1
      /\ Append(w, c)[Len(w) + 1] = c
      /\ \A i \in 1..Len(w) : Append(w, c)[i] = w[i]
  BY AppendProperties
<1>2. /\ n \in Nat /\ DOMAIN s = 1..n /\ DOMAIN t = 1..(n + 1) /\ t[n + 1] = c
  <2>1. Len(p) + (Len(w) + 1) = n + 1 /\ Len(w) + 1 \in 1..(Len(w) + 1)
    BY Joined
  <2>2. QED
    BY <1>1, <2>1, Joined
<1>3. ASSUME NEW i \in 1..n PROVE t[i] = s[i]
  <2>1. CASE i \in 1..Len(p)
    BY <1>1, <2>1, Joined
  <2>2. CASE i \notin 1..Len(p)
    <3>1. PICK k \in 1..Len(w) : i = Len(p) + k
      <4>1. i - Len(p) \in 1..Len(w) /\ i = Len(p) + (i - Len(p))
        BY <2>2, Joined
      <4>2. QED
        BY <4>1
    <3>2. k \in 1..(Len(w) + 1)
      BY Joined
    <3>3. QED
      BY <1>1, <3>1, <3>2, Joined
  <2>3. QED
    BY <2>1, <2>2
<1> HIDE DEF s, t, n
<1>4. Once(s, A)
  BY DEF s
<1>5. Once(t, A \cup {c})
  <2> SUFFICES ASSUME NEW i \in 1..(n + 1)
               PROVE  t[i] \in A \cup {c} /\ \A j \in 1..(n + 1) : t[i] = t[j] => i = j
    BY <1>2 DEF Once
  <2>1. \A k \in 1..n : t[k] \in A /\ \A j \in 1..n : t[k] = t[j] => k = j
    BY <1>2, <1>3, <1>4 DEF Once
  <2>2. i = n + 1 \/ i \in 1..n
    BY <1>2
  <2>3. \A j \in 1..(n + 1) : j = n + 1 \/ j \in 1..n
    BY <1>2
  <2>4. QED
    BY <1>2, <2>1, <2>2, <2>3
<1>6. QED
  BY <1>5 DEF t

\* ... dropping takes one out, ...
LEMMA OnceDrop ==
  ASSUME NEW p \in Seq(Nat), NEW w \in Seq(Nat), w # <<>>, NEW A, Once(p \o w, A)
  PROVE  Once(p \o Tail(w), A)
<1> DEFINE s == p \o w
           t == p \o Tail(w)
           n == Len(p) + Len(w)
           f(i) == IF i <= Len(p) THEN i ELSE i + 1
<1>1. /\ Tail(w) \in Seq(Nat) /\ Len(Tail(w)) = Len(w) - 1 /\ Len(w) \in Nat \ {0}
      /\ \A i \in 1..(Len(w) - 1) : Tail(w)[i] = w[i + 1]
  BY HeadTailProperties, EmptySeq
<1>2. n \in Nat /\ DOMAIN s = 1..n /\ DOMAIN t = 1..(n - 1) /\ Len(p) \in Nat
  <2>1. Len(p) + (Len(w) - 1) = n - 1
    BY <1>1, Joined
  <2>2. QED
    BY <1>1, <2>1, Joined
<1>3. ASSUME NEW i \in 1..(n - 1) PROVE f(i) \in 1..n /\ t[i] = s[f(i)]
  <2>1. CASE i <= Len(p)
    BY <1>1, <1>2, <2>1, Joined
  <2>2. CASE ~(i <= Len(p))
    <3>1. PICK k \in 1..(Len(w) - 1) : i = Len(p) + k
      <4>1. i - Len(p) \in 1..(Len(w) - 1) /\ i = Len(p) + (i - Len(p))
        BY <1>1, <1>2, <2>2
      <4>2. QED
        BY <4>1
    <3>2. k + 1 \in 1..Len(w) /\ f(i) = Len(p) + (k + 1) /\ f(i) \in 1..n
      BY <1>1, <1>2, <2>2, <3>1
    <3>3. t[i] = Tail(w)[k] /\ s[f(i)] = w[k + 1]
      BY <1>1, <3>1, <3>2, Joined
    <3>4. QED
      BY <1>1, <3>1, <3>2, <3>3
  <2>3. QED
    BY <2>1, <2>2
<1>4. \A i, j \in 1..(n - 1) : f(i) = f(j) => i = j
  BY <1>2
<1> HIDE DEF s, t, n, f
<1>5. Once(s, A)
  BY DEF s
<1>6. Once(t, A)
  BY <1>2, <1>3, <1>4, <1>5 DEF Once
<1>7. QED
  BY <1>6 DEF t

\* ... performing takes the first of those that wait to the end of those performed, ...
LEMMA OncePerform ==
  ASSUME NEW p \in Seq(Nat), NEW w \in Seq(Nat), w # <<>>
  PROVE  Append(p, Head(w)) \o Tail(w) = p \o w
<1> DEFINE s == p \o w
           q == Append(p, Head(w))
           t == q \o Tail(w)
           n == Len(p) + Len(w)
<1>1. /\ Tail(w) \in Seq(Nat) /\ Len(Tail(w)) = Len(w) - 1 /\ Len(w) \in Nat \ {0}
      /\ \A i \in 1..(Len(w) - 1) : Tail(w)[i] = w[i + 1]
      /\ Head(w) = w[1] /\ Head(w) \in Nat /\ Len(p) \in Nat
  BY HeadTailProperties, EmptySeq, LenProperties
<1>2. /\ q \in Seq(Nat) /\ Len(q) = Len(p) + 1 /\ q[Len(p) + 1] = w[1]
      /\ \A i \in 1..Len(p) : q[i] = p[i]
  BY <1>1, AppendProperties
<1> HIDE DEF q
<1>3. s \in Seq(Nat) /\ t \in Seq(Nat) /\ Len(s) = n /\ Len(t) = n
  <2>1. Len(q) + Len(Tail(w)) = n
    BY <1>1, <1>2
  <2>2. t \in Seq(Nat) /\ Len(t) = Len(q) + Len(Tail(w))
    BY <1>1, <1>2, Joined
  <2>3. s \in Seq(Nat) /\ Len(s) = n
    BY Joined
  <2>4. QED
    BY <2>1, <2>2, <2>3
<1>4. ASSUME NEW i \in 1..n PROVE t[i] = s[i]
  <2>1. CASE i <= Len(p)
    <3>1. i \in 1..Len(p) /\ i \in 1..(Len(p) + 1)
      BY <1>1, <2>1
    <3>2. t[i] = q[i] /\ s[i] = p[i]
      BY <1>1, <1>2, <3>1, Joined
    <3>3. QED
      BY <1>2, <3>1, <3>2
  <2>2. CASE i = Len(p) + 1
    <3>1. i \in 1..(Len(p) + 1) /\ 1 \in 1..Len(w)
      BY <1>1, <2>2
    <3>2. t[i] = q[i] /\ s[i] = w[1]
      BY <1>1, <1>2, <2>2, <3>1, Joined
    <3>3. QED
      BY <1>2, <2>2, <3>2
  <2>3. CASE i > Len(p) + 1
    <3>1. PICK k \in 1..(Len(w) - 1) : i = Len(p) + 1 + k
      <4>1. i - (Len(p) + 1) \in 1..(Len(w) - 1) /\ i = Len(p) + 1 + (i - (Len(p) + 1))
        BY <1>1, <2>3
      <4>2. QED
        BY <4>1
    <3>2. k + 1 \in 1..Len(w) /\ i = Len(p) + (k + 1) /\ i = Len(q) + k
      BY <1>1, <1>2, <3>1
    <3>3. t[i] = Tail(w)[k]
      BY <1>1, <1>2, <3>2, Joined
    <3>4. s[i] = w[k + 1]
      BY <3>2, Joined
    <3>5. QED
      BY <1>1, <3>3, <3>4
  <2>4. i <= Len(p) \/ i = Len(p) + 1 \/ i > Len(p) + 1
    BY <1>1
  <2>5. QED
    BY <2>1, <2>2, <2>3, <2>4
<1> HIDE DEF s, t, n
<1>5. t = s
  BY <1>3, <1>4, SeqEqual
<1>6. t = Append(p, Head(w)) \o Tail(w)
  BY DEF t, q
<1>7. s = p \o w
  BY DEF s
<1>8. QED
  BY <1>5, <1>6, <1>7

\* ... and discarding leaves those performed.
LEMMA OnceDiscard ==
  ASSUME NEW p \in Seq(Nat), NEW w \in Seq(Nat), NEW A, Once(p \o w, A)
  PROVE  Once(p \o <<>>, A)
<1> DEFINE s == p \o w
           t == p \o <<>>
<1>1. <<>> \in Seq(Nat) /\ Len(<<>>) = 0
  BY EmptySeq
<1>2. /\ Len(p) \in Nat /\ Len(w) \in Nat /\ DOMAIN s = 1..(Len(p) + Len(w))
      /\ DOMAIN t = 1..(Len(p) + 0)
      /\ \A i \in 1..Len(p) : s[i] = p[i] /\ t[i] = p[i]
  BY <1>1, Joined
<1>3. \A i \in DOMAIN t : i \in DOMAIN s /\ t[i] = s[i]
  BY <1>2
<1> HIDE DEF s, t
<1>4. Once(s, A)
  BY DEF s
<1>5. Once(t, A)
  BY <1>3, <1>4 DEF Once
<1>6. QED
  BY <1>5 DEF t

LEMMA OnceMore ==
  ASSUME NEW s, NEW A, NEW c, Once(s, A)
  PROVE  Once(s, A \cup {c})
  BY DEF Once

\* What has been accepted has been settled, too: nothing accepts it again.
OnceInv == Once(done \o Borne(queue), Settled)

LEMMA OnceStep == Inv /\ OnceInv /\ [Next]_vars => OnceInv'
<1> SUFFICES ASSUME Inv, Once(done \o Borne(queue), Settled),
                    [Commands!Next]_(Commands!vars)
             PROVE  Once(done' \o Borne(queue'), Settled')
  <2>1. OnceInv' = Once(done' \o Borne(queue'), Settled')
    BY DEF OnceInv
  <2>2. QED
    BY <2>1, Simulates DEF OnceInv
<1> DEFINE w == Borne(queue)
           p == done
<1>1. w \in Seq(Nat) /\ p \in Seq(Nat)
  <2>1. \A e \in Messages : e.cmd \in Nat
    BY DEF Messages
  <2>2. QED
    BY <2>1, BorneOf DEF Inv, TypeOK
<1>2. Settled' \subseteq Nat
  BY DEF Settled
<1>3. ASSUME NEW c \in Settled', Commands!Accept(c)
      PROVE  Once(done' \o Borne(queue'), Settled')
  <2>1. /\ c \notin Settled /\ Settled' = Settled \cup {c}
        /\ Borne(queue') = Append(w, c) /\ done' = p
    BY <1>3 DEF Commands!Accept, Commands!Settle, Settled
  <2>2. QED
    BY <1>1, <1>2, <2>1, OnceAccept
<1>4. ASSUME NEW c \in Settled', Commands!Refuse(c)
      PROVE  Once(done' \o Borne(queue'), Settled')
  <2>1. Settled' = Settled \cup {c} /\ Borne(queue') = w /\ done' = p
    BY <1>4 DEF Commands!Refuse, Commands!Settle, Settled
  <2>2. QED
    BY <2>1, OnceMore
<1>5. CASE Commands!Perform
  <2>1. /\ w # <<>> /\ Borne(queue') = Tail(w) /\ done' = Append(p, Head(w))
        /\ Settled' = Settled
    BY <1>5 DEF Commands!Perform, Commands!Take, Settled
  <2>2. QED
    BY <1>1, <2>1, OncePerform
<1>6. CASE Commands!Drop
  <2>1. w # <<>> /\ Borne(queue') = Tail(w) /\ done' = p /\ Settled' = Settled
    BY <1>6 DEF Commands!Drop, Commands!Take, Settled
  <2>2. QED
    BY <1>1, <2>1, OnceDrop
<1>7. CASE Commands!Discard
  <2>1. Borne(queue') = <<>> /\ done' = p /\ Settled' = Settled
    BY <1>7 DEF Commands!Discard, Settled
  <2>2. QED
    BY <1>1, <2>1, OnceDiscard
<1>8. CASE UNCHANGED Commands!vars
  BY <1>8 DEF Commands!vars, Settled
<1>9. QED
  BY <1>3, <1>4, <1>5, <1>6, <1>7, <1>8 DEF Commands!Next, Settled

-----------------------------------------------------------------------------
(* Theorems.                                                               *)

\* Every variable has its type: each plant is of an attempt that has begun (saga.js),
\* and what the master reads are messages with an address (main.cpp).
THEOREM PathTyped == Spec => []TypeOK
  BY InvHolds, PTL DEF Inv

\* A command reaches another device than its session's (plant.js, main.cpp) only once
\* the deletion of the session's gateway has begun, or where an older plant of the same
\* IP address and another port is in the master's table.
THEOREM OnlyLateCommandsStray == Spec => RightDevice
<1> DEFINE m == Head(queue)
           Right == \/ m.gw \in deleted
                    \/ \E i \in At(m.ip) :
                         /\ plants[i] = Plant(m.gw, Control)
                         /\ \/ Shadowed(i)
                            \/ \A j \in At(m.ip) : Opens(j) => CloudOf(j) = clouds[m.gw]
<1>1. Inv /\ [Next]_vars => [Perform => Right]_vars
  <2> SUFFICES ASSUME Inv, Perform, m.gw \notin deleted PROVE Right
    OBVIOUS
  <2>1. PICK i \in At(m.ip) : plants[i] = Plant(m.gw, Control) /\ CloudOf(i) = clouds[m.gw]
    BY OwnPlant DEF Perform
  <2> HIDE DEF m
  <2>2. ASSUME ~Shadowed(i), NEW j \in At(m.ip), Opens(j)
        PROVE  CloudOf(j) = CloudOf(i)
    <3>1. CloudOf(i).ip = m.ip /\ CloudOf(j).ip = m.ip /\ i \in table /\ j \in table
      BY DEF At
    <3>2. i \in DOMAIN plants /\ j \in DOMAIN plants
      BY <3>1 DEF Inv, TypeOK
    <3>3. CloudOf(i) \in [ip : Ips, port : Ports] /\ CloudOf(j) \in [ip : Ips, port : Ports]
      BY <3>2, RowTyped DEF Inv
    <3>4. i \in Nat /\ j \in Nat
      BY <3>2 DEF Inv, TypeOK
    <3>5. j <= i
      BY <2>2, <3>1 DEF Opens
    <3>6. CASE j = i
      BY <3>6
    <3>7. CASE j # i
      <4>1. j < i
        BY <3>4, <3>5, <3>7
      <4>2. CloudOf(j).port = CloudOf(i).port
        BY <2>2, <3>1, <4>1 DEF Shadowed
      <4>3. QED
        BY <3>1, <3>3, <4>2
    <3>8. QED
      BY <3>6, <3>7
  <2>3. QED
    BY <2>1, <2>2
<1>2. QED
  BY <1>1, InvHolds, PTL DEF Spec, RightDevice

\* The master's null pointer (main.cpp) is met by late commands only.
THEOREM CommandsAreSafe == Spec => NoCrashInSession
<1>1. Inv /\ [Next]_vars => [Crash => Head(queue).gw \in deleted]_vars
  <2> SUFFICES ASSUME Inv, Crash, Head(queue).gw \notin deleted
               PROVE  FALSE
    OBVIOUS
  <2>1. At(Head(queue).ip) # {}
    BY OwnPlant DEF Crash
  <2>2. QED
    BY <2>1 DEF Crash, Known
<1>2. QED
  BY <1>1, InvHolds, PTL DEF Spec, NoCrashInSession

\* Each command is settled once, and accepted commands are performed in their order,
\* each at most once, unless they are lost (docker.js, dreams-msg-sender.cpp, main.cpp).
THEOREM PathImplementsCommands == Spec => CommandSpecHolds
<1>1. Init => Commands!Init
  <2> SUFFICES ASSUME Init PROVE Commands!Init
    OBVIOUS
  <2>1. Outstanding = {} /\ (1..issued) = {}
    BY DEF Init, Outstanding
  <2>2. Borne(queue) = <<>> /\ done = <<>>
    BY BorneEmpty DEF Init
  <2>3. QED
    BY <2>1, <2>2 DEF Commands!Init
<1>2. QED
  BY <1>1, InvHolds, Simulates, PTL DEF Spec, CommandSpecHolds, Commands!Spec

\* No command is performed twice, whatever the master and its queue go through
\* (docker.js runs the program once, and main.cpp's msgrcv takes each message away).
THEOREM CommandsOnce == Spec => []NeverTwice
<1>1. Init => OnceInv
  <2> SUFFICES ASSUME Init PROVE Once(done \o Borne(queue), Settled)
    BY DEF OnceInv
  <2>1. Borne(queue) = <<>> /\ done = <<>>
    BY BorneEmpty DEF Init
  <2>2. DOMAIN (<<>> \o <<>>) = {}
    <3>1. <<>> \in Seq(Nat) /\ Len(<<>>) = 0
      BY EmptySeq
    <3>2. DOMAIN (<<>> \o <<>>) = 1..(0 + 0)
      BY <3>1, Joined
    <3>3. QED
      BY <3>2
  <2>3. QED
    BY <2>1, <2>2 DEF Once
<1>2. OnceInv => NeverTwice
  BY DEF OnceInv, Once, NeverTwice, Commands!NeverTwice, Commands!Accepted
<1>3. QED
  BY <1>1, <1>2, InvHolds, OnceStep, PTL DEF Spec

=============================================================================
