----------------------------- MODULE CommandPath ----------------------------
(***************************************************************************)
(* The way of a command from a test to the cloud under test: the REST      *)
(* server looks the plant's gateway up (plant.js) and runs a program in    *)
(* the master's container (docker.js) that puts a message in a System V    *)
(* queue (dreams-msg-sender.cpp), which the master reads in its main loop  *)
(* (main.cpp) and looks up, by IP address, in what it loaded when it       *)
(* started.                                                                *)
(*                                                                         *)
(* Any number of attempts write to the tables, and any of their rows may   *)
(* stay behind (Provisioning).  The queue lives in the container's IPC     *)
(* namespace and goes with it; the master, too, replaces it when it is     *)
(* about to listen.                                                        *)
(***************************************************************************)
EXTENDS Naturals, Sequences, FiniteSets

CONSTANTS
  Ips, Ports,   \* IP addresses and TCP ports
  Clouds,       \* choices of the clouds tested by the attempts to begin a session
  MaxDeletes,   \* bound: gateways whose deletion begins
  MaxCommands,  \* bound: commands
  MaxUpsets     \* bound: times the master is stopped or dies by itself

ASSUME BoundAssumption ==
  MaxDeletes \in Nat /\ MaxCommands \in Nat /\ MaxUpsets \in Nat
ASSUME CloudAssumption ==
  "" \notin Ips /\ Clouds \subseteq Seq([ip : Ips, port : Ports])

VARIABLES
  clouds,     \* the cloud of each attempt: what its Gateway row holds, if it has one
  opened,     \* attempts so far
  gateways,   \* attempts whose Gateway row exists
  plants,     \* Plant rows in the order of their ids, deleted ones included
  gone,       \* ids of the deleted ones
  deleted,    \* attempts for whose gateway a delete has begun
  restarted,  \* attempts that have restarted the master
  ready,      \* those of them that show their tests
  requests,   \* REST requests that have not been answered
  issued,     \* commands so far
  master,     \* "stopped", "starting", "loaded" or "listening"
  table,      \* ids of the plants the master has loaded
  queue,      \* the message queue
  done,       \* commands performed
  upsets      \* upsets so far

tables   == <<clouds, opened, gateways, plants, gone, deleted>>
sessions == <<restarted, ready>>
rest     == <<requests, issued>>
dnp3     == <<master, table, queue>>
vars     == <<tables, sessions, rest, dnp3, done, upsets>>

Attempts == 1..opened

Control   == 4   \* dnp3Address of the control plant: the only one commanded
Uncontrol == 5
Addresses == {Control, Uncontrol}

\* A request (integrityPoll, powerControl or setDeadband) is at its lookup, at docker
\* exec, or its program has a queue, which may have been removed since.
Requests == [cmd : Nat, at : {"lookup", "exec", "send", "lost"},
             gw : Nat, ip : Ips \cup {""}]

\* The type of a message, its index and its value are left out, and so is the DNP3
\* address, the control plant's.
Messages == [cmd : Nat, gw : Nat, ip : Ips]

Init ==
  /\ clouds \in Clouds /\ opened = 0 /\ gateways = {}
  /\ plants = <<>> /\ gone = {} /\ deleted = {}
  /\ restarted = {} /\ ready = {}
  /\ requests = {} /\ issued = 0
  /\ master = "starting" /\ table = {} /\ queue = <<>>
  /\ done = <<>> /\ upsets = 0

-----------------------------------------------------------------------------
(* The tables.                                                             *)

Rows == DOMAIN plants \ gone

\* Rows whose gateway is there, and those whose gateway was deleted or never made.
Linked  == {i \in Rows : plants[i].gw \in gateways}
Orphans == Rows \ Linked

CloudOf(i) == clouds[plants[i].gw]

Plant(g, a) == [gw |-> g, addr |-> a]

-----------------------------------------------------------------------------
(* The container.                                                          *)

\* The queue is removed: for good, for the programs that have it.
RemoveQueue ==
  /\ queue' = <<>>
  /\ requests' = {[q EXCEPT !.at = IF @ = "send" THEN "lost" ELSE @] : q \in requests}
  /\ UNCHANGED issued

\* The container's processes end, and the queue with its namespace.
Ends(next) == master' = next /\ table' = {} /\ RemoveQueue

\* Test 4-1, or the process ends by itself and Docker starts it again.
Stop ==
  /\ master # "stopped" /\ upsets < MaxUpsets
  /\ upsets' = upsets + 1
  /\ Ends("stopped")
  /\ UNCHANGED <<tables, sessions, done>>

Die ==
  /\ master # "stopped" /\ upsets < MaxUpsets
  /\ upsets' = upsets + 1
  /\ Ends("starting")
  /\ UNCHANGED <<tables, sessions, done>>

Start ==
  /\ master = "stopped" /\ master' = "starting"
  /\ UNCHANGED <<tables, sessions, rest, table, queue, done, upsets>>

-----------------------------------------------------------------------------
(* Sessions.                                                               *)

\* An attempt begins.  When the creation of its gateway fails it goes on without.
CreateGateway ==
  /\ opened < Len(clouds) /\ opened' = opened + 1
  /\ gateways' \in {gateways, gateways \cup {opened + 1}}
  /\ UNCHANGED <<clouds, plants, gone, deleted, sessions, rest, dnp3, done, upsets>>

\* Mutant of CreatePlant: the row does not name its gateway.
CreatePlantUnlinked(g, a) ==
  /\ \A i \in DOMAIN plants : plants[i] \notin {Plant(g, a), Plant(g, Uncontrol)}
  /\ a = Control => \A i \in Rows : plants[i].addr # Control
  /\ plants' = Append(plants, Plant(0, a))
  /\ UNCHANGED <<clouds, opened, gateways, gone, deleted, sessions, rest, dnp3, done, upsets>>

\* A plant request is served.  All attempts use the same number for the control plant,
\* and plant numbers are unique; whatever else is refused is not made.  The uncontrol
\* plant's comes after the control plant's answer and may be served late; an attempt
\* that gives the first one up cannot become ready, and its late row is left out.
CreatePlant(g, a) ==
  /\ \A i \in DOMAIN plants : plants[i] \notin {Plant(g, a), Plant(g, Uncontrol)}
  /\ a = Control => \A i \in Rows : plants[i].addr # Control
  /\ plants' = Append(plants, Plant(g, a))
  /\ UNCHANGED <<clouds, opened, gateways, gone, deleted, sessions, rest, dnp3, done, upsets>>

Complete(g) == \A a \in Addresses : \E i \in DOMAIN plants : plants[i] = Plant(g, a)

\* The attempt has its answers: with both plants the session becomes ready.  (One of
\* which an answer was lost is like one whose user sends nothing.)
Concludes(g) ==
  /\ g \notin restarted /\ restarted' = restarted \cup {g}
  /\ ready' = IF Complete(g) THEN ready \cup {g} ELSE ready

\* Mutants of RestartMaster: it is left out, or spared when the IP address is known.
RestartForgotten(g) ==
  /\ Concludes(g) /\ UNCHANGED <<tables, rest, dnp3, done, upsets>>
RestartSpared(g) ==
  /\ Concludes(g)
  /\ IF \E i \in table : CloudOf(i).ip = clouds[g].ip
     THEN UNCHANGED <<dnp3, rest>> ELSE Ends("starting")
  /\ UNCHANGED <<tables, done, upsets>>

\* Refused attempts restart the master, too, and a restart starts a stopped one.
RestartMaster(g) ==
  /\ Concludes(g) /\ Ends("starting")
  /\ UNCHANGED <<tables, done, upsets>>

\* A gateway's deletion begins: a rollback, or the next page load of its browser.
BeginDelete(g) ==
  /\ g \in gateways \ deleted /\ Cardinality(deleted) < MaxDeletes
  /\ deleted' = deleted \cup {g}
  /\ UNCHANGED <<clouds, opened, gateways, plants, gone, sessions, rest, dnp3, done, upsets>>

\* The hook's deletes are not awaited, and a crash may drop the rest of them.
DestroyPlant(i) ==
  /\ i \in Rows /\ plants[i].gw \in deleted /\ gone' = gone \cup {i}
  /\ UNCHANGED <<clouds, opened, gateways, plants, deleted, sessions, rest, dnp3, done, upsets>>

RemoveGateway(g) ==
  /\ g \in gateways \cap deleted /\ gateways' = gateways \ {g}
  /\ UNCHANGED <<clouds, opened, plants, gone, deleted, sessions, rest, dnp3, done, upsets>>

-----------------------------------------------------------------------------
(* The REST server.                                                        *)

\* A page that shows its tests sends a command, maybe after another page of its
\* browser has begun to delete its gateway.
Issue(g) ==
  /\ issued < MaxCommands
  /\ issued' = issued + 1
  /\ requests' = requests \cup
       {[cmd |-> issued + 1, at |-> "lookup", gw |-> g, ip |-> ""]}
  /\ UNCHANGED <<tables, sessions, dnp3, done, upsets>>

Answer(q) == requests' = requests \ {q} /\ UNCHANGED issued
Moves(q, next) == requests' = (requests \ {q}) \cup {next} /\ UNCHANGED issued

\* The lookup is by plant number, the same in all sessions.  Without plant or gateway
\* the answer is null: a success to the caller.
LookupNothing(q) ==
  /\ q.at = "lookup" /\ \A i \in Linked : plants[i].addr # Control
  /\ Answer(q)
  /\ UNCHANGED <<tables, sessions, dnp3, done, upsets>>

\* setDeadband refuses a field it does not map.
Unmapped(q) ==
  /\ q.at = "lookup"
  /\ Answer(q)
  /\ UNCHANGED <<tables, sessions, dnp3, done, upsets>>

Lookup(q) ==
  /\ q.at = "lookup"
  /\ \E i \in Linked :
       /\ plants[i].addr = Control
       /\ Moves(q, [cmd |-> q.cmd, at |-> "exec", gw |-> q.gw, ip |-> CloudOf(i).ip])
  /\ UNCHANGED <<tables, sessions, dnp3, done, upsets>>

\* docker exec fails, as it always does in a stopped container, and the request too.
ExecFails(q) ==
  /\ q.at = "exec"
  /\ Answer(q)
  /\ UNCHANGED <<tables, sessions, dnp3, done, upsets>>

\* The program gets the queue, or creates it when the master has not.
GetQueue(q) ==
  /\ q.at = "exec" /\ master # "stopped"
  /\ Moves(q, [q EXCEPT !.at = "send"])
  /\ UNCHANGED <<tables, sessions, dnp3, done, upsets>>

Message(q) == [cmd |-> q.cmd, gw |-> q.gw, ip |-> q.ip]

\* Mutant of Send: the program is run again when the request is slow.
SendAgain(q) ==
  /\ q.at \in {"send", "lost"}
  /\ queue' = IF q.at = "send" THEN Append(queue, Message(q)) ELSE queue
  /\ Answer(q) \/ UNCHANGED rest
  /\ UNCHANGED <<tables, sessions, master, table, done, upsets>>

\* Nobody looks at what msgsnd, or the program, returns; the request is answered when
\* the program's output ends.
Send(q) ==
  /\ q.at \in {"send", "lost"}
  /\ queue' = IF q.at = "send" THEN Append(queue, Message(q)) ELSE queue
  /\ Answer(q)
  /\ UNCHANGED <<tables, sessions, master, table, done, upsets>>

-----------------------------------------------------------------------------
(* The master's main.                                                      *)

Loads ==
  /\ master = "starting" /\ master' = "loaded" /\ table' = Linked
  /\ UNCHANGED <<tables, sessions, rest, queue, done, upsets>>

\* Mutant of Load: the master waits for plants.
LoadSome == Linked # {} /\ Loads

\* The fetch of /api/Plants, with gateways.  What the answer has for a missing gateway
\* is the framework's: null makes a gateway of the empty address, which no command
\* names; without the member, looking into it trips an assertion of the JSON library.
Load ==
  \/ Loads
  \/ /\ master = "starting" /\ Orphans # {}
     /\ Ends("starting")
     /\ UNCHANGED <<tables, sessions, done, upsets>>

\* The queue is removed and created again.
Clear ==
  /\ master = "loaded"
  /\ master' = "listening"
  /\ RemoveQueue
  /\ UNCHANGED <<tables, sessions, table, done, upsets>>

Receives == master = "listening" /\ queue # <<>>

\* Gateways are kept by IP address: the first plant of an address opens the
\* connection, to its gateway's port, for all plants of the address.
At(ip) == {i \in table : CloudOf(i).ip = ip}
Opens(i) == \A j \in At(CloudOf(i).ip) : i <= j

Commanded(m) == \E i \in At(m.ip) : plants[i].addr = Control

\* Mutant of Perform: the message stays until the plant has answered.
PerformRetried ==
  /\ Receives /\ Commanded(Head(queue))
  /\ queue' \in {queue, Tail(queue)}
  /\ done' = Append(done, Head(queue).cmd)
  /\ UNCHANGED <<tables, sessions, rest, master, table, upsets>>

\* ScanClasses, or direct operate and SelectAndOperate.
Perform ==
  /\ Receives /\ Commanded(Head(queue))
  /\ queue' = Tail(queue)
  /\ done' = Append(done, Head(queue).cmd)
  /\ UNCHANGED <<tables, sessions, rest, master, table, upsets>>

Known(m) == At(m.ip) # {}

\* Mutant of Drop: the message stays.
DropNot == Receives /\ Known(Head(queue)) /\ ~Commanded(Head(queue)) /\ UNCHANGED vars

Drop ==
  /\ Receives /\ Known(Head(queue)) /\ ~Commanded(Head(queue))
  /\ queue' = Tail(queue)
  /\ UNCHANGED <<tables, sessions, rest, master, table, done, upsets>>

\* gateways[...] of an unknown address is a null pointer.
Crash ==
  /\ Receives /\ ~Known(Head(queue))
  /\ Ends("starting")
  /\ UNCHANGED <<tables, sessions, done, upsets>>

-----------------------------------------------------------------------------

Serve ==
  \E q \in requests :
    \/ LookupNothing(q) \/ Unmapped(q) \/ Lookup(q)
    \/ ExecFails(q) \/ GetQueue(q) \/ Send(q)

\* The master's process.
Main == Load \/ Clear \/ Perform \/ Drop \/ Crash

Provision ==
  \/ CreateGateway
  \/ \E g \in Attempts :
       \/ \E a \in Addresses : CreatePlant(g, a)
       \/ RestartMaster(g) \/ BeginDelete(g) \/ RemoveGateway(g)
  \/ \E i \in Rows : DestroyPlant(i)

Next ==
  \/ Stop \/ Die \/ Start
  \/ Provision
  \/ (\E g \in ready : Issue(g)) \/ Serve
  \/ Main

Spec == Init /\ [][Next]_vars

\* Requests are served, the master starts and reads its queue; sessions, commands
\* and the end of test 4-1 are up to the users.
FairSpec == Spec /\ WF_vars(Serve) /\ WF_vars(Main)

-----------------------------------------------------------------------------
(* Properties.                                                             *)

TypeOK ==
  /\ clouds \in Clouds /\ opened \in 0..Len(clouds) /\ gateways \subseteq Attempts
  /\ plants \in Seq([gw : Attempts, addr : Addresses])
  /\ gone \subseteq DOMAIN plants /\ deleted \subseteq Attempts
  /\ restarted \subseteq Attempts /\ ready \subseteq restarted
  /\ requests \subseteq Requests /\ issued \in Nat
  /\ master \in {"stopped", "starting", "loaded", "listening"}
  /\ table \subseteq DOMAIN plants
  /\ queue \in Seq(Messages)
  /\ done \in Seq(Nat) /\ upsets \in Nat

\* The commands whose requests have not been answered, and those a sequence bears.
Outstanding == {q.cmd : q \in requests}
Borne(s) == [i \in DOMAIN s |-> s[i].cmd]

\* The path implements what the tests may rely on.
Commands == INSTANCE CommandSpec WITH
  settled   <- (1..issued) \ Outstanding,
  waiting   <- Borne(queue),
  performed <- done

CommandSpecHolds == Commands!Spec

\* A command that a test asks for once is performed at most once: no restart, new
\* queue or late program repeats it.
NeverTwice == Commands!NeverTwice

\* The commands of a session reach its own device, whatever restarts and late
\* commands lie between: the master that performs one has loaded the session's
\* plants, and connects to their gateway's port, unless its deletion has begun.  The
\* exception is an older plant of the same IP address and another port that was in
\* the tables when the master loaded them: then the commands go to that port.
Shadowed(i) ==
  \E j \in At(CloudOf(i).ip) : j < i /\ CloudOf(j).port # CloudOf(i).port

RightDevice ==
  [][Perform =>
       LET m == Head(queue)
       IN  \/ m.gw \in deleted
           \/ \E i \in At(m.ip) :
                /\ plants[i] = Plant(m.gw, Control)
                /\ \/ Shadowed(i)
                   \/ \A j \in At(m.ip) : Opens(j) => CloudOf(j) = clouds[m.gw]]_vars

\* The commands of a session never end the master: only one that is late, for a
\* gateway whose deletion has begun, can meet a table without its address.
NoCrashInSession == [][Crash => Head(queue).gw \in deleted]_vars

\* Every command is settled: its request is answered, its message read or lost, so
\* that none is ever under way for good.
UnderWay(c) ==
  (\E q \in requests : q.cmd = c) \/ (\E i \in DOMAIN queue : queue[i].cmd = c)

CommandsSettle == \A c \in 1..MaxCommands : []<> ~UnderWay(c)

\* A master that was started listens in the end, unless it is stopped or a plant has
\* lost its gateway: then it may die at every start.
ListensAgain == []<> (master \in {"listening", "stopped"} \/ Orphans # {})

=============================================================================
