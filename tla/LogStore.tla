------------------------------ MODULE LogStore ------------------------------
(***************************************************************************)
(* The path of telemetry from the DNP3 master to the tables the tests      *)
(* read: the master publishes a JSON record per response                   *)
(* (DreamsSOEHandler.cpp, AMQPStringSender.cpp), RabbitMQ queues it, and   *)
(* consumer-dreams.py records it in a MySQL transaction of up to four      *)
(* statements, while the REST server's "before delete" hook of Gateway     *)
(* deletes plants and their logs, statement by statement.                  *)
(*                                                                         *)
(* MySQL's row locks order the statements of the two: the consumer holds   *)
(* what it has written until it commits.  Acknowledgements travel, and are *)
(* lost with the connection; RabbitMQ then delivers again, in order.       *)
(***************************************************************************)
EXTENDS LogSpec, Sequences, FiniteSets

CONSTANTS
  Batches,     \* the sets of fields a response may bring
  MaxSent,     \* bound: messages published
  MaxDrops,    \* bound: plants deleted
  MaxFailures, \* bound: failed statements
  MaxCrashes   \* bound: crashes of the consumer

ASSUME FieldAssumption ==
  /\ Regular \in [Categories -> SUBSET Fields] /\ Batches \subseteq SUBSET Fields
ASSUME BoundAssumption ==
  MaxSent \in Nat /\ MaxDrops \in Nat /\ MaxFailures \in Nat /\ MaxCrashes \in Nat

NoPlant == "no plant"
ASSUME CategoryAssumption == NoPlant \notin Categories

VARIABLES
  category,  \* Plant.plantCategory of each number, or NoPlant
  cleanups,  \* deletes the hook has started and not awaited
  declared,  \* the consumer has declared the queue
  queue,     \* messages in RabbitMQ, the one being processed included
  acks,      \* processed messages whose acknowledgement is on its way
  pc,        \* the consumer's next statement; "idle", or "down"
  txn,       \* what the open transaction has written
  lastId,    \* AUTO_INCREMENT of LogRegistersMeter
  sent,      \* messages published so far
  drops,     \* gateways deleted so far
  failures,  \* statements that failed so far
  crashes    \* crashes so far

tables   == <<current, logs>>
rest     == <<category, cleanups, drops>>
broker   == <<declared, queue, acks>>
consumer == <<pc, txn, lastId>>
faults   == <<failures, crashes>>
vars     == <<tables, rest, broker, consumer, sent, faults>>

Messages == [n : Nat \ {0}, no : PlantNos, vals : SUBSET Fields]
Rows == [id : Nat, n : Nat, no : PlantNos, vals : SUBSET Fields, cat : Categories]
Tables == {"Plant", "LogCurrent", "LogRegistersMeter"}
Open == {"category", "purge", "insert", "commit"}   \* a transaction is open

NoTxn == [row |-> NoRow, cat |-> NoPlant, gone |-> {}, new |-> {}]

LogInit == Init

StoreInit ==
  /\ LogInit
  /\ category \in [PlantNos -> Categories]
  /\ cleanups = {} /\ declared = FALSE
  /\ queue = <<>> /\ acks = <<>>
  /\ pc = "down" /\ txn = NoTxn /\ lastId = 0
  /\ sent = 0 /\ drops = 0 /\ failures = 0 /\ crashes = 0

-----------------------------------------------------------------------------
(* The master and the broker.                                              *)

\* One response becomes one message.  It is published without the mandatory
\* flag: before the queue is declared it vanishes.
Publish ==
  /\ sent < MaxSent
  /\ sent' = sent + 1
  /\ \E no \in PlantNos, vals \in Batches :
       queue' = IF declared
                THEN Append(queue, [n |-> sent + 1, no |-> no, vals |-> vals])
                ELSE queue
  /\ UNCHANGED <<tables, rest, declared, acks, consumer, faults>>

AckArrives ==
  /\ acks # <<>>
  /\ acks' = Tail(acks)
  /\ UNCHANGED <<tables, rest, declared, queue, consumer, sent, faults>>

-----------------------------------------------------------------------------
(* The consumer: one action per statement.                                 *)

Message == Head(queue)

Start ==
  /\ pc = "down" /\ acks = <<>>
  /\ pc' = "idle" /\ declared' = TRUE
  /\ UNCHANGED <<tables, rest, queue, acks, txn, lastId, sent, faults>>

\* INSERT INTO LogCurrent ... ON DUPLICATE KEY UPDATE
Upsert ==
  /\ pc = "idle" /\ queue # <<>>
  /\ txn' = [NoTxn EXCEPT !.row = Merged(current[Message.no], Message.n, Message.vals)]
  /\ pc' = "category"
  /\ UNCHANGED <<tables, rest, broker, lastId, sent, faults>>

\* get_plant_category, then is_deadband.
SelectCategory ==
  LET c == category[Message.no]
  IN  /\ pc = "category" /\ c # NoPlant
      /\ txn' = [txn EXCEPT !.cat = c]
      /\ pc' = IF Deadband(Message.vals, c) THEN "purge" ELSE "insert"
      /\ UNCHANGED <<tables, rest, broker, lastId, sent, faults>>

\* Mutant of Purge: the DELETE starts a transaction of its own.
PurgeFresh ==
  /\ pc = "purge"
  /\ txn' = [NoTxn EXCEPT !.gone = Obsolete(logs, Message.no, txn.cat)]
  /\ pc' = "insert"
  /\ UNCHANGED <<tables, rest, broker, lastId, sent, faults>>

\* build_delete_deadband_sql
Purge ==
  /\ pc = "purge"
  /\ txn' = [txn EXCEPT !.gone = Obsolete(logs, Message.no, txn.cat)]
  /\ pc' = "insert"
  /\ UNCHANGED <<tables, rest, broker, lastId, sent, faults>>

Insert ==
  /\ pc = "insert"
  /\ lastId' = lastId + 1
  /\ txn' = [txn EXCEPT !.new = {[id |-> lastId + 1, n |-> Message.n, no |-> Message.no,
                                  vals |-> Message.vals, cat |-> txn.cat]}]
  /\ pc' = "commit"
  /\ UNCHANGED <<tables, rest, broker, sent, faults>>

\* The message is acknowledged when its block is left.
Done == queue' = Tail(queue) /\ acks' = Append(acks, Message) /\ UNCHANGED declared

\* Mutant of Commit: mydb.commit() is forgotten.
CommitForgotten ==
  /\ pc = "commit"
  /\ txn' = NoTxn /\ pc' = "idle"
  /\ Done
  /\ UNCHANGED <<tables, rest, lastId, sent, faults>>

Commit ==
  /\ pc = "commit"
  /\ current' = [current EXCEPT ![Message.no] = txn.row]
  /\ logs' = (logs \ txn.gone) \cup txn.new
  /\ txn' = NoTxn /\ pc' = "idle"
  /\ Done
  /\ UNCHANGED <<rest, lastId, sent, faults>>

\* Mutant of Raise: message.process(requeue=True).
RaiseRequeue ==
  /\ txn' = NoTxn /\ pc' = "down"
  /\ UNCHANGED <<tables, rest, broker, lastId, sent>>

\* An exception leaves the block: the message is rejected and not requeued,
\* the process ends and the transaction is rolled back.
Raise ==
  /\ txn' = NoTxn /\ pc' = "down"
  /\ Done
  /\ UNCHANGED <<tables, rest, lastId, sent>>

PlantMissing ==
  /\ pc = "category" /\ category[Message.no] = NoPlant
  /\ Raise /\ UNCHANGED faults

-----------------------------------------------------------------------------
(* The REST server.                                                        *)

\* A new session creates a plant, of the category the user chose.
AddPlant ==
  /\ \E no \in PlantNos, c \in Categories :
       /\ category[no] = NoPlant
       /\ category' = [category EXCEPT ![no] = c]
  /\ UNCHANGED <<tables, cleanups, drops, broker, consumer, sent, faults>>

\* The hook starts three deletes for a plant of the gateway.
DropPlant ==
  /\ drops < MaxDrops
  /\ \E no \in PlantNos :
       /\ category[no] # NoPlant
       /\ cleanups' = cleanups \cup (Tables \X {no})
  /\ drops' = drops + 1
  /\ UNCHANGED <<tables, category, broker, consumer, sent, faults>>

\* Mutant of Locked: the upsert commits by itself and keeps no lock.
LockedLogsOnly(table, no) ==
  pc \in Open /\ Message.no = no /\ table = "LogRegistersMeter" /\ txn.gone \cup txn.new # {}

\* What the open transaction has written of a table is locked until it ends.
Locked(table, no) ==
  /\ pc \in Open /\ Message.no = no
  /\ \/ table = "LogCurrent"
     \/ table = "LogRegistersMeter" /\ txn.gone \cup txn.new # {}

Clean ==
  /\ \E no \in PlantNos :
       \/ /\ <<"Plant", no>> \in cleanups
          /\ cleanups' = cleanups \ {<<"Plant", no>>}
          /\ category' = [category EXCEPT ![no] = NoPlant]
          /\ UNCHANGED tables
       \/ /\ <<"LogCurrent", no>> \in cleanups /\ ~Locked("LogCurrent", no)
          /\ cleanups' = cleanups \ {<<"LogCurrent", no>>}
          /\ ClearCurrent(no)
          /\ UNCHANGED category
       \/ /\ <<"LogRegistersMeter", no>> \in cleanups /\ ~Locked("LogRegistersMeter", no)
          /\ cleanups' = cleanups \ {<<"LogRegistersMeter", no>>}
          /\ ClearLogs(no)
          /\ UNCHANGED category
  /\ UNCHANGED <<drops, broker, consumer, sent, faults>>

-----------------------------------------------------------------------------
(* Faults.                                                                 *)

\* Any statement may fail.
StatementFails ==
  /\ pc \in Open \cup {"idle"} /\ queue # <<>>
  /\ failures < MaxFailures /\ failures' = failures + 1
  /\ Raise
  /\ UNCHANGED crashes

\* Mutant of ConsumerCrash: the messages are acknowledged on delivery.
ConsumerCrashAutoAck ==
  /\ pc # "down"
  /\ crashes < MaxCrashes /\ crashes' = crashes + 1
  /\ queue' = IF pc \in Open THEN Tail(queue) ELSE queue
  /\ acks' = <<>> /\ txn' = NoTxn /\ pc' = "down"
  /\ UNCHANGED <<tables, rest, declared, lastId, sent, failures>>

\* The consumer is killed: only the first k acknowledgements under way arrive,
\* and the rest is delivered again.
ConsumerCrash ==
  /\ pc # "down"
  /\ crashes < MaxCrashes /\ crashes' = crashes + 1
  /\ \E k \in 0..Len(acks) : queue' = SubSeq(acks, k + 1, Len(acks)) \o queue
  /\ acks' = <<>> /\ txn' = NoTxn /\ pc' = "down"
  /\ UNCHANGED <<tables, rest, declared, lastId, sent, failures>>

-----------------------------------------------------------------------------

Work == Start \/ Upsert \/ SelectCategory \/ Purge \/ Insert \/ Commit \/ PlantMissing

StoreNext ==
  \/ Publish \/ AckArrives
  \/ Work
  \/ AddPlant \/ DropPlant \/ Clean
  \/ StatementFails \/ ConsumerCrash

StoreSpec == StoreInit /\ [][StoreNext]_vars

\* Docker restarts the consumer, RabbitMQ delivers, MySQL answers.
FairStoreSpec == StoreSpec /\ WF_vars(Work) /\ WF_vars(AckArrives) /\ WF_vars(Clean)

-----------------------------------------------------------------------------

TypeOK ==
  /\ current \in [PlantNos -> [Fields -> Nat]]
  /\ logs \subseteq Rows
  /\ category \in [PlantNos -> Categories \cup {NoPlant}]
  /\ cleanups \subseteq Tables \X PlantNos
  /\ declared \in BOOLEAN
  /\ queue \in Seq(Messages) /\ acks \in Seq(Messages)
  /\ pc \in Open \cup {"idle", "down"}
  /\ txn \in [row : [Fields -> Nat], cat : Categories \cup {NoPlant},
              gone : SUBSET Rows, new : SUBSET Rows]
  /\ lastId \in Nat /\ sent \in Nat /\ drops \in Nat
  /\ failures \in Nat /\ crashes \in Nat

\* Recording is atomic, whatever crashes, is delivered twice or is deleted.
LogSpecHolds == Spec

\* Test 4-1 counts complete records: the consumer removes a record only when it
\* records for the same plant, and only one that is incomplete for the category
\* it has looked up; all others go with the plant.
CompleteRecordsKept ==
  [][\A r \in logs \ logs' :
       \/ <<"LogRegistersMeter", r.no>> \in cleanups \ cleanups'
       \/ r.no = Message.no /\ Deadband(r.vals, txn.cat)]_vars

\* No message blocks the queue, not even one whose plant is gone: it is rejected
\* without being requeued.
Pending(n) == \E m \in {queue[i] : i \in DOMAIN queue} : m.n = n

QueueDrains == \A n \in 1..MaxSent : Pending(n) ~> ~Pending(n)

\* Crashes of the consumer lose nothing: a queued message of a plant that stays
\* comes to be shown, unless a statement fails.
Shown(m) == \A f \in m.vals : current[m.no][f] >= m.n

QueuedIsShown ==
  \A m \in [n : 1..MaxSent, no : PlantNos, vals : Batches] :
    m \in {queue[i] : i \in DOMAIN queue} ~> Shown(m) \/ drops > 0 \/ failures > 0

\* A message leaves the queue and the acknowledgements under way only when it is
\* shown: it is acknowledged after the commit, so a crash between the two, or
\* before the acknowledgement arrives, delivers again and never loses.
Held == {queue[i] : i \in DOMAIN queue} \cup {acks[i] : i \in DOMAIN acks}

HeldUntilShown ==
  [][\A m \in Held \ Held' : Shown(m)' \/ drops' > 0 \/ failures' > 0]_vars

=============================================================================
