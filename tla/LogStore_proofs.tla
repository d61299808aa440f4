--------------------------- MODULE LogStore_proofs --------------------------
(***************************************************************************)
(* Proofs about LogStore, for any plants, fields, categories and bounds:   *)
(* the log tables keep what LogSpec promises, and the consumer's four      *)
(* statements, with the locks they take, implement LogSpec.                *)
(***************************************************************************)
EXTENDS LogStore, SequenceTheorems, TLAPS

-----------------------------------------------------------------------------
(* What LogSpec promises.                                                  *)

\* Every row's id is its own, and its plant and category are known.
SpecInv ==
  /\ logs \subseteq Rows
  /\ \A r, s \in logs : r.id = s.id => r = s
  /\ OneDeadband
  /\ LastRecordShown
  /\ current \in [PlantNos -> [Fields -> Nat]]

\* A row that the consumer inserts.
TypedNext ==
  \/ \E row \in logs' \cap Rows : Record(row)
  \/ \E no \in PlantNos : ClearCurrent(no) \/ ClearLogs(no)

LEMMA SpecStep == SpecInv /\ (TypedNext \/ UNCHANGED tables) => SpecInv'
<1> SUFFICES ASSUME SpecInv, TypedNext \/ UNCHANGED tables PROVE SpecInv'
  OBVIOUS
<1>1. ASSUME NEW row \in Rows, Record(row) PROVE SpecInv'
  <2>1. /\ logs' \subseteq logs \cup {row} /\ row \in logs'
        /\ \A r \in logs : r.id < row.id
        /\ \A r \in logs : r.id \in Nat /\ r.no \in PlantNos
        /\ row.id \in Nat /\ row.no \in PlantNos /\ row.n \in Nat
    BY <1>1 DEF Record, SpecInv, Rows
  <2>2. logs' \subseteq Rows /\ \A r, s \in logs' : r.id = s.id => r = s
    BY <2>1 DEF SpecInv
  <2>3. OneDeadband'
    <3> SUFFICES ASSUME NEW r \in logs', NEW s \in logs', r.no = s.no, r.cat = s.cat,
                        Deadband(r.vals, r.cat), Deadband(s.vals, s.cat)
                 PROVE  r = s
      BY DEF OneDeadband
    <3>1. CASE r \in logs /\ s \in logs
      BY <3>1 DEF SpecInv, OneDeadband
    <3>2. CASE r = row /\ s # row
      <4>1. s \in logs \ Obsolete(logs, row.no, row.cat)
        BY <1>1, <3>2 DEF Record
      <4>2. QED
        BY <3>2, <4>1 DEF Obsolete
    <3>3. CASE s = row /\ r # row
      <4>1. r \in logs \ Obsolete(logs, row.no, row.cat)
        BY <1>1, <3>3 DEF Record
      <4>2. QED
        BY <3>3, <4>1 DEF Obsolete
    <3>4. QED
      BY <2>1, <3>1, <3>2, <3>3
  <2>4. current' \in [PlantNos -> [Fields -> Nat]]
    BY <1>1, <2>1 DEF Record, SpecInv, Merged
  <2>5. LastRecordShown'
    <3> SUFFICES ASSUME NEW r \in logs', \A s \in logs' : s.no = r.no => s.id <= r.id,
                        current'[r.no] # NoRow, NEW f \in r.vals
                 PROVE  current'[r.no][f] = r.n
      BY DEF LastRecordShown
    <3>1. CASE r = row
      <4>1. current'[row.no] = Merged(current[row.no], row.n, row.vals)
        BY <1>1, <2>1 DEF Record, SpecInv
      <4>2. f \in Fields
        BY <3>1 DEF Rows
      <4>3. QED
        BY <3>1, <4>1, <4>2 DEF Merged
    <3>2. CASE r # row
      <4>1. r \in logs /\ r.no # row.no
        BY <2>1, <3>2
      <4>2. current'[r.no] = current[r.no]
        BY <1>1, <2>1, <4>1 DEF Record, SpecInv
      <4>3. \A s \in logs : s.no = r.no => s \in logs'
        BY <1>1, <4>1 DEF Record, Obsolete
      <4>4. QED
        BY <4>1, <4>2, <4>3 DEF SpecInv, LastRecordShown
    <3>3. QED
      BY <3>1, <3>2
  <2>6. QED
    BY <2>2, <2>3, <2>4, <2>5 DEF SpecInv
<1>2. ASSUME NEW no \in PlantNos, ClearCurrent(no) PROVE SpecInv'
  BY <1>2 DEF ClearCurrent, SpecInv, OneDeadband, LastRecordShown, NoRow
<1>3. ASSUME NEW no \in PlantNos, ClearLogs(no) PROVE SpecInv'
  <2>1. logs' \subseteq logs /\ current' = current
        /\ \A r \in logs', s \in logs : s.no = r.no => s \in logs'
    BY <1>3 DEF ClearLogs
  <2>2. LastRecordShown'
    BY <2>1 DEF SpecInv, LastRecordShown
  <2>3. QED
    BY <2>1, <2>2 DEF SpecInv, OneDeadband
<1>4. CASE UNCHANGED tables
  BY <1>4 DEF tables, SpecInv, OneDeadband, LastRecordShown
<1>5. QED
  BY <1>1, <1>2, <1>3, <1>4 DEF TypedNext

LEMMA SpecInit == Init => SpecInv
  BY DEF Init, SpecInv, OneDeadband, LastRecordShown, NoRow

-----------------------------------------------------------------------------
(* The consumer implements it.                                             *)

Busy == pc \in Open => queue # <<>>

\* What the open transaction has written so far, in terms of the committed
\* tables: the locks keep it true while other statements run.
TxnInv ==
  /\ pc \in {"idle", "down"} => txn = NoTxn
  /\ pc \in Open => txn.row = Merged(current[Message.no], Message.n, Message.vals)
  /\ pc \in {"category", "purge"} => txn.gone = {}
  /\ pc \in {"category", "purge", "insert"} => txn.new = {}
  /\ pc = "purge" => Deadband(Message.vals, txn.cat)
  /\ pc \in {"purge", "insert", "commit"} => txn.cat \in Categories
  /\ pc \in {"insert", "commit"} =>
       txn.gone = IF Deadband(Message.vals, txn.cat)
                  THEN Obsolete(logs, Message.no, txn.cat) ELSE {}
  /\ pc = "commit" => txn.new = {[id |-> lastId, n |-> Message.n, no |-> Message.no,
                                  vals |-> Message.vals, cat |-> txn.cat]}
  /\ \A r \in logs : r.id <= lastId /\ (pc = "commit" => r.id < lastId)

StoreInv == TypeOK /\ Busy /\ TxnInv

TxnType == [row : [Fields -> Nat], cat : Categories \cup {NoPlant},
            gone : SUBSET Rows, new : SUBSET Rows]

LEMMA InitInv == StoreInit => StoreInv
<1> SUFFICES ASSUME StoreInit PROVE StoreInv
  OBVIOUS
<1>1. TypeOK
  <2>1. NoTxn \in TxnType /\ NoRow \in [Fields -> Nat]
    BY DEF NoTxn, NoRow, TxnType
  <2>2. category \in [PlantNos -> Categories \cup {NoPlant}]
    BY DEF StoreInit
  <2>3. current \in [PlantNos -> [Fields -> Nat]] /\ logs \subseteq Rows
    BY <2>1 DEF StoreInit, LogInit, Init
  <2>4. cleanups \subseteq Tables \X PlantNos /\ declared \in BOOLEAN
    BY DEF StoreInit
  <2>5. queue \in Seq(Messages) /\ acks \in Seq(Messages) /\ txn \in TxnType
    BY <2>1 DEF StoreInit
  <2>6. /\ pc \in Open \cup {"idle", "down"} /\ lastId \in Nat /\ sent \in Nat
        /\ drops \in Nat /\ failures \in Nat /\ crashes \in Nat
    BY DEF StoreInit
  <2>7. QED
    BY <2>2, <2>3, <2>4, <2>5, <2>6 DEF TypeOK, TxnType
<1>2. Busy /\ TxnInv
  BY DEF StoreInit, LogInit, Init, Busy, TxnInv, Open
<1>3. QED
  BY <1>1, <1>2 DEF StoreInv

LEMMA TypeStep == StoreInv /\ [StoreNext]_vars => TypeOK' /\ Busy'
<1> SUFFICES ASSUME StoreInv, [StoreNext]_vars PROVE TypeOK' /\ Busy'
  OBVIOUS
<1>0. TypeOK /\ Busy /\ TxnInv
  BY DEF StoreInv
<1>1. queue # <<>> => Message \in Messages
  BY <1>0 DEF TypeOK, Message
<1>2. CASE Publish
  <2>1. PICK no \in PlantNos, vals \in Batches :
          queue' = IF declared
                   THEN Append(queue, [n |-> sent + 1, no |-> no, vals |-> vals]) ELSE queue
    BY <1>2 DEF Publish
  <2>2. [n |-> sent + 1, no |-> no, vals |-> vals] \in Messages
    BY <1>0, FieldAssumption DEF TypeOK, Messages
  <2>3. queue' \in Seq(Messages) /\ (queue # <<>> => queue' # <<>>)
    BY <1>0, <2>1, <2>2 DEF TypeOK
  <2>4. QED
    BY <1>0, <1>2, <2>3 DEF Publish, TypeOK, Busy, tables, rest, consumer, faults
<1>3. CASE AckArrives
  BY <1>0, <1>3 DEF AckArrives, TypeOK, Busy, tables, rest, consumer, faults
<1>4. CASE Start
  BY <1>0, <1>4 DEF Start, TypeOK, Busy, tables, rest, faults, Open
<1>5. CASE Upsert
  <2>1. Merged(current[Message.no], Message.n, Message.vals) \in [Fields -> Nat]
    BY <1>0, <1>1, <1>5 DEF Upsert, TypeOK, Messages, Merged
  <2>2. txn' \in TxnType
    BY <1>5, <2>1 DEF Upsert, NoTxn, TxnType
  <2>3. QED
    BY <1>0, <1>5, <2>2 DEF Upsert, TypeOK, TxnType, Busy, tables, rest, broker, faults, Open
<1>6. CASE SelectCategory
  <2>1. category[Message.no] \in Categories
    BY <1>0, <1>1, <1>6 DEF SelectCategory, TypeOK, Messages, Busy, Open
  <2>2. txn' \in TxnType
    BY <1>0, <1>6, <2>1 DEF SelectCategory, TypeOK, TxnType
  <2>3. QED
    BY <1>0, <1>6, <2>2 DEF SelectCategory, TypeOK, TxnType, Busy, tables, rest, broker,
       faults, Open
<1>7. CASE Purge
  BY <1>0, <1>1, <1>7 DEF Purge, TypeOK, Busy, tables, rest, broker, faults, Open, Obsolete
<1>8. CASE Insert
  <2>1. [id |-> lastId + 1, n |-> Message.n, no |-> Message.no,
         vals |-> Message.vals, cat |-> txn.cat] \in Rows
    BY <1>0, <1>1, <1>8 DEF Insert, TypeOK, TxnInv, Busy, Open, Messages, Rows
  <2>2. txn' \in TxnType
    BY <1>0, <1>8, <2>1 DEF Insert, TypeOK, TxnType
  <2>3. QED
    <3>1. lastId' \in Nat /\ pc' = "commit" /\ pc = "insert"
      BY <1>0, <1>8 DEF Insert, TypeOK
    <3>2. UNCHANGED <<tables, rest, broker, sent, faults>>
      BY <1>8 DEF Insert
    <3>3. QED
      BY <1>0, <2>2, <3>1, <3>2 DEF TypeOK, TxnType, Busy, tables, rest, broker, faults, Open
<1>9. CASE Commit
  BY <1>0, <1>1, <1>9 DEF Commit, Done, TypeOK, Busy, rest, faults, Open, Messages, NoTxn, NoRow
<1>10. ASSUME Raise, UNCHANGED crashes, failures' \in Nat, queue # <<>> PROVE TypeOK' /\ Busy'
  BY <1>0, <1>10 DEF Raise, Done, TypeOK, Busy, tables, rest, Open, NoTxn, NoRow, Message
<1>11. CASE PlantMissing
  BY <1>0, <1>10, <1>11 DEF PlantMissing, faults, TypeOK, Busy, Open
<1>12. CASE StatementFails
  BY <1>0, <1>10, <1>12 DEF StatementFails, TypeOK
<1>13. CASE AddPlant
  BY <1>0, <1>13 DEF AddPlant, TypeOK, Busy, tables, broker, consumer, faults
<1>14. CASE DropPlant
  BY <1>0, <1>14 DEF DropPlant, TypeOK, Busy, tables, broker, consumer, faults
<1>15. CASE Clean
  <2>1. /\ UNCHANGED <<drops, broker, consumer, sent, faults>>
        /\ cleanups' \subseteq cleanups
    BY <1>15 DEF Clean
  <2>2. /\ category' \in [PlantNos -> Categories \cup {NoPlant}]
        /\ current' \in [PlantNos -> [Fields -> Nat]] /\ logs' \subseteq logs
    <3>1. CASE \E no \in PlantNos : category' = [category EXCEPT ![no] = NoPlant] /\ UNCHANGED tables
      BY <1>0, <3>1 DEF TypeOK, tables
    <3>2. CASE \E no \in PlantNos : ClearCurrent(no) /\ UNCHANGED category
      BY <1>0, <3>2 DEF TypeOK, ClearCurrent, NoRow
    <3>3. CASE \E no \in PlantNos : ClearLogs(no) /\ UNCHANGED category
      BY <1>0, <3>3 DEF TypeOK, ClearLogs
    <3>4. QED
      BY <1>15, <3>1, <3>2, <3>3 DEF Clean
  <2>3. QED
    BY <1>0, <2>1, <2>2 DEF TypeOK, Busy, broker, consumer, faults
<1>16. CASE ConsumerCrash
  <2>1. /\ acks' = <<>> /\ txn' = NoTxn /\ pc' = "down" /\ crashes' = crashes + 1
        /\ UNCHANGED <<tables, rest, declared, lastId, sent, failures>>
    BY <1>16 DEF ConsumerCrash
  <2>2. queue' \in Seq(Messages)
    <3>1. PICK k \in 0..Len(acks) : queue' = SubSeq(acks, k + 1, Len(acks)) \o queue
      BY <1>16 DEF ConsumerCrash
    <3>2. SubSeq(acks, k + 1, Len(acks)) \in Seq(Messages)
      BY <1>0 DEF TypeOK
    <3>3. QED
      BY <1>0, <3>1, <3>2 DEF TypeOK
  <2>3. QED
    BY <1>0, <2>1, <2>2 DEF TypeOK, Busy, tables, rest, Open, NoTxn, NoRow
<1>17. CASE UNCHANGED vars
  BY <1>0, <1>17 DEF vars, TypeOK, Busy, tables, rest, broker, consumer, faults, Message
<1>18. QED
  BY <1>2, <1>3, <1>4, <1>5, <1>6, <1>7, <1>8, <1>9, <1>11, <1>12, <1>13, <1>14, <1>15,
     <1>16, <1>17 DEF StoreNext, Work

\* Steps that leave the consumer and both tables alone.
LEMMA TxnSame ==
  ASSUME StoreInv, UNCHANGED <<tables, consumer>>, pc \in Open => Message' = Message
  PROVE  TxnInv'
<1>1. UNCHANGED <<current, logs, pc, txn, lastId>>
  BY DEF tables, consumer
<1>2. CASE pc \in Open
  BY <1>1, <1>2 DEF StoreInv, TxnInv, Open
<1>3. CASE pc \notin Open
  BY <1>1, <1>3 DEF StoreInv, TxnInv, Open
<1>4. QED
  BY <1>2, <1>3

\* Steps after which no transaction is open.
LEMMA TxnClosed ==
  ASSUME StoreInv, pc' \in {"idle", "down"}, txn' = NoTxn, UNCHANGED lastId,
         \A r \in logs' : r.id <= lastId
  PROVE  TxnInv'
  BY DEF TxnInv, Open

LEMMA TxnStep == StoreInv /\ [StoreNext]_vars => TxnInv'
<1> SUFFICES ASSUME StoreInv, [StoreNext]_vars PROVE TxnInv'
  OBVIOUS
<1>0. TypeOK /\ Busy /\ TxnInv
  BY DEF StoreInv
<1>1. pc \in Open => queue # <<>> /\ Message \in Messages
  BY <1>0 DEF TypeOK, Busy, Message
<1>2. \A r \in logs : r.id <= lastId /\ r.id \in Nat /\ lastId \in Nat
  BY <1>0 DEF TxnInv, TypeOK, Rows
<1>3. CASE Publish
  <2>1. pc \in Open => Head(queue') = Head(queue)
    BY <1>0, <1>3 DEF Publish, TypeOK, Busy
  <2>2. QED
    BY <1>3, <2>1, TxnSame DEF Publish, Message
<1>4. CASE AckArrives
  BY <1>4, TxnSame DEF AckArrives, Message
<1>5. CASE Start
  <2>1. txn' = NoTxn /\ pc' = "idle" /\ UNCHANGED <<lastId, logs>>
    BY <1>0, <1>5 DEF Start, TxnInv, tables
  <2>2. QED
    BY <1>2, <2>1, TxnClosed
<1>6. CASE Upsert
  <2>1. /\ pc' = "category" /\ UNCHANGED <<current, logs, lastId, queue>>
        /\ txn' = [NoTxn EXCEPT !.row = Merged(current[Message.no], Message.n, Message.vals)]
    BY <1>6 DEF Upsert, tables, broker
  <2>2. QED
    BY <1>2, <2>1 DEF TxnInv, NoTxn, Message, Open
<1>7. CASE SelectCategory
  <2>1. /\ pc = "category" /\ UNCHANGED <<current, logs, lastId, queue>>
        /\ txn' = [txn EXCEPT !.cat = category[Message.no]]
        /\ category[Message.no] \in Categories
        /\ pc' = IF Deadband(Message.vals, category[Message.no]) THEN "purge" ELSE "insert"
    BY <1>0, <1>1, <1>7 DEF SelectCategory, tables, broker, TypeOK, Messages, Open
  <2>2. /\ txn'.row = txn.row /\ txn'.gone = {} /\ txn'.new = {}
        /\ txn'.cat = category[Message.no]
    BY <1>0, <2>1 DEF TypeOK, TxnInv
  <2>3. txn'.row = Merged(current[Message.no], Message.n, Message.vals)
    BY <1>0, <2>1, <2>2 DEF TxnInv, Open
  <2>4. Message' = Message
    BY <2>1 DEF Message
  <2>5. CASE Deadband(Message.vals, category[Message.no])
    BY <1>2, <2>1, <2>2, <2>3, <2>4, <2>5 DEF TxnInv, Open
  <2>6. CASE ~Deadband(Message.vals, category[Message.no])
    BY <1>2, <2>1, <2>2, <2>3, <2>4, <2>6 DEF TxnInv, Open
  <2>7. QED
    BY <2>5, <2>6
<1>8. CASE Purge
  <2>1. /\ pc = "purge" /\ pc' = "insert" /\ UNCHANGED <<current, logs, lastId, queue>>
        /\ txn' = [txn EXCEPT !.gone = Obsolete(logs, Message.no, txn.cat)]
    BY <1>8 DEF Purge, tables, broker
  <2>2. /\ txn'.row = txn.row /\ txn'.new = txn.new /\ txn'.cat = txn.cat
        /\ txn'.gone = Obsolete(logs, Message.no, txn.cat)
    BY <1>0, <2>1 DEF TypeOK
  <2>3. Message' = Message
    BY <2>1 DEF Message
  <2>4. QED
    BY <1>0, <1>2, <2>1, <2>2, <2>3 DEF TxnInv, Open
<1>9. CASE Insert
  <2>1. /\ pc = "insert" /\ pc' = "commit" /\ lastId' = lastId + 1
        /\ UNCHANGED <<current, logs, queue>>
        /\ txn' = [txn EXCEPT !.new =
                     {[id |-> lastId + 1, n |-> Message.n, no |-> Message.no,
                       vals |-> Message.vals, cat |-> txn.cat]}]
    BY <1>9 DEF Insert, tables, broker
  <2>2. /\ txn'.row = txn.row /\ txn'.gone = txn.gone /\ txn'.cat = txn.cat
        /\ txn'.new = {[id |-> lastId', n |-> Message.n, no |-> Message.no,
                        vals |-> Message.vals, cat |-> txn.cat]}
    BY <1>0, <2>1 DEF TypeOK
  <2>3. Message' = Message
    BY <2>1 DEF Message
  <2>4. QED
    BY <1>0, <1>2, <2>1, <2>2, <2>3 DEF TxnInv, Open
<1>10. CASE Commit
  <2>1. /\ txn' = NoTxn /\ pc' = "idle" /\ UNCHANGED lastId /\ pc = "commit"
        /\ logs' = (logs \ txn.gone) \cup txn.new
    BY <1>10 DEF Commit
  <2>2. \A r \in txn.new : r.id <= lastId
    BY <1>0, <2>1 DEF TxnInv, TypeOK
  <2>3. QED
    BY <1>2, <2>1, <2>2, TxnClosed
<1>11. CASE PlantMissing \/ StatementFails
  BY <1>2, <1>11, TxnClosed DEF PlantMissing, StatementFails, Raise, tables
<1>12. CASE ConsumerCrash
  BY <1>2, <1>12, TxnClosed DEF ConsumerCrash, tables
<1>13. CASE AddPlant \/ DropPlant
  BY <1>13, TxnSame DEF AddPlant, DropPlant, tables, consumer, broker, Message
<1>14. CASE Clean
  <2>1. UNCHANGED <<pc, txn, lastId, queue>> /\ Message' = Message
    BY <1>14 DEF Clean, consumer, broker, Message
  <2>2. CASE UNCHANGED tables
    BY <2>1, <2>2, TxnSame DEF consumer
  <2>3. ASSUME NEW no \in PlantNos, ~Locked("LogCurrent", no), ClearCurrent(no) PROVE TxnInv'
    <3>1. UNCHANGED logs
      BY <2>3 DEF ClearCurrent
    <3>2. pc \in Open => UNCHANGED current[Message.no]
      <4> SUFFICES ASSUME pc \in Open PROVE UNCHANGED current[Message.no]
        OBVIOUS
      <4>1. Message.no # no
        BY <2>3 DEF Locked
      <4>2. current' = [current EXCEPT ![no] = NoRow]
        BY <2>3 DEF ClearCurrent
      <4>3. current'[Message.no] = current[Message.no]
        BY <1>0, <1>1, <4>1, <4>2 DEF TypeOK, Messages
      <4>4. QED
        BY <2>1, <4>3
    <3>3. QED
      BY <1>0, <2>1, <3>1, <3>2 DEF TxnInv, Open
  <2>4. ASSUME NEW no \in PlantNos, ~Locked("LogRegistersMeter", no), ClearLogs(no) PROVE TxnInv'
    <3>1. UNCHANGED current /\ logs' = {r \in logs : r.no # no}
      BY <2>4 DEF ClearLogs
    <3>2. ASSUME pc \in {"insert", "commit"}, Deadband(Message.vals, txn.cat)
          PROVE  Obsolete(logs', Message.no, txn.cat) = Obsolete(logs, Message.no, txn.cat)
      <4>1. CASE Message.no # no
        BY <3>1, <4>1 DEF Obsolete
      <4>2. CASE Message.no = no
        <5>1. txn.gone = {}
          BY <2>4, <3>2, <4>2 DEF Locked, Open
        <5>2. Obsolete(logs, Message.no, txn.cat) = {}
          BY <1>0, <3>2, <5>1 DEF TxnInv
        <5>3. QED
          BY <3>1, <5>2 DEF Obsolete
      <4>3. QED
        BY <4>1, <4>2
    <3>3. QED
      BY <1>0, <2>1, <3>1, <3>2 DEF TxnInv, Open
  <2>5. QED
    BY <1>14, <2>2, <2>3, <2>4 DEF Clean
<1>15. CASE UNCHANGED vars
  BY <1>15, TxnSame DEF vars, tables, consumer, broker, Message
<1>16. QED
  BY <1>3, <1>4, <1>5, <1>6, <1>7, <1>8, <1>9, <1>10, <1>11, <1>12, <1>13, <1>14, <1>15
  DEF StoreNext, Work

LEMMA StoreInvariant == StoreSpec => []StoreInv
<1>1. StoreInv /\ [StoreNext]_vars => StoreInv'
  BY TypeStep, TxnStep DEF StoreInv
<1>2. QED
  BY <1>1, InitInv, PTL DEF StoreSpec

\* Every step of the consumer, the broker and the REST server is a step of
\* LogSpec or leaves the tables alone: a commit records one message.
LEMMA StepRefines == StoreInv /\ [StoreNext]_vars => TypedNext \/ UNCHANGED tables
<1> SUFFICES ASSUME StoreInv, [StoreNext]_vars, ~UNCHANGED tables PROVE TypedNext
  OBVIOUS
<1>1. TypeOK /\ Busy /\ TxnInv
  BY DEF StoreInv
<1>2. CASE Commit
  <2> DEFINE row == [id |-> lastId, n |-> Message.n, no |-> Message.no,
                     vals |-> Message.vals, cat |-> txn.cat]
  <2>1. pc = "commit" /\ pc \in Open
    BY <1>2 DEF Commit, Open
  <2>2. Message \in Messages
    BY <1>1, <2>1 DEF TypeOK, Busy, Message
  <2>3. row \in Rows
    BY <1>1, <2>1, <2>2 DEF TypeOK, TxnInv, Messages, Rows
  <2>4. /\ txn.row = Merged(current[row.no], row.n, row.vals) /\ txn.new = {row}
        /\ txn.gone = IF Deadband(row.vals, row.cat)
                      THEN Obsolete(logs, row.no, row.cat) ELSE {}
    BY <1>1, <2>1 DEF TxnInv
  <2>5. \A r \in logs : r.id < row.id
    BY <1>1, <2>1 DEF TxnInv
  <2>6. row \notin logs
    BY <2>3, <2>5 DEF Rows
  <2>7. current' = [current EXCEPT ![row.no] = txn.row] /\ logs' = (logs \ txn.gone) \cup txn.new
    BY <1>2 DEF Commit
  <2>8. current' = [current EXCEPT ![row.no] = Merged(@, row.n, row.vals)]
    BY <2>4, <2>7
  <2>9. row \in logs' /\ logs' = {row} \cup
          IF Deadband(row.vals, row.cat) THEN logs \ Obsolete(logs, row.no, row.cat) ELSE logs
    BY <2>4, <2>7
  <2>10. Record(row)
    BY <2>5, <2>6, <2>8, <2>9 DEF Record
  <2>11. QED
    BY <2>3, <2>9, <2>10 DEF TypedNext
<1>3. CASE Clean
  BY <1>3 DEF Clean, TypedNext
<1>4. QED
  BY <1>2, <1>3 DEF StoreNext, Work, vars, Publish, AckArrives, Start, Upsert, SelectCategory,
     Purge, Insert, PlantMissing, StatementFails, Raise, AddPlant, DropPlant, ConsumerCrash

LEMMA LogInvariant == StoreSpec => [](StoreInv /\ SpecInv)
<1>1. StoreInit => SpecInv
  BY SpecInit DEF StoreInit, LogInit
<1>2. StoreInv /\ SpecInv /\ [StoreNext]_vars => SpecInv'
  BY SpecStep, StepRefines
<1>3. QED
  BY <1>1, <1>2, StoreInvariant, PTL DEF StoreSpec

-----------------------------------------------------------------------------
(* No message is lost.                                                     *)

Ascending(s) == \A i, j \in DOMAIN s : i < j => s[i].n < s[j].n
Precedes(s, t) == \A i \in DOMAIN s, j \in DOMAIN t : s[i].n < t[j].n
Published(s) == \A i \in DOMAIN s : s[i].n <= sent

\* Deliveries follow publication, also after a crash: no message that is
\* processed is older than one whose acknowledgement is under way.
Ordered ==
  /\ Ascending(acks) /\ Ascending(queue) /\ Precedes(acks, queue)
  /\ Published(acks) /\ Published(queue)

Acked == {acks[i] : i \in DOMAIN acks}

\* Without a delete every plant has its category; without a failure either,
\* what has been acknowledged is shown.
AcksShown ==
  /\ drops = 0 => cleanups = {} /\ \A no \in PlantNos : category[no] # NoPlant
  /\ drops = 0 /\ failures = 0 => \A m \in Acked : Shown(m)

DeliveryInv == Ordered /\ AcksShown

\* What taking the first message, adding one and putting back acknowledged ones
\* do to the order.
LEMMA TailIndex ==
  ASSUME NEW s \in Seq(Messages), s # <<>>
  PROVE  /\ Tail(s) \in Seq(Messages) /\ Len(Tail(s)) = Len(s) - 1
         /\ \A i \in DOMAIN Tail(s) : i + 1 \in DOMAIN s /\ Tail(s)[i] = s[i + 1]
         /\ 1 \in DOMAIN s /\ Head(s) = s[1] /\ Head(s) \in Messages
  OBVIOUS

LEMMA AppendIndex ==
  ASSUME NEW s \in Seq(Messages), NEW m \in Messages
  PROVE  /\ Append(s, m) \in Seq(Messages)
         /\ DOMAIN Append(s, m) = DOMAIN s \cup {Len(s) + 1} /\ Append(s, m)[Len(s) + 1] = m
         /\ \A i \in DOMAIN s : Append(s, m)[i] = s[i] /\ i < Len(s) + 1
  OBVIOUS

LEMMA ElementType ==
  ASSUME NEW s \in Seq(Messages), NEW i \in DOMAIN s
  PROVE  s[i] \in Messages /\ s[i].n \in Nat /\ s[i].n > 0 /\ s[i].no \in PlantNos
         /\ s[i].vals \subseteq Fields /\ i \in Nat
<1>1. s[i] \in Messages /\ i \in Nat
  OBVIOUS
<1>2. QED
  BY <1>1 DEF Messages

LEMMA ConcatIndex ==
  ASSUME NEW s \in Seq(Messages), NEW t \in Seq(Messages)
  PROVE  /\ s \o t \in Seq(Messages) /\ DOMAIN (s \o t) = 1..(Len(s) + Len(t))
         /\ \A i \in 1..Len(s) : (s \o t)[i] = s[i]
         /\ \A i \in 1..(Len(s) + Len(t)) :
              i > Len(s) => (s \o t)[i] = t[i - Len(s)] /\ i - Len(s) \in DOMAIN t
<1>1. s \o t \in Seq(Messages) /\ Len(s \o t) = Len(s) + Len(t)
  OBVIOUS
<1>2. DOMAIN (s \o t) = 1..(Len(s) + Len(t))
  BY <1>1
<1>3. QED
  BY <1>1, <1>2

LEMMA OrderPublish == StoreInv /\ Ordered /\ Publish => Ordered'
<1> SUFFICES ASSUME StoreInv, Ordered, Publish PROVE Ordered'
  OBVIOUS
<1>1. queue \in Seq(Messages) /\ acks \in Seq(Messages) /\ sent \in Nat
  BY DEF StoreInv, TypeOK
<1>2. sent' = sent + 1 /\ acks' = acks
  BY DEF Publish
<1>3. Published(acks)' /\ Ascending(acks)'
  BY <1>1, <1>2, ElementType DEF Ordered, Published, Ascending
<1>4. CASE queue' = queue
  BY <1>1, <1>2, <1>3, <1>4, ElementType DEF Ordered, Published, Ascending, Precedes
<1>5. ASSUME NEW m \in Messages, m.n = sent + 1, queue' = Append(queue, m)
      PROVE  Ordered'
  <2>1. /\ DOMAIN queue' = DOMAIN queue \cup {Len(queue) + 1} /\ queue'[Len(queue) + 1] = m
        /\ \A i \in DOMAIN queue : queue'[i] = queue[i] /\ i < Len(queue) + 1
    BY <1>1, <1>5, AppendIndex
  <2>2. \A i \in DOMAIN queue : queue[i].n \in Nat /\ queue[i].n <= sent /\ i \in Nat
    BY <1>1, ElementType DEF Ordered, Published
  <2>3. \A i \in DOMAIN acks : acks[i].n \in Nat /\ acks[i].n <= sent
    BY <1>1, ElementType DEF Ordered, Published
  <2>4. Published(queue)'
    BY <1>1, <1>2, <1>5, <2>1, <2>2 DEF Published
  <2>5. Ascending(queue)'
    BY <1>1, <1>5, <2>1, <2>2 DEF Ordered, Ascending
  <2>6. Precedes(acks, queue)'
    BY <1>1, <1>2, <1>5, <2>1, <2>3 DEF Ordered, Precedes
  <2>7. QED
    BY <1>3, <2>4, <2>5, <2>6 DEF Ordered
<1>6. QED
  <2>1. PICK no \in PlantNos, vals \in Batches :
          queue' = IF declared
                   THEN Append(queue, [n |-> sent + 1, no |-> no, vals |-> vals]) ELSE queue
    BY DEF Publish
  <2>2. [n |-> sent + 1, no |-> no, vals |-> vals] \in Messages
    BY <1>1, FieldAssumption DEF Messages
  <2>3. QED
    BY <1>4, <1>5, <2>1, <2>2

LEMMA OrderDone ==
  ASSUME StoreInv, Ordered, queue # <<>>, Done, UNCHANGED sent
  PROVE  /\ Ordered' /\ Message \in Messages
         /\ \A i \in DOMAIN acks' : acks'[i] = Message \/ \E j \in DOMAIN acks : acks'[i] = acks[j]
         /\ \A j \in DOMAIN acks : acks[j].n < Message.n
<1>1. queue \in Seq(Messages) /\ acks \in Seq(Messages) /\ sent \in Nat
  BY DEF StoreInv, TypeOK
<1>2. /\ Tail(queue) \in Seq(Messages) /\ queue' = Tail(queue)
      /\ \A i \in DOMAIN queue' : i + 1 \in DOMAIN queue /\ queue'[i] = queue[i + 1] /\ i \in Nat
                                  /\ i >= 1
      /\ 1 \in DOMAIN queue /\ Message = queue[1] /\ Message \in Messages
  BY <1>1, TailIndex DEF Done, Message
<1>3. /\ DOMAIN acks' = DOMAIN acks \cup {Len(acks) + 1} /\ acks'[Len(acks) + 1] = Message
      /\ \A i \in DOMAIN acks : acks'[i] = acks[i] /\ i < Len(acks) + 1
  BY <1>1, <1>2, AppendIndex DEF Done
<1>4. \A j \in DOMAIN acks : acks[j].n < Message.n
  BY <1>2 DEF Ordered, Precedes
<1>5. \A i \in DOMAIN queue' : Message.n < queue'[i].n
  BY <1>2 DEF Ordered, Ascending
<1>6. \A j \in DOMAIN acks : j \in Nat
  BY <1>1, ElementType
<1>7. Ascending(acks)'
  BY <1>1, <1>3, <1>4, <1>6 DEF Ordered, Ascending
<1>8. Ascending(queue)'
  <2> SUFFICES ASSUME NEW i \in DOMAIN queue', NEW j \in DOMAIN queue', i < j
               PROVE  queue'[i].n < queue'[j].n
    BY DEF Ascending
  <2>1. i + 1 < j + 1
    BY <1>2
  <2>2. QED
    BY <1>2, <2>1 DEF Ordered, Ascending
<1>9. Precedes(acks, queue)'
  <2> SUFFICES ASSUME NEW i \in DOMAIN acks', NEW j \in DOMAIN queue'
               PROVE  acks'[i].n < queue'[j].n
    BY DEF Precedes
  <2>1. CASE i = Len(acks) + 1
    BY <1>3, <1>5, <2>1
  <2>2. CASE i \in DOMAIN acks
    BY <1>2, <1>3, <2>2 DEF Ordered, Precedes
  <2>3. QED
    BY <1>3, <2>1, <2>2
<1>10. Published(acks)' /\ Published(queue)'
  BY <1>2, <1>3 DEF Ordered, Published
<1>11. QED
  BY <1>2, <1>3, <1>4, <1>7, <1>8, <1>9, <1>10 DEF Ordered

LEMMA OrderCrash == StoreInv /\ Ordered /\ ConsumerCrash => Ordered' /\ acks' = <<>>
<1> SUFFICES ASSUME StoreInv, Ordered, ConsumerCrash PROVE Ordered' /\ acks' = <<>>
  OBVIOUS
<1>1. queue \in Seq(Messages) /\ acks \in Seq(Messages)
  BY DEF StoreInv, TypeOK
<1>2. acks' = <<>> /\ sent' = sent
  BY DEF ConsumerCrash
<1>3. PICK k \in 0..Len(acks) : queue' = SubSeq(acks, k + 1, Len(acks)) \o queue
  BY DEF ConsumerCrash
<1> DEFINE back == SubSeq(acks, k + 1, Len(acks))
           l == Len(acks) - k
<1>4. /\ back \in Seq(Messages) /\ Len(back) = l /\ l \in Nat
      /\ \A i \in 1..l : back[i] = acks[k + i] /\ k + i \in DOMAIN acks
  BY <1>1
<1>5. /\ DOMAIN queue' = 1..(l + Len(queue))
      /\ \A i \in 1..l : queue'[i] = acks[k + i] /\ k + i \in DOMAIN acks
      /\ \A i \in DOMAIN queue' : i > l => queue'[i] = queue[i - l] /\ i - l \in DOMAIN queue
  <2> HIDE DEF back, l
  <2>0. queue' = back \o queue
    BY <1>3 DEF back
  <2>1. QED
    BY <1>1, <1>4, <2>0, ConcatIndex
<1> HIDE DEF back, l
<1>6. Ascending(queue)'
  <2> SUFFICES ASSUME NEW i \in DOMAIN queue', NEW j \in DOMAIN queue', i < j
               PROVE  queue'[i].n < queue'[j].n
    BY DEF Ascending
  <2>0. i \in Nat /\ j \in Nat /\ i >= 1 /\ j >= 1
    BY <1>1, <1>4, <1>5
  <2>1. CASE j <= l
    <3>1. i \in 1..l /\ j \in 1..l /\ k + i < k + j
      BY <1>4, <2>0, <2>1
    <3>2. QED
      BY <1>5, <3>1 DEF Ordered, Ascending
  <2>2. CASE i <= l /\ j > l
    <3>1. i \in 1..l
      BY <1>4, <2>0, <2>2
    <3>2. QED
      BY <1>5, <2>2, <3>1 DEF Ordered, Precedes
  <2>3. CASE i > l
    <3>1. j > l /\ i - l < j - l
      BY <1>4, <2>0, <2>3
    <3>2. QED
      BY <1>5, <2>3, <3>1 DEF Ordered, Ascending
  <2>4. QED
    BY <1>4, <2>0, <2>1, <2>2, <2>3
<1>7. Published(queue)'
  <2> SUFFICES ASSUME NEW i \in DOMAIN queue' PROVE queue'[i].n <= sent
    BY <1>2 DEF Published
  <2>1. i \in 1..l \/ i > l
    BY <1>1, <1>4, <1>5
  <2>2. QED
    BY <1>5, <2>1 DEF Ordered, Published
<1>8. QED
  BY <1>2, <1>6, <1>7 DEF Ordered, Ascending, Precedes, Published

LEMMA OrderStep == StoreInv /\ Ordered /\ [StoreNext]_vars => Ordered'
<1> SUFFICES ASSUME StoreInv, Ordered, [StoreNext]_vars PROVE Ordered'
  OBVIOUS
<1>1. CASE Publish
  BY <1>1, OrderPublish
<1>2. CASE AckArrives
  <2>1. acks \in Seq(Messages) /\ acks # <<>> /\ acks' = Tail(acks)
        /\ UNCHANGED <<queue, sent>>
    BY <1>2 DEF StoreInv, TypeOK, AckArrives
  <2>2. \A i \in DOMAIN acks' : i + 1 \in DOMAIN acks /\ acks'[i] = acks[i + 1] /\ i \in Nat
    BY <2>1, TailIndex, ElementType
  <2>3. Ascending(acks)'
    <3> SUFFICES ASSUME NEW i \in DOMAIN acks', NEW j \in DOMAIN acks', i < j
                 PROVE  acks'[i].n < acks'[j].n
      BY DEF Ascending
    <3>1. i + 1 < j + 1
      BY <2>2
    <3>2. QED
      BY <2>2, <3>1 DEF Ordered, Ascending
  <2>4. Precedes(acks, queue)' /\ Published(acks)'
    BY <2>1, <2>2 DEF Ordered, Precedes, Published
  <2>5. QED
    BY <2>1, <2>3, <2>4 DEF Ordered, Ascending, Published
<1>3. CASE queue # <<>> /\ Done /\ UNCHANGED sent
  BY <1>3, OrderDone
<1>4. CASE ConsumerCrash
  BY <1>4, OrderCrash
<1>5. CASE UNCHANGED <<queue, acks, sent>>
  BY <1>5 DEF Ordered, Ascending, Precedes, Published
<1>6. CASE Commit \/ PlantMissing \/ StatementFails
  <2>1. queue # <<>>
    BY <1>6 DEF StoreInv, Busy, Open, Commit, PlantMissing, StatementFails
  <2>2. Done /\ UNCHANGED sent
    BY <1>6 DEF Commit, PlantMissing, StatementFails, Raise
  <2>3. QED
    BY <1>3, <2>1, <2>2
<1>7. QED
  BY <1>1, <1>2, <1>4, <1>5, <1>6 DEF StoreNext, Work, vars, broker, Start, Upsert, SelectCategory,
     Purge, Insert, AddPlant, DropPlant, Clean

\* What is shown stays shown while newer messages are recorded.
LEMMA ShownStays ==
  ASSUME StoreInv, NEW m \in Messages, Shown(m), Commit, m.n < Message.n
  PROVE  Shown(m)'
<1>1. pc \in Open /\ queue # <<>> /\ Message \in Messages
  BY DEF StoreInv, Busy, Commit, Open, TypeOK, Message
<1>2. /\ current' = [current EXCEPT ![Message.no] = txn.row]
      /\ txn.row = Merged(current[Message.no], Message.n, Message.vals)
  BY <1>1 DEF StoreInv, TxnInv, Commit
<1>3. current \in [PlantNos -> [Fields -> Nat]] /\ m.no \in PlantNos /\ Message.no \in PlantNos
      /\ m.vals \subseteq Fields /\ m.n \in Nat /\ Message.n \in Nat
  BY <1>1 DEF StoreInv, TypeOK, Messages
<1>4. SUFFICES ASSUME NEW f \in m.vals PROVE current'[m.no][f] >= m.n
  BY DEF Shown
<1>5. current[m.no][f] >= m.n
  BY DEF Shown
<1>6. CASE m.no # Message.no
  BY <1>2, <1>3, <1>5, <1>6
<1>7. CASE m.no = Message.no
  <2>1. current'[m.no] = Merged(current[m.no], Message.n, Message.vals)
    BY <1>2, <1>3, <1>7
  <2>2. current'[m.no][f] = IF f \in Message.vals THEN Message.n ELSE current[m.no][f]
    BY <1>3, <2>1 DEF Merged
  <2>3. QED
    BY <1>3, <1>5, <2>2
<1>8. QED
  BY <1>6, <1>7

LEMMA CommitShows ==
  ASSUME StoreInv, Commit, NEW m, m = Message
  PROVE  Shown(m)'
<1>1. pc \in Open /\ queue # <<>> /\ Message \in Messages
  BY DEF StoreInv, Busy, Commit, Open, TypeOK, Message
<1>2. current'[m.no] = Merged(current[m.no], m.n, m.vals)
  BY <1>1 DEF StoreInv, TypeOK, TxnInv, Commit, Messages
<1>3. m.vals \subseteq Fields /\ m.n \in Nat
  BY <1>1 DEF Messages
<1>4. QED
  BY <1>2, <1>3 DEF Merged, Shown

\* No delete and no failure is forgotten.
LEMMA CountsRise ==
  StoreInv /\ [StoreNext]_vars /\ drops' = 0 /\ failures' = 0 => drops = 0 /\ failures = 0
<1> SUFFICES ASSUME StoreInv, [StoreNext]_vars, drops' = 0, failures' = 0
             PROVE  drops = 0 /\ failures = 0
  OBVIOUS
<1>1. drops \in Nat /\ failures \in Nat
  BY DEF StoreInv, TypeOK
<1>2. drops' = drops \/ drops' = drops + 1
  BY DEF StoreNext, Work, vars, rest, Publish, AckArrives, Start, Upsert, SelectCategory, Purge,
     Insert, Commit, PlantMissing, StatementFails, Raise, ConsumerCrash, AddPlant, DropPlant, Clean
<1>3. failures' = failures \/ failures' = failures + 1
  BY DEF StoreNext, Work, vars, faults, Publish, AckArrives, Start, Upsert, SelectCategory, Purge,
     Insert, Commit, PlantMissing, StatementFails, ConsumerCrash, AddPlant, DropPlant, Clean
<1>4. QED
  BY <1>1, <1>2, <1>3

LEMMA ShownStep == StoreInv /\ Ordered /\ AcksShown /\ [StoreNext]_vars => AcksShown'
<1> SUFFICES ASSUME StoreInv, Ordered, AcksShown, [StoreNext]_vars PROVE AcksShown'
  OBVIOUS
<1>0. TypeOK /\ Busy
  BY DEF StoreInv
<1>1. drops' = 0 => cleanups' = {} /\ \A no \in PlantNos : category'[no] # NoPlant
  <2>1. CASE AddPlant
    <3>1. drops' = drops /\ cleanups' = cleanups
      BY <2>1 DEF AddPlant
    <3>2. PICK no \in PlantNos, c \in Categories : category' = [category EXCEPT ![no] = c]
      BY <2>1 DEF AddPlant
    <3>3. QED
      BY <1>0, <3>1, <3>2, CategoryAssumption DEF AcksShown, TypeOK
  <2>2. CASE DropPlant
    BY <1>0, <2>2 DEF DropPlant, TypeOK
  <2>3. CASE Clean
    BY <2>3 DEF Clean, AcksShown
  <2>4. CASE UNCHANGED rest
    BY <2>4 DEF rest, AcksShown
  <2>5. QED
    BY <2>1, <2>2, <2>3, <2>4 DEF StoreNext, Work, vars, Publish, AckArrives, Start, Upsert,
       SelectCategory, Purge, Insert, Commit, PlantMissing, StatementFails, Raise, ConsumerCrash
<1>2. SUFFICES ASSUME drops' = 0, failures' = 0, NEW m, m \in Acked' PROVE Shown(m)'
  BY <1>1 DEF AcksShown
<1> PICK i \in DOMAIN acks' : m = acks'[i]
  BY <1>2 DEF Acked
<1>3. drops = 0 /\ failures = 0
  BY <1>2, CountsRise
<1>4. ASSUME NEW j \in DOMAIN acks PROVE Shown(acks[j]) /\ acks[j] \in Messages
  BY <1>0, <1>3, ElementType DEF AcksShown, Acked, TypeOK
<1>5. CASE Commit
  <2>1. queue # <<>> /\ Done /\ UNCHANGED sent
    BY <1>0, <1>5 DEF Commit, Busy, Open
  <2>2. /\ acks'[i] = Message \/ \E j \in DOMAIN acks : acks'[i] = acks[j]
        /\ \A j \in DOMAIN acks : acks[j].n < Message.n
    BY <2>1, OrderDone
  <2>3. CASE m = Message
    BY <1>5, <2>3, CommitShows
  <2>4. CASE \E j \in DOMAIN acks : m = acks[j]
    BY <1>4, <1>5, <2>2, <2>4, ShownStays
  <2>5. QED
    BY <2>2, <2>3, <2>4
<1>6. CASE AckArrives
  <2>1. acks'[i] = acks[i + 1] /\ i + 1 \in DOMAIN acks /\ UNCHANGED current
    BY <1>0, <1>6, TailIndex DEF AckArrives, TypeOK, tables
  <2>2. QED
    BY <1>4, <2>1 DEF Shown
<1>7. CASE ConsumerCrash
  BY <1>2, <1>7 DEF ConsumerCrash
<1>8. CASE UNCHANGED <<acks, current>>
  BY <1>2, <1>4, <1>8 DEF Shown
<1>9. ~PlantMissing
  <2> SUFFICES ASSUME pc = "category", category[Message.no] = NoPlant PROVE FALSE
    BY DEF PlantMissing
  <2>1. queue \in Seq(Messages) /\ queue # <<>>
    BY <1>0 DEF TypeOK, Busy, Open
  <2>2. Message.no \in PlantNos
    BY <2>1, TailIndex DEF Message, Messages
  <2>3. QED
    BY <1>3, <2>2 DEF AcksShown
<1>10. ~StatementFails
  BY <1>0, <1>2 DEF StatementFails, TypeOK
<1>11. CASE Clean
  <2>1. cleanups = {}
    BY <1>3 DEF AcksShown
  <2>2. QED
    BY <1>11, <2>1 DEF Clean
<1>12. QED
  BY <1>5, <1>6, <1>7, <1>8, <1>9, <1>10, <1>11 DEF StoreNext, Work, vars, tables, broker, Publish,
     Start, Upsert, SelectCategory, Purge, Insert, AddPlant, DropPlant

LEMMA DeliveryInvariant == StoreSpec => []DeliveryInv
<1>1. StoreInit => DeliveryInv
  BY CategoryAssumption DEF StoreInit, DeliveryInv, Ordered, AcksShown, Acked, Ascending, Precedes, Published
<1>2. StoreInv /\ DeliveryInv /\ [StoreNext]_vars => DeliveryInv'
  BY OrderStep, ShownStep DEF DeliveryInv
<1>3. QED
  BY <1>1, <1>2, StoreInvariant, PTL DEF StoreSpec

-----------------------------------------------------------------------------

\* Messages stay messages, rows stay rows, whatever is delivered twice, fails
\* or is deleted.
THEOREM StoreTypeCorrect == StoreSpec => []TypeOK
<1>1. StoreInv => TypeOK
  BY DEF StoreInv
<1>2. QED
  BY <1>1, StoreInvariant, PTL

\* consumer-dreams.py's transaction is atomic for the readers of the tables:
\* with the row locks it takes, no crash, redelivery or delete of the REST
\* server lets them see one of its statements without the others.
THEOREM StoreImplementsLog == StoreSpec => LogSpecHolds
<1>1. StoreInit => Init
  BY DEF StoreInit, LogInit
<1>2. StoreInv /\ [StoreNext]_vars => [Next]_<<current, logs>>
  BY StepRefines DEF TypedNext, Next, tables
<1>3. QED
  BY <1>1, <1>2, StoreInvariant, PTL DEF StoreSpec, LogSpecHolds, Spec

\* "Remove old deadband logs" works: per plant and category there is never more
\* than one incomplete record.
THEOREM StoreKeepsOneDeadband == StoreSpec => []OneDeadband
<1>1. SpecInv => OneDeadband
  BY DEF SpecInv
<1>2. QED
  BY <1>1, LogInvariant, PTL

\* A reader of both tables finds the plant's last record shown in LogCurrent.
THEOREM StoreShowsLastRecord == StoreSpec => []LastRecordShown
<1>1. SpecInv => LastRecordShown
  BY DEF SpecInv
<1>2. QED
  BY <1>1, LogInvariant, PTL

\* Complete records stay until the plant goes: they are what test 4-1 counts.
THEOREM StoreKeepsCompleteRecords == StoreSpec => CompleteRecordsKept
<1> DEFINE Kept == \A r \in logs \ logs' :
                     \/ <<"LogRegistersMeter", r.no>> \in cleanups \ cleanups'
                     \/ r.no = Message.no /\ Deadband(r.vals, txn.cat)
<1>1. StoreInv /\ [StoreNext]_vars => [Kept]_vars
  <2> SUFFICES ASSUME StoreInv, [StoreNext]_vars, NEW r \in logs \ logs'
               PROVE  \/ <<"LogRegistersMeter", r.no>> \in cleanups \ cleanups'
                      \/ r.no = Message.no /\ Deadband(r.vals, txn.cat)
    OBVIOUS
  <2>1. CASE Commit
    <3>1. r \in txn.gone
      BY <2>1 DEF Commit
    <3>2. txn.gone \subseteq Obsolete(logs, Message.no, txn.cat)
      BY <2>1 DEF StoreInv, TxnInv, Commit
    <3>3. QED
      BY <3>1, <3>2 DEF Obsolete
  <2>2. CASE Clean
    BY <2>2 DEF Clean, ClearCurrent, ClearLogs, tables
  <2>3. QED
    BY <2>1, <2>2 DEF StoreNext, Work, vars, Publish, AckArrives, Start, Upsert, SelectCategory,
       Purge, Insert, PlantMissing, StatementFails, Raise, AddPlant, DropPlant, ConsumerCrash, tables
<1>2. QED
  BY <1>1, StoreInvariant, PTL DEF StoreSpec, CompleteRecordsKept

\* Delivery is at least once: without a delete and a failed statement, what
\* leaves RabbitMQ and the acknowledgements under way is shown in LogCurrent,
\* wherever the consumer is killed and however many acknowledgements are lost.
THEOREM StoreLosesNoMessage == StoreSpec => HeldUntilShown
<1> DEFINE Loses == \E m \in Held \ Held' : ~(Shown(m)' \/ drops' > 0 \/ failures' > 0)
<1>1. StoreInv /\ DeliveryInv /\ [StoreNext]_vars => ~Loses \/ UNCHANGED vars
  <2> SUFFICES ASSUME StoreInv, DeliveryInv, [StoreNext]_vars, NEW m \in Held, m \notin Held',
                      ~(drops' > 0), ~(failures' > 0)
               PROVE  Shown(m)'
    OBVIOUS
  <2>0. TypeOK /\ Busy
    BY DEF StoreInv
  <2>1. TypeOK'
    BY TypeStep
  <2>2. drops' = 0 /\ failures' = 0
    BY <2>1 DEF TypeOK
  <2>3. drops = 0 /\ failures = 0
    BY <2>2, CountsRise
  <2>4. \A i \in DOMAIN acks : Shown(acks[i])
    BY <2>3 DEF DeliveryInv, AcksShown, Acked
  <2>5. CASE AckArrives \/ ConsumerCrash
    <3>1. UNCHANGED current
      BY <2>5 DEF AckArrives, ConsumerCrash, tables
    <3>2. \A j \in DOMAIN queue : \E i \in DOMAIN queue' : queue'[i] = queue[j]
      <4>1. CASE AckArrives
        BY <4>1 DEF AckArrives
      <4>2. CASE ConsumerCrash
        <5>1. PICK k \in 0..Len(acks) : queue' = SubSeq(acks, k + 1, Len(acks)) \o queue
          BY <4>2 DEF ConsumerCrash
        <5> DEFINE back == SubSeq(acks, k + 1, Len(acks))
        <5>2. back \in Seq(Messages) /\ queue' = back \o queue
          BY <2>0, <5>1 DEF TypeOK
        <5> HIDE DEF back
        <5>3. ASSUME NEW j \in DOMAIN queue
              PROVE  Len(back) + j \in DOMAIN queue' /\ queue'[Len(back) + j] = queue[j]
          BY <2>0, <5>2 DEF TypeOK
        <5>4. QED
          BY <5>3
      <4>3. QED
        BY <2>5, <4>1, <4>2
    <3>3. m \in {acks[i] : i \in DOMAIN acks}
      BY <3>2 DEF Held
    <3>4. QED
      BY <2>4, <3>1, <3>3 DEF Shown
  <2>6. CASE queue # <<>> /\ Done
    <3>1. /\ \A i \in DOMAIN acks : i \in DOMAIN acks' /\ acks'[i] = acks[i]
          /\ \E i \in DOMAIN acks' : acks'[i] = queue[1]
      BY <2>0, <2>6, AppendIndex, TailIndex DEF Done, TypeOK, Message
    <3>2. \A j \in DOMAIN queue : j # 1 => \E i \in DOMAIN queue' : queue'[i] = queue[j]
      <4> SUFFICES ASSUME NEW j \in DOMAIN queue, j # 1
                   PROVE  j - 1 \in DOMAIN queue' /\ queue'[j - 1] = queue[j]
        OBVIOUS
      <4>1. queue \in Seq(Messages) /\ queue' = Tail(queue)
        BY <2>0, <2>6 DEF TypeOK, Done
      <4>2. QED
        BY <2>6, <4>1
    <3>3. QED
      BY <3>1, <3>2 DEF Held
  <2>7. CASE Publish
    <3>1. \A j \in DOMAIN queue : j \in DOMAIN queue' /\ queue'[j] = queue[j]
      <4>1. CASE queue' = queue
        BY <4>1
      <4>2. CASE \E e : queue' = Append(queue, e)
        BY <2>0, <4>2 DEF TypeOK
      <4>3. QED
        BY <2>7, <4>1, <4>2 DEF Publish
    <3>2. acks' = acks
      BY <2>7 DEF Publish
    <3>3. QED
      BY <3>1, <3>2 DEF Held
  <2>8. CASE UNCHANGED <<queue, acks>>
    BY <2>8 DEF Held
  <2>9. QED
    BY <2>0, <2>5, <2>6, <2>7, <2>8 DEF StoreNext, Work, vars, broker, Start, Upsert, SelectCategory,
       Purge, Insert, AddPlant, DropPlant, Clean, Commit, PlantMissing, StatementFails, Raise,
       Busy, Open
<1>2. StoreInv /\ DeliveryInv /\ [StoreNext]_vars
      => [\A m \in Held \ Held' : Shown(m)' \/ drops' > 0 \/ failures' > 0]_vars
  BY <1>1
<1>3. QED
  BY <1>2, StoreInvariant, DeliveryInvariant, PTL DEF StoreSpec, HeldUntilShown

=============================================================================
