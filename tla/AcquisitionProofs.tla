-------------------------- MODULE AcquisitionProofs --------------------------
(* Proofs about Acquisition, for every value of its constants. *)
EXTENDS Acquisition, TLAPS, FiniteSetTheorems

(* What the shared steps do to the types of the variables they change. *)

\* A statement fails because the database is down or goes down.
LEMMA DbFailsType ==
  ASSUME TypeOK, NEW applied \in BOOLEAN, DbFails(applied)
  PROVE  dbUp' \in BOOLEAN /\ outages' \in Nat
<1>1. CASE ~dbUp /\ ~applied /\ UNCHANGED <<dbUp, outages>>
  BY <1>1 DEF TypeOK
<1>2. CASE dbUp /\ outages < MaxOutages /\ dbUp' = FALSE /\ outages' = outages + 1
  <2>1. dbUp' \in BOOLEAN
    BY <1>2, Zenon
  <2>2. outages' \in Nat
    BY <1>2 DEF TypeOK
  <2> QED
    BY <2>1, <2>2, Zenon
<1> QED
  BY <1>1, <1>2, Zenon DEF DbFails

\* Storing a batch again adds no row it did not add before.
LEMMA IngestType ==
  ASSUME TypeOK, NEW b \in Batch, Ingest(b)
  PROVE  /\ raw' \subseteq Batch
         /\ projected' \in [Batch -> Nat]
         /\ dbConns' = dbConns
BY DEF TypeOK, Ingest

\* The same when the transaction may not have been applied.
LEMMA IngestIfType ==
  ASSUME TypeOK, NEW b \in Batch, NEW applied \in BOOLEAN, IngestIf(applied, b)
  PROVE  /\ raw' \subseteq Batch
         /\ projected' \in [Batch -> Nat]
         /\ dbConns' = dbConns
<1>1. CASE Ingest(b)
  BY <1>1, IngestType
<1>2. CASE UNCHANGED <<raw, projected, dbConns>>
  BY <1>2 DEF TypeOK
<1> QED
  BY <1>1, <1>2, Zenon DEF IngestIf

\* A SQLite error only counts against its bound.
LEMMA SqliteFailsType == ASSUME TypeOK, SqliteFails PROVE faults' \in Nat
BY DEF TypeOK, SqliteFails

\* A batch in hand is one that was read.
LEMMA CurIsBatch == ASSUME TypeOK, cur # 0 PROVE cur \in Batch
BY BoundsAssumption DEF TypeOK, Batch

\* No batch has the number that stands for none.
LEMMA BatchRange == ASSUME NEW b \in Batch PROVE b \in 0..MaxBatches /\ b # 0
BY BoundsAssumption DEF Batch

\* poll_data_once reads one more batch, or an empty buffer.
LEMMA ReadDataBufType == ASSUME TypeOK, ReadDataBuf PROVE TypeOK'
<1>1. CASE taken < MaxBatches
  <2>1. taken + 1 \in Batch /\ taken + 1 \in 0..MaxBatches /\ taken + 1 # 0
    BY <1>1, BoundsAssumption DEF TypeOK, Batch
  <2> QED
    BY <2>1, SettingsAssumption
       DEF ReadDataBuf, TypeOK, dbVars, Goto, Labels
<1>2. CASE ~(taken < MaxBatches)
  BY <1>2 DEF ReadDataBuf, TypeOK, dbVars, batchVars, Goto, Labels
<1> QED
  BY <1>1, <1>2

\* A batch whose answer is lost is one more the detector gave.
LEMMA AnswerLostType ==
  ASSUME TypeOK, NEW noDevice \in BOOLEAN, AnswerLost(noDevice) PROVE TypeOK'
<1>1. taken + 1 \in Batch /\ taken + 1 \in 0..MaxBatches /\ faults + 1 \in Nat
  BY BoundsAssumption DEF AnswerLost, TypeOK, Batch
<1>2. lost' \subseteq Batch
  BY <1>1 DEF AnswerLost, TypeOK
<1>3. batchSize' \in [Batch -> Nat]
  BY <1>1, SettingsAssumption DEF AnswerLost, TypeOK
<1> QED
  BY <1>1, <1>2, <1>3
     DEF AnswerLost, HandleUsbFailure, TypeOK, dbVars, Goto, Labels

\* Closing the device lets go of its connection and marks it closed if it can.
LEMMA CloseType == ASSUME TypeOK, Close PROVE TypeOK'
<1> DEFINE closed == IF conn # 0 /\ dbConns[conn] = "open"
                     THEN [dbConns EXCEPT ![conn] = "closed"] ELSE dbConns
<1>1. closed \in [Connection -> {"none", "open", "closed"}]
  BY DEF TypeOK
<1>2. dbConns' \in {dbConns, closed}
  BY DEF Close
<1>3. dbConns' \in [Connection -> {"none", "open", "closed"}]
  BY <1>1, <1>2 DEF TypeOK
<1>4. dbUp' \in BOOLEAN /\ outages' \in Nat
  BY DbFailsType DEF Close, TypeOK
<1>5. pc' \in {"down", "top"}
  BY DEF Close, Goto
<1> QED
  BY <1>3, <1>4, <1>5, BoundsAssumption DEF Close, TypeOK, batchVars, Labels

\* The collector starts with an empty spool and no connection.
LEMMA InitType == Init => TypeOK
<1> SUFFICES ASSUME Init PROVE TypeOK
  OBVIOUS
<1>1. /\ pc \in Labels
      /\ drainer \in {"outer", "loop", "gate"}
      /\ dbConns \in [Connection -> {"none", "open", "closed"}]
      /\ projected \in [Batch -> Nat]
      /\ batchSize \in [Batch -> Nat]
      /\ announced \in [Batch -> Nat]
      /\ outages \in Nat /\ crashes \in Nat /\ faults \in Nat
  BY DEF Init, Labels
<1>2. /\ conn \in 0..MaxConnections /\ nextConn \in 0..MaxConnections
      /\ batchConn \in [Batch -> 0..MaxConnections]
      /\ cur \in 0..MaxBatches /\ cache \in 0..MaxBatches
      /\ taken \in 0..MaxBatches
  BY BoundsAssumption DEF Init
<1>3. /\ work \subseteq Batch /\ spool \subseteq Batch
      /\ raw \subseteq Batch /\ lost \subseteq Batch
      /\ pc \in {"append", "commit", "ack", "forward", "replayAck",
                "replayForward"} => cur # 0
  BY DEF Init
<1>4. /\ stop \in BOOLEAN /\ leaving \in BOOLEAN
      /\ marker \in BOOLEAN /\ dbUp \in BOOLEAN
  BY Zenon DEF Init
<1> QED
  BY <1>1, <1>2, <1>3, <1>4, Zenon DEF TypeOK

\* Every statement of the collector, the restart and the database keep the types.
LEMMA TypeStep == TypeOK /\ [Next]_vars => TypeOK'
<1> SUFFICES ASSUME TypeOK, [Next]_vars PROVE TypeOK'
  OBVIOUS
<1> USE DEF TypeOK, Labels, dbVars, batchVars, procVars, Goto
<1>1. ASSUME Exit PROVE TypeOK'
  BY <1>1 DEF Exit
<1>2. ASSUME Start PROVE TypeOK'
  BY <1>2 DEF Start
<1>3. ASSUME EnsureDevice PROVE TypeOK'
  BY <1>3, DbFailsType DEF EnsureDevice
<1>4. ASSUME DrainStart PROVE TypeOK'
  BY <1>4 DEF DrainStart, WhenNotDrained
<1>5. ASSUME NEW b \in Batch, ReplayCommit(b) PROVE TypeOK'
  BY <1>5, IngestType, BatchRange DEF ReplayCommit
<1>6. ASSUME NEW b \in Batch, ReplayFails(b) PROVE TypeOK'
  BY <1>6, DbFailsType, IngestIfType, SqliteFailsType DEF ReplayFails, WhenNotDrained
<1>7. ASSUME ReplayAcknowledge PROVE TypeOK'
  BY <1>7 DEF ReplayAcknowledge
<1>8. ASSUME ReplayForward PROVE TypeOK'
  BY <1>8, BoundsAssumption DEF ReplayForward
<1>9. ASSUME DrainDone PROVE TypeOK'
  BY <1>9 DEF DrainDone, WhenDrained
<1>10. ASSUME Connect PROVE TypeOK'
  BY <1>10, BoundsAssumption DEF Connect
<1>11. ASSUME ReadFirmware PROVE TypeOK'
  BY <1>11 DEF ReadFirmware
<1>12. ASSUME RecordOpen PROVE TypeOK'
  BY <1>12, DbFailsType DEF RecordOpen
<1>13. ASSUME FirstAudit PROVE TypeOK'
  BY <1>13, DbFailsType DEF FirstAudit, Auxiliary
<1>14. ASSUME Loop PROVE TypeOK'
  BY <1>14 DEF Loop
<1>15. ASSUME NotDue PROVE TypeOK'
  BY <1>15 DEF NotDue
<1>16. ASSUME Gate PROVE TypeOK'
  BY <1>16 DEF Gate
<1>17. ASSUME EnsureCapacity PROVE TypeOK'
  BY <1>17 DEF EnsureCapacity
<1>18. ASSUME ReadDataBuf PROVE TypeOK'
  BY <1>18, ReadDataBufType
<1>19. ASSUME AppendToSpool PROVE TypeOK'
  BY <1>19, CurIsBatch DEF AppendToSpool
<1>20. ASSUME AppendFails PROVE TypeOK'
  BY <1>20, CurIsBatch, SqliteFailsType, BoundsAssumption DEF AppendFails
<1>21. ASSUME CommitBatch PROVE TypeOK'
  BY <1>21, CurIsBatch, IngestType DEF CommitBatch
<1>22. ASSUME CommitFails PROVE TypeOK'
  BY <1>22, CurIsBatch, IngestIfType, DbFailsType, SqliteFailsType, BoundsAssumption DEF CommitFails
<1>23. ASSUME Acknowledge PROVE TypeOK'
  BY <1>23 DEF Acknowledge
<1>24. ASSUME Forward PROVE TypeOK'
  BY <1>24, BoundsAssumption, CurIsBatch DEF Forward
<1>25. ASSUME PollSpectrum PROVE TypeOK'
  BY <1>25, DbFailsType DEF PollSpectrum, Auxiliary
<1>26. ASSUME Audit PROVE TypeOK'
  BY <1>26, DbFailsType DEF Audit, Auxiliary
<1>27. ASSUME Close PROVE TypeOK'
  BY <1>27, CloseType
<1>28. ASSUME SpoolFault PROVE TypeOK'
  BY <1>28, SqliteFailsType, BoundsAssumption DEF SpoolFault
<1>29. ASSUME NEW noDevice \in BOOLEAN, UsbFails(noDevice) PROVE TypeOK'
  BY <1>29 DEF UsbFails, HandleUsbFailure
<1>30. ASSUME Signal PROVE TypeOK'
  BY <1>30 DEF Signal
<1>31. ASSUME Crash PROVE TypeOK'
  BY <1>31, BoundsAssumption, CurIsBatch DEF Crash
<1>32. ASSUME Restart PROVE TypeOK'
  <2>1. cache' \in 0..MaxBatches
    BY <1>32, BoundsAssumption, BatchRange DEF Restart, Bootstrap
  <2>2. stop' \in BOOLEAN /\ leaving' \in BOOLEAN /\ marker' \in BOOLEAN
    BY <1>32, Zenon DEF Restart
  <2> QED
    BY <1>32, <2>1, <2>2 DEF Restart
<1>33. ASSUME DatabaseDown PROVE TypeOK'
  <2>1. dbUp' \in BOOLEAN
    BY <1>33, Zenon DEF DatabaseDown
  <2> QED
    BY <1>33, <2>1 DEF DatabaseDown
<1>34. ASSUME DatabaseUp PROVE TypeOK'
  BY <1>34 DEF DatabaseUp
<1>35. ASSUME NEW noDevice \in BOOLEAN, AnswerLost(noDevice) PROVE TypeOK'
  BY <1>35, AnswerLostType
<1>90. CASE UNCHANGED vars
  BY <1>90 DEF vars
<1> HIDE DEF TypeOK, Labels, dbVars, batchVars, procVars, Goto
<1> QED
  BY <1>1, <1>2, <1>3, <1>4, <1>5, <1>6, <1>7, <1>8, <1>9, <1>10, <1>11,
     <1>12, <1>13, <1>14, <1>15, <1>16, <1>17, <1>18, <1>19, <1>20, <1>21,
     <1>22, <1>23, <1>24, <1>25, <1>26, <1>27, <1>28, <1>29, <1>30, <1>31,
     <1>32, <1>33, <1>34, <1>35, <1>90
     DEF Next, Collector, Drain, PollData

\* Every variable of the collector's model stays within its type, and the
\* control points that work on a batch have one.
THEOREM TypeCorrect == Spec => []TypeOK
BY InitType, TypeStep, PTL DEF Spec

-----------------------------------------------------------------------------
(* The inductive invariant.  Three actions move a connection or a batch     *)
(* into the part of the state ConnectionInv is about; the rest is one leaf  *)
(* per action.                                                              *)

\* open_connection makes the connection in use known to PostgreSQL.
LEMMA RecordOpenConnection ==
  ASSUME IndInv, TypeOK', RecordOpen PROVE ConnectionInv'
<1>1. conn \in Connection
  BY BoundsAssumption
     DEF IndInv, SafeInv, TypeOK, ConnectionInv, RecordOpen, Connection
<1> QED
  BY <1>1 DEF IndInv, SafeInv, TypeOK, ConnectionInv, ControlInv, InConnection,
              SpooledConnectionKnown, RecordOpen, Goto, batchVars

\* A batch is read on the recorded connection, with an empty spool.
LEMMA ReadDataBufConnection ==
  ASSUME IndInv, TypeOK', ReadDataBuf PROVE ConnectionInv'
<1>1. spool' = {} /\ conn # 0 /\ dbConns[conn] # "none"
  BY DEF IndInv, SafeInv, ControlInv, ConnectionInv, InConnection, ReadDataBuf
<1>2. CASE taken < MaxBatches /\ pc' = "append"
  <2>1. taken + 1 \in Batch
    BY <1>2, BoundsAssumption DEF IndInv, SafeInv, TypeOK, Batch
  <2>2. batchConn'[taken + 1] = conn /\ cur' = taken + 1
    BY <1>2, <2>1 DEF ReadDataBuf, Goto, IndInv, TypeOK
  <2> QED
    BY <1>1, <1>2, <2>2 DEF ConnectionInv, InConnection,
       SpooledConnectionKnown, ReadDataBuf, dbVars
<1>3. CASE pc' = "spectrum"
  BY <1>1, <1>3 DEF ConnectionInv, InConnection, SpooledConnectionKnown,
     ReadDataBuf, dbVars
<1> QED
  BY <1>2, <1>3 DEF ReadDataBuf, Goto

\* Closing a connection forgets it without forgetting its row.
LEMMA CloseConnection ==
  ASSUME IndInv, TypeOK', Close PROVE ConnectionInv'
<1>1. pc' \in {"top", "down"}
  BY DEF Close, Goto
<1>2. \A c \in Connection : dbConns[c] # "none" => dbConns'[c] # "none"
  BY DEF Close, IndInv, TypeOK
<1>3. \A b \in spool : batchConn[b] \in Connection
  <2>1. \A b \in spool : batchConn[b] \in 0..MaxConnections /\ batchConn[b] # 0
    BY DEF IndInv, SafeInv, ConnectionInv, SpooledConnectionKnown, TypeOK
  <2> QED
    BY <2>1, BoundsAssumption DEF Connection
<1>4. SpooledConnectionKnown'
  BY <1>2, <1>3
     DEF IndInv, SafeInv, ConnectionInv, SpooledConnectionKnown, Close, batchVars
<1> QED
  BY <1>1, <1>4 DEF ConnectionInv, InConnection

\* The invariant holds of an empty spool and database.
LEMMA InitInv == Init => IndInv
BY InitType, BoundsAssumption
   DEF Init, IndInv, SafeInv, ControlInv, AtMostOneSpooled, Accounted, ProjectedOnce,
       ConnectionInv, InConnection, SpooledConnectionKnown, OrderInv,
       EventInv, EventsOnceAfterCommit

\* Every step keeps the invariant.
LEMMA InvStep == IndInv /\ [Next]_vars => IndInv'
<1> SUFFICES ASSUME IndInv, [Next]_vars PROVE IndInv'
  OBVIOUS
<1>0. TypeOK'
  BY TypeStep DEF IndInv
<1> USE DEF IndInv, SafeInv, TypeOK, Labels, ControlInv, AtMostOneSpooled, Accounted,
            ProjectedOnce, ConnectionInv, InConnection,
            SpooledConnectionKnown, OrderInv, EventInv,
            EventsOnceAfterCommit, dbVars, batchVars, procVars, Goto
<1>1. ASSUME Exit PROVE SafeInv'
  BY <1>0, <1>1 DEF Exit
<1>2. ASSUME Start PROVE SafeInv'
  BY <1>0, <1>2 DEF Start
<1>3. ASSUME EnsureDevice PROVE SafeInv'
  BY <1>0, <1>3 DEF EnsureDevice, DbFails
<1>4. ASSUME DrainStart PROVE SafeInv'
  BY <1>0, <1>4 DEF DrainStart, WhenNotDrained
<1>5. ASSUME NEW b \in Batch, ReplayCommit(b) PROVE SafeInv'
  BY <1>0, <1>5 DEF ReplayCommit, Ingest
<1>6. ASSUME NEW b \in Batch, ReplayFails(b) PROVE SafeInv'
  BY <1>0, <1>6 DEF ReplayFails, DbFails, IngestIf, Ingest, WhenNotDrained, SqliteFails
<1>7. ASSUME ReplayAcknowledge PROVE SafeInv'
  BY <1>0, <1>7 DEF ReplayAcknowledge
<1>8. ASSUME ReplayForward PROVE SafeInv'
  BY <1>0, <1>8 DEF ReplayForward
<1>9. ASSUME DrainDone PROVE SafeInv'
  BY <1>0, <1>9 DEF DrainDone, WhenDrained
<1>10. ASSUME Connect PROVE SafeInv'
  BY <1>0, <1>10 DEF Connect
<1>11. ASSUME ReadFirmware PROVE SafeInv'
  BY <1>0, <1>11 DEF ReadFirmware
<1>12. ASSUME RecordOpen PROVE SafeInv'
  <2>1. ConnectionInv'
    BY <1>0, <1>12, RecordOpenConnection
  <2>2. ControlInv' /\ AtMostOneSpooled' /\ Accounted' /\ ProjectedOnce'
    BY <1>0, <1>12 DEF RecordOpen, DbFails
  <2>3. OrderInv' /\ EventInv'
    BY <1>0, <1>12 DEF RecordOpen, DbFails
  <2> QED
    BY <2>1, <2>2, <2>3, Zenon
<1>13. ASSUME FirstAudit PROVE SafeInv'
  BY <1>0, <1>13 DEF FirstAudit, Auxiliary, DbFails
<1>14. ASSUME Loop PROVE SafeInv'
  BY <1>0, <1>14 DEF Loop, MustDrain
<1>15. ASSUME NotDue PROVE SafeInv'
  BY <1>0, <1>15 DEF NotDue
<1>16. ASSUME Gate PROVE SafeInv'
  BY <1>0, <1>16 DEF Gate, MustDrain
<1>17. ASSUME EnsureCapacity PROVE SafeInv'
  BY <1>0, <1>17 DEF EnsureCapacity
<1>18. ASSUME ReadDataBuf PROVE SafeInv'
  <2>1. ConnectionInv'
    BY <1>0, <1>18, ReadDataBufConnection
  <2>2. ControlInv' /\ AtMostOneSpooled' /\ Accounted' /\ ProjectedOnce'
    BY <1>0, <1>18 DEF ReadDataBuf
  <2>3. OrderInv' /\ EventInv'
    BY <1>0, <1>18 DEF ReadDataBuf
  <2> QED
    BY <2>1, <2>2, <2>3, Zenon
<1>19. ASSUME AppendToSpool PROVE SafeInv'
  BY <1>0, <1>19 DEF AppendToSpool
<1>20. ASSUME AppendFails PROVE SafeInv'
  BY <1>0, <1>20 DEF AppendFails, SqliteFails
<1>21. ASSUME CommitBatch PROVE SafeInv'
  BY <1>0, <1>21 DEF CommitBatch, Ingest
<1>22. ASSUME CommitFails PROVE SafeInv'
  BY <1>0, <1>22 DEF CommitFails, DbFails, IngestIf, Ingest, SqliteFails
<1>23. ASSUME Acknowledge PROVE SafeInv'
  BY <1>0, <1>23 DEF Acknowledge
<1>24. ASSUME Forward PROVE SafeInv'
  BY <1>0, <1>24 DEF Forward
<1>25. ASSUME PollSpectrum PROVE SafeInv'
  BY <1>0, <1>25 DEF PollSpectrum, Auxiliary, DbFails
<1>26. ASSUME Audit PROVE SafeInv'
  BY <1>0, <1>26 DEF Audit, Auxiliary, DbFails
<1>27. ASSUME Close PROVE SafeInv'
  <2>1. ConnectionInv'
    BY <1>0, <1>27, CloseConnection
  <2>2. ControlInv' /\ AtMostOneSpooled' /\ Accounted' /\ ProjectedOnce'
    BY <1>0, <1>27 DEF Close, DbFails
  <2>3. OrderInv' /\ EventInv'
    BY <1>0, <1>27 DEF Close, DbFails
  <2> QED
    BY <2>1, <2>2, <2>3, Zenon
<1>28. ASSUME SpoolFault PROVE SafeInv'
  BY <1>0, <1>28 DEF SpoolFault, SqliteFails
<1>29. ASSUME NEW noDevice \in BOOLEAN, UsbFails(noDevice) PROVE SafeInv'
  BY <1>0, <1>29 DEF UsbFails, HandleUsbFailure
<1>30. ASSUME Signal PROVE SafeInv'
  BY <1>0, <1>30 DEF Signal
<1>31. ASSUME Crash PROVE SafeInv'
  BY <1>0, <1>31 DEF Crash
<1>32. ASSUME Restart PROVE SafeInv'
  BY <1>0, <1>32 DEF Restart, Bootstrap
<1>33. ASSUME DatabaseDown PROVE SafeInv'
  BY <1>0, <1>33 DEF DatabaseDown
<1>34. ASSUME DatabaseUp PROVE SafeInv'
  BY <1>0, <1>34 DEF DatabaseUp
<1>35. ASSUME NEW noDevice \in BOOLEAN, AnswerLost(noDevice) PROVE SafeInv'
  <2>1. spool = {} /\ conn # 0 /\ dbConns[conn] # "none"
    BY <1>0, <1>35 DEF AnswerLost
  <2>2. ConnectionInv' /\ ControlInv' /\ AtMostOneSpooled' /\ ProjectedOnce'
    BY <1>0, <1>35, <2>1 DEF AnswerLost, HandleUsbFailure
  <2>3. Accounted'
    BY <1>0, <1>35 DEF AnswerLost, HandleUsbFailure
  <2>4. OrderInv' /\ EventInv'
    BY <1>0, <1>35, <2>1 DEF AnswerLost, HandleUsbFailure
  <2> QED
    BY <2>2, <2>3, <2>4, Zenon
<1>90. ASSUME UNCHANGED vars PROVE SafeInv'
  BY <1>0, <1>90 DEF vars
<1> HIDE DEF IndInv, SafeInv, TypeOK, Labels, ControlInv, AtMostOneSpooled,
             Accounted, ProjectedOnce, ConnectionInv, InConnection,
             SpooledConnectionKnown, OrderInv, EventInv,
             EventsOnceAfterCommit, dbVars, batchVars, procVars, Goto
<1>91. SafeInv'
  BY <1>1, <1>2, <1>3, <1>4, <1>5, <1>6, <1>7, <1>8, <1>9, <1>10, <1>11,
     <1>12, <1>13, <1>14, <1>15, <1>16, <1>17, <1>18, <1>19, <1>20, <1>21,
     <1>22, <1>23, <1>24, <1>25, <1>26, <1>27, <1>28, <1>29, <1>30, <1>31,
     <1>32, <1>33, <1>34, <1>35, <1>90
     DEF Next, Collector, Drain, PollData
<1> QED
  BY <1>0, <1>91 DEF IndInv

\* The invariant of every reachable state.
LEMMA Invariance == Spec => []IndInv
BY InitInv, InvStep, PTL DEF Spec

\* At most one batch waits in the spool, however the failures fall.
THEOREM SpoolNeverBacklogged == Spec => []AtMostOneSpooled
BY Invariance, PTL DEF IndInv, SafeInv

\* No batch read from the detector disappears outside the window between the
\* read and the spool's commit.
THEOREM NothingUnaccounted == Spec => []Accounted
BY Invariance, PTL DEF IndInv, SafeInv

\* Retries, ambiguous commits and crashes never project a batch twice, and no
\* stored batch lacks its projections.
THEOREM ExactlyOnce == Spec => []ProjectedOnce
BY Invariance, PTL DEF IndInv, SafeInv

\* A spooled batch never refers to a connection PostgreSQL does not know.
THEOREM ReplayNeverDangles == Spec => []SpooledConnectionKnown
BY Invariance, PTL DEF IndInv, SafeInv, ConnectionInv

\* MQTT events are handed over at most once and only for stored batches.
THEOREM EventsAtMostOnce == Spec => []EventsOnceAfterCommit
BY Invariance, PTL DEF IndInv, SafeInv, EventInv
-----------------------------------------------------------------------------
(* The abstract ledger. *)

\* A transaction that stores a spooled batch is a Commit of the ledger, or
\* stutters when the batch was stored by an earlier attempt.
LEMMA StoreStep ==
  ASSUME IndInv, NEW b \in spool, raw' \in {raw, raw \cup {b}},
         spool' = spool, pc # "append", pc' # "append",
         taken' = taken, lost' = lost
  PROVE  [Ledger!Next]_Ledger!vars
<1>1. b \in Batch
  BY DEF IndInv, TypeOK
<1>2. CASE raw' = raw
  BY <1>2 DEF Ledger!vars
<1>3. CASE b \notin raw /\ raw' = raw \cup {b}
  <2>1. \A c \in raw : c < b
    BY <1>1, <1>3, BoundsAssumption
       DEF IndInv, SafeInv, OrderInv, TypeOK, Batch
  <2>2. spool' \ raw' = (spool \ raw) \ {b}
    BY <1>3
  <2>3. Ledger!Commit(b)
    BY <1>3, <2>1, <2>2 DEF Ledger!Commit
  <2> QED
    BY <1>1, <2>3 DEF Ledger!Next, Ledger!Batch, Batch
<1> QED
  BY <1>2, <1>3

\* Every step is a step of the ledger or leaves what it sees alone.
LEMMA LedgerStep == IndInv /\ [Next]_vars => [Ledger!Next]_Ledger!vars
<1> SUFFICES ASSUME IndInv, [Next]_vars PROVE [Ledger!Next]_Ledger!vars
  OBVIOUS
<1> USE DEF IndInv, SafeInv, ControlInv, Ledger!vars, dbVars, batchVars,
            procVars, Goto
<1>1. ASSUME Exit PROVE [Ledger!Next]_Ledger!vars
  BY <1>1 DEF Exit
<1>2. ASSUME Start PROVE [Ledger!Next]_Ledger!vars
  BY <1>2 DEF Start
<1>3. ASSUME EnsureDevice PROVE [Ledger!Next]_Ledger!vars
  BY <1>3 DEF EnsureDevice, DbFails
<1>4. ASSUME DrainStart PROVE [Ledger!Next]_Ledger!vars
  BY <1>4 DEF DrainStart, WhenNotDrained
<1>5. ASSUME NEW b \in Batch, ReplayCommit(b) PROVE [Ledger!Next]_Ledger!vars
  <2>1. b \in spool /\ raw' = raw \cup {b} /\ spool' = spool
    BY <1>5 DEF ReplayCommit, Ingest
  <2>2. pc # "append" /\ pc' # "append" /\ taken' = taken /\ lost' = lost
    BY <1>5 DEF ReplayCommit
  <2> QED
    BY <2>1, <2>2, StoreStep
<1>6. ASSUME NEW b \in Batch, ReplayFails(b) PROVE [Ledger!Next]_Ledger!vars
  <2>1. b \in spool /\ raw' \in {raw, raw \cup {b}} /\ spool' = spool
    BY <1>6 DEF ReplayFails, IngestIf, Ingest
  <2>2. pc # "append" /\ pc' # "append" /\ taken' = taken /\ lost' = lost
    BY <1>6 DEF ReplayFails, WhenNotDrained
  <2> QED
    BY <2>1, <2>2, StoreStep
<1>7. ASSUME ReplayAcknowledge PROVE [Ledger!Next]_Ledger!vars
  <2>1. (spool \ {cur}) \ raw = spool \ raw
    BY <1>7 DEF ReplayAcknowledge
  <2> QED
    BY <1>7, <2>1 DEF ReplayAcknowledge
<1>8. ASSUME ReplayForward PROVE [Ledger!Next]_Ledger!vars
  BY <1>8 DEF ReplayForward
<1>9. ASSUME DrainDone PROVE [Ledger!Next]_Ledger!vars
  BY <1>9 DEF DrainDone, WhenDrained
<1>10. ASSUME Connect PROVE [Ledger!Next]_Ledger!vars
  BY <1>10 DEF Connect
<1>11. ASSUME ReadFirmware PROVE [Ledger!Next]_Ledger!vars
  BY <1>11 DEF ReadFirmware
<1>12. ASSUME RecordOpen PROVE [Ledger!Next]_Ledger!vars
  BY <1>12 DEF RecordOpen, DbFails
<1>13. ASSUME FirstAudit PROVE [Ledger!Next]_Ledger!vars
  BY <1>13 DEF FirstAudit, Auxiliary, DbFails
<1>14. ASSUME Loop PROVE [Ledger!Next]_Ledger!vars
  BY <1>14 DEF Loop, MustDrain
<1>15. ASSUME NotDue PROVE [Ledger!Next]_Ledger!vars
  BY <1>15 DEF NotDue
<1>16. ASSUME Gate PROVE [Ledger!Next]_Ledger!vars
  BY <1>16 DEF Gate, MustDrain
<1>17. ASSUME EnsureCapacity PROVE [Ledger!Next]_Ledger!vars
  BY <1>17 DEF EnsureCapacity
<1>18. ASSUME ReadDataBuf PROVE [Ledger!Next]_Ledger!vars
  BY <1>18 DEF ReadDataBuf, Ledger!Next, Ledger!Take, Ledger!DestructiveRead
<1>19. ASSUME AppendToSpool PROVE [Ledger!Next]_Ledger!vars
  <2>1. cur # 0 /\ cur \notin spool \cup raw
    BY <1>19 DEF AppendToSpool
  <2>2. (spool \cup {cur}) \ raw = (spool \ raw) \cup {cur}
    BY <2>1
  <2> QED
    BY <1>19, <2>1, <2>2 DEF AppendToSpool, Ledger!Next, Ledger!Accept
<1>20. ASSUME AppendFails PROVE [Ledger!Next]_Ledger!vars
  BY <1>20 DEF AppendFails, SqliteFails, Ledger!Next, Ledger!Lose
<1>21. ASSUME CommitBatch PROVE [Ledger!Next]_Ledger!vars
  <2>1. cur \in spool /\ raw' = raw \cup {cur} /\ spool' = spool
    BY <1>21 DEF CommitBatch, Ingest
  <2>2. pc # "append" /\ pc' # "append" /\ taken' = taken /\ lost' = lost
    BY <1>21 DEF CommitBatch
  <2> QED
    BY <2>1, <2>2, StoreStep
<1>22. ASSUME CommitFails PROVE [Ledger!Next]_Ledger!vars
  <2>1. cur \in spool /\ raw' \in {raw, raw \cup {cur}} /\ spool' = spool
    BY <1>22 DEF CommitFails, IngestIf, Ingest
  <2>2. pc # "append" /\ pc' # "append" /\ taken' = taken /\ lost' = lost
    BY <1>22 DEF CommitFails
  <2> QED
    BY <2>1, <2>2, StoreStep
<1>23. ASSUME Acknowledge PROVE [Ledger!Next]_Ledger!vars
  <2>1. (spool \ {cur}) \ raw = spool \ raw
    BY <1>23 DEF Acknowledge
  <2> QED
    BY <1>23, <2>1 DEF Acknowledge
<1>24. ASSUME Forward PROVE [Ledger!Next]_Ledger!vars
  BY <1>24 DEF Forward
<1>25. ASSUME PollSpectrum PROVE [Ledger!Next]_Ledger!vars
  BY <1>25 DEF PollSpectrum, Auxiliary, DbFails
<1>26. ASSUME Audit PROVE [Ledger!Next]_Ledger!vars
  BY <1>26 DEF Audit, Auxiliary, DbFails
<1>27. ASSUME Close PROVE [Ledger!Next]_Ledger!vars
  BY <1>27 DEF Close, DbFails
<1>28. ASSUME SpoolFault PROVE [Ledger!Next]_Ledger!vars
  BY <1>28 DEF SpoolFault, SqliteFails
<1>29. ASSUME NEW noDevice \in BOOLEAN, UsbFails(noDevice) PROVE [Ledger!Next]_Ledger!vars
  BY <1>29 DEF UsbFails, HandleUsbFailure
<1>30. ASSUME Signal PROVE [Ledger!Next]_Ledger!vars
  BY <1>30 DEF Signal
<1>31. ASSUME Crash PROVE [Ledger!Next]_Ledger!vars
  BY <1>31 DEF Crash, Ledger!Next, Ledger!Lose
<1>32. ASSUME Restart PROVE [Ledger!Next]_Ledger!vars
  BY <1>32 DEF Restart, Bootstrap
<1>33. ASSUME DatabaseDown PROVE [Ledger!Next]_Ledger!vars
  BY <1>33 DEF DatabaseDown
<1>34. ASSUME DatabaseUp PROVE [Ledger!Next]_Ledger!vars
  BY <1>34 DEF DatabaseUp
<1>35. ASSUME NEW noDevice \in BOOLEAN, AnswerLost(noDevice) PROVE [Ledger!Next]_Ledger!vars
  BY <1>35 DEF AnswerLost, HandleUsbFailure, Ledger!Next, Ledger!Miss,
     Ledger!DestructiveRead
<1>90. ASSUME UNCHANGED vars PROVE [Ledger!Next]_Ledger!vars
  BY <1>90 DEF vars
<1> HIDE DEF IndInv, SafeInv, ControlInv, Ledger!vars, dbVars, batchVars,
             procVars, Goto
<1> QED
  BY <1>1, <1>2, <1>3, <1>4, <1>5, <1>6, <1>7, <1>8, <1>9, <1>10, <1>11,
     <1>12, <1>13, <1>14, <1>15, <1>16, <1>17, <1>18, <1>19, <1>20, <1>21,
     <1>22, <1>23, <1>24, <1>25, <1>26, <1>27, <1>28, <1>29, <1>30, <1>31,
     <1>32, <1>33, <1>34, <1>35, <1>90
     DEF Next, Collector, Drain, PollData

\* The collector, its spool and PostgreSQL implement the ledger: every step is
\* a step of the abstract specification or changes nothing it can see.
THEOREM Implementation == Spec => ImplementsLedger
<1>1. Init => Ledger!Init
  BY DEF Init, Ledger!Init
<1> QED
  BY <1>1, LedgerStep, Invariance, PTL DEF Spec, ImplementsLedger, Ledger!Spec

\* Batches enter PostgreSQL in the order they were read: a property of the
\* ledger, inherited through the implementation.
THEOREM CommitsInOrder == Spec => OrderedCommits
<1>1. IndInv /\ [Next]_vars => [\A b \in raw' \ raw : \A c \in raw : c < b]_vars
  BY LedgerStep
     DEF Ledger!Next, Ledger!vars, Ledger!DestructiveRead, Ledger!Take,
         Ledger!Miss, Ledger!Accept, Ledger!Lose, Ledger!Commit
<1> QED
  BY <1>1, Invariance, PTL DEF Spec, OrderedCommits

\* Reading destroys the detector's copy; it only happens when nothing else
\* waits to be stored and the connection's row is in PostgreSQL.
THEOREM ReadsAreGuarded == Spec => ReadOnlyWhenDrained
<1> DEFINE Guarded == taken' # taken => /\ spool = {}
                                       /\ conn # 0
                                       /\ dbConns[conn] # "none"
<1>1. IndInv /\ [Next]_vars => [Guarded]_vars
  <2> SUFFICES ASSUME IndInv, [Next]_vars PROVE Guarded
    OBVIOUS
  <2>1. CASE ReadDataBuf \/ \E noDevice \in BOOLEAN : AnswerLost(noDevice)
    BY <2>1 DEF ReadDataBuf, AnswerLost, IndInv, SafeInv, ControlInv,
       ConnectionInv, InConnection
  <2>2. ASSUME ~ReadDataBuf, ~\E noDevice \in BOOLEAN : AnswerLost(noDevice)
        PROVE  taken' = taken
    BY <2>2, Zenon DEF Next, Collector, Drain, PollData, Auxiliary,
       batchVars, vars, Exit, Start, EnsureDevice, DrainStart,
       ReplayCommit, ReplayFails, ReplayAcknowledge, ReplayForward,
       DrainDone, Connect, ReadFirmware, RecordOpen, FirstAudit, Loop,
       NotDue, Gate, EnsureCapacity, AppendToSpool, AppendFails,
       CommitBatch, CommitFails, Acknowledge, Forward, PollSpectrum,
       Audit, Close, SpoolFault, UsbFails, Signal, Crash, Restart,
       DatabaseDown, DatabaseUp
  <2> QED
    BY <2>1, <2>2
<1> QED
  BY <1>1, Invariance, PTL DEF Spec, ReadOnlyWhenDrained

\* Events of a batch are only announced on the connection it was read on.
THEOREM EventsStayFresh == Spec => NoStaleEvents
<1> DEFINE Fresh == \A b \in Batch : announced'[b] # announced[b]
                      => conn # 0 /\ batchConn[b] = conn
<1>1. IndInv /\ [Next]_vars => [Fresh]_vars
  <2> SUFFICES ASSUME IndInv, [Next]_vars PROVE Fresh
    OBVIOUS
  <2>1. CASE Forward
    <3>1. announced' = [announced EXCEPT ![cur] = @ + 1] /\ pc = "forward"
      BY <2>1 DEF Forward
    <3>2. conn # 0 /\ batchConn[cur] = conn
      BY <3>1 DEF IndInv, SafeInv, ConnectionInv, InConnection
    <3> QED
      BY <3>1, <3>2 DEF IndInv, TypeOK
  <2>2. ASSUME ~Forward PROVE announced' = announced
    BY <2>2, Zenon DEF Next, Collector, Drain, PollData, Auxiliary,
       batchVars, vars, Exit, Start, EnsureDevice, DrainStart,
       ReplayCommit, ReplayFails, ReplayAcknowledge, ReplayForward,
       DrainDone, Connect, ReadFirmware, RecordOpen, FirstAudit, Loop,
       NotDue, Gate, EnsureCapacity, ReadDataBuf, AppendToSpool,
       AppendFails, CommitBatch, CommitFails, Acknowledge,
       PollSpectrum, Audit, Close, SpoolFault, UsbFails, AnswerLost,
       Signal, Crash, Restart, DatabaseDown, DatabaseUp
  <2> QED
    BY <2>1, <2>2
<1> QED
  BY <1>1, Invariance, PTL DEF Spec, NoStaleEvents

\* The telemetry shown on MQTT never goes back to an older batch.
THEOREM CacheMonotone == Spec => CacheNeverRegresses
<1> DEFINE Monotone == pc # "down" => cache <= cache'
<1>1. IndInv /\ [Next]_vars => [Monotone]_vars
  <2> SUFFICES ASSUME IndInv, [Next]_vars PROVE Monotone
    OBVIOUS
  <2>0. cache \in Int
    BY BoundsAssumption DEF IndInv, TypeOK
  <2>1. CASE ReplayForward \/ Forward
    <3>1. cache = 0 \/ cache \in raw
      BY DEF IndInv, SafeInv, OrderInv
    <3>2. cache <= cur
      BY <2>1, <3>1, BoundsAssumption
         DEF ReplayForward, Forward, IndInv, TypeOK, SafeInv, OrderInv
    <3> QED
      BY <2>1, <3>2 DEF ReplayForward, Forward
  <2>2. CASE Restart
    BY <2>2 DEF Restart
  <2>3. ASSUME ~ReplayForward, ~Forward, ~Restart PROVE cache' = cache
    BY <2>3, Zenon DEF Next, Collector, Drain, PollData, Auxiliary,
       procVars, vars, Exit, Start, EnsureDevice, DrainStart,
       ReplayCommit, ReplayFails, ReplayAcknowledge, DrainDone,
       Connect, ReadFirmware, RecordOpen, FirstAudit, Loop, NotDue,
       Gate, EnsureCapacity, ReadDataBuf, AppendToSpool, AppendFails,
       CommitBatch, CommitFails, Acknowledge, PollSpectrum, Audit,
       Close, SpoolFault, UsbFails, AnswerLost, Signal, Crash,
       DatabaseDown, DatabaseUp
  <2> QED
    BY <2>0, <2>1, <2>2, <2>3
<1> QED
  BY <1>1, Invariance, PTL DEF Spec, CacheNeverRegresses

\* The sum over an empty spool.
LEMMA EmptySpoolUses == spool = {} => UsedBytes = 0
<1> SUFFICES ASSUME spool = {} PROVE UsedBytes = 0
  OBVIOUS
<1> DEFINE sums(iter) ==
             [s \in SUBSET {} |->
                IF s = {} THEN 0
                ELSE LET x == CHOOSE y \in s : TRUE IN batchSize[x] + iter[s \ {x}]]
           zero == [s \in SUBSET {} |-> 0]
<1>1. sums(zero) = zero
  OBVIOUS
<1>2. \A iter : iter = sums(iter) => iter[{}] = 0
  OBVIOUS
<1> QED
  BY <1>1, <1>2 DEF UsedBytes, MapThenSumSet, MapThenFoldSet

\* What is counted is finite.
LEMMA CutShortFinite ==
  ASSUME TypeOK
  PROVE  IsFiniteSet(CutShort) /\ Cardinality(CutShort) \in Nat
<1>1. CutShort \in SUBSET (1..taken) /\ taken \in Int
  BY DEF CutShort, TypeOK
<1>2. IsFiniteSet(1..taken)
  BY <1>1, FS_Interval
<1> QED
  BY <1>1, <1>2, FS_Subset, FS_CardinalityType

\* The counters count.
LEMMA CountersType ==
  ASSUME TypeOK
  PROVE  /\ outages \in Nat /\ crashes \in Nat /\ faults \in Nat
         /\ Owed \in Nat /\ Owed <= 1
<1>1. outages \in Nat /\ crashes \in Nat /\ faults \in Nat
  BY DEF TypeOK
<1>2. Owed \in Nat /\ Owed <= 1
  BY DEF Owed
<1> QED
  BY <1>1, <1>2

\* A step that cuts a number of batches short (none, or the one in hand), and may
\* still owe another, has to pay for them.
LEMMA Paid ==
  ASSUME TypeOK, TypeOK', BudgetInv, drainer' # "gate",
         NEW cost \in Nat, NEW owing \in Nat,
         Cardinality(CutShort') <= Cardinality(CutShort) + cost,
         Cardinality(CutShort') \in Nat, Owed' = owing,
         NEW o \in Nat, NEW c \in Nat, NEW f \in Nat,
         outages' = o, crashes' = c, faults' = f,
         owing + cost + outages + crashes + faults <= Owed + o + c + f
  PROVE  BudgetInv'
<1>1. PICK k : k = Cardinality(CutShort)
  OBVIOUS
<1>2. PICK m : m = Cardinality(CutShort')
  OBVIOUS
<1>3. k \in Nat /\ m \in Nat /\ m <= k + cost
  BY <1>1, <1>2, CutShortFinite
<1>4. k + Owed <= outages + crashes + faults
  BY <1>1 DEF BudgetInv
<1>5. m + owing <= o + c + f
  BY <1>3, <1>4, CountersType
<1> QED
  BY <1>2, <1>5, Zenon DEF BudgetInv

\* Nothing more is cut short.
LEMMA CostsNothing ==
  ASSUME TypeOK, TypeOK', BudgetInv, drainer' # "gate",
         CutShort' \subseteq CutShort,
         NEW owing \in Nat, Owed' = owing,
         NEW o \in Nat, NEW c \in Nat, NEW f \in Nat,
         outages' = o, crashes' = c, faults' = f,
         owing + outages + crashes + faults <= Owed + o + c + f
  PROVE  BudgetInv'
<1>1. IsFiniteSet(CutShort) /\ Cardinality(CutShort) \in Nat
  BY CutShortFinite
<1>2. Cardinality(CutShort') <= Cardinality(CutShort) /\ Cardinality(CutShort') \in Nat
  BY <1>1, FS_Subset, FS_CardinalityType
<1>3. Cardinality(CutShort') <= Cardinality(CutShort) + 0
  <2>1. PICK k : k = Cardinality(CutShort)
    OBVIOUS
  <2>2. k = k + 0
    BY <1>1, <2>1
  <2> QED
    BY <1>2, <2>1, <2>2, Zenon
<1>4. owing + 0 + outages + crashes + faults <= Owed + o + c + f
  BY CountersType
<1> QED
  BY <1>2, <1>3, <1>4, Paid

\* One batch more is.
LEMMA CostsOne ==
  ASSUME TypeOK, TypeOK', BudgetInv, drainer' # "gate",
         NEW b, CutShort' \subseteq CutShort \cup {b}, Owed' = 0,
         NEW o \in Nat, NEW c \in Nat, NEW f \in Nat,
         outages' = o, crashes' = c, faults' = f,
         1 + outages + crashes + faults <= Owed + o + c + f
  PROVE  BudgetInv'
<1>1. IsFiniteSet(CutShort) /\ Cardinality(CutShort) \in Nat
  BY CutShortFinite
<1> DEFINE more == CutShort \cup {b}
<1>2. IsFiniteSet(more) /\ Cardinality(more) <= Cardinality(CutShort) + 1
  BY <1>1, FS_AddElement
<1>3. Cardinality(more) \in Nat
  BY <1>2, FS_CardinalityType
<1>4. CutShort' \subseteq more
  OBVIOUS
<1> HIDE DEF more
<1>5. Cardinality(CutShort') <= Cardinality(more) /\ Cardinality(CutShort') \in Nat
  BY <1>2, <1>4, FS_Subset, FS_CardinalityType
<1>6. PICK l, m : l = Cardinality(more) /\ m = Cardinality(CutShort')
  OBVIOUS
<1>7. m <= Cardinality(CutShort) + 1
  BY <1>1, <1>2, <1>3, <1>5, <1>6
<1>8. 0 + 1 + outages + crashes + faults <= Owed + o + c + f
  BY CountersType
<1> QED
  BY <1>5, <1>6, <1>7, <1>8, Paid

\* Nothing has failed, nothing is owed.
LEMMA BudgetInit == Init => BudgetInv
<1> SUFFICES ASSUME Init PROVE BudgetInv
  OBVIOUS
<1>1. CutShort = {} /\ Owed = 0
  BY DEF Init, CutShort, Owed
<1> QED
  BY <1>1, FS_EmptySet DEF Init, BudgetInv

\* The batch in hand, and what is counted, of a step that leaves batches alone.
LEMMA CutShortKept ==
  ASSUME UNCHANGED batchVars, InHand \subseteq InHand'
  PROVE  CutShort' \subseteq CutShort
BY DEF CutShort, batchVars

\* A new batch leaves the sizes of the others alone.
LEMMA SizesKept ==
  ASSUME TypeOK, taken < MaxBatches,
         \E s \in Sizes : batchSize' = [batchSize EXCEPT ![taken + 1] = s]
  PROVE  \A b \in 1..taken : batchSize'[b] = batchSize[b]
<1>1. \A b \in 1..taken : b \in Batch /\ b # taken + 1
  BY BoundsAssumption DEF TypeOK, Batch
<1> QED
  BY <1>1 DEF TypeOK

\* Each step pays for the batch it cuts short, if any.
LEMMA BudgetStep == IndInv /\ IndInv' /\ BudgetInv /\ [Next]_vars => BudgetInv'
<1> SUFFICES ASSUME IndInv, IndInv', BudgetInv, [Next]_vars PROVE BudgetInv'
  OBVIOUS
<1>0. TypeOK /\ TypeOK' /\ drainer # "gate"
  BY DEF IndInv, BudgetInv
<1>a. /\ outages \in Nat /\ crashes \in Nat /\ faults \in Nat /\ Owed \in Nat
  BY <1>0, CountersType
<1> DEFINE OutOfHand == pc \notin {"append", "commit", "ack", "forward"}
\* Steps outside poll_data_once that touch no batch.
<1>b. ASSUME OutOfHand, UNCHANGED batchVars, drainer' # "gate",
             pc' \notin {"reserve", "read", "append", "commit", "ack", "forward"},
             NEW o \in {outages, outages + 1}, outages' = o, UNCHANGED crashes,
             NEW f \in {faults, faults + 1}, faults' = f
      PROVE  BudgetInv'
  <2>1. InHand \subseteq InHand'
    BY <1>b DEF InHand
  <2>2. CutShort' \subseteq CutShort
    BY <1>b, <2>1, CutShortKept
  <2>3. Owed' = 0
    BY <1>b DEF Owed
  <2>4. o \in Nat /\ f \in Nat
        /\ 0 + outages + crashes + faults <= Owed + o + crashes + f
    BY <1>b, <1>a
  <2> QED
    BY <1>0, <1>a, <1>b, <2>2, <2>3, <2>4, CostsNothing
<1> USE DEF batchVars, dbVars, procVars, Goto
<1>1. ASSUME Exit PROVE BudgetInv'
  BY <1>0, <1>1, <1>a, <1>b DEF Exit
<1>2. ASSUME Start PROVE BudgetInv'
  BY <1>0, <1>2, <1>a, <1>b DEF Start
<1>3. ASSUME EnsureDevice PROVE BudgetInv'
  BY <1>0, <1>3, <1>a, <1>b DEF EnsureDevice, DbFails
<1>4. ASSUME DrainStart PROVE BudgetInv'
  BY <1>0, <1>4, <1>a, <1>b DEF DrainStart, WhenNotDrained
<1>5. ASSUME NEW b \in Batch, ReplayCommit(b) PROVE BudgetInv'
  BY <1>0, <1>5, <1>a, <1>b DEF ReplayCommit
<1>6. ASSUME NEW b \in Batch, ReplayFails(b) PROVE BudgetInv'
  BY <1>0, <1>6, <1>a, <1>b DEF ReplayFails, DbFails, WhenNotDrained, SqliteFails
<1>7. ASSUME ReplayAcknowledge PROVE BudgetInv'
  BY <1>0, <1>7, <1>a, <1>b DEF ReplayAcknowledge
<1>8. ASSUME ReplayForward PROVE BudgetInv'
  BY <1>0, <1>8, <1>a, <1>b DEF ReplayForward
<1>9. ASSUME DrainDone PROVE BudgetInv'
  BY <1>0, <1>9, <1>a, <1>b DEF DrainDone, WhenDrained, TypeOK
<1>10. ASSUME Connect PROVE BudgetInv'
  BY <1>0, <1>10, <1>a, <1>b DEF Connect
<1>11. ASSUME ReadFirmware PROVE BudgetInv'
  BY <1>0, <1>11, <1>a, <1>b DEF ReadFirmware
<1>12. ASSUME RecordOpen PROVE BudgetInv'
  BY <1>0, <1>12, <1>a, <1>b DEF RecordOpen, DbFails
<1>13. ASSUME FirstAudit PROVE BudgetInv'
  BY <1>0, <1>13, <1>a, <1>b DEF FirstAudit, Auxiliary, DbFails
<1>14. ASSUME Loop PROVE BudgetInv'
  BY <1>0, <1>14, <1>a, <1>b DEF Loop
<1>15. ASSUME NotDue PROVE BudgetInv'
  BY <1>0, <1>15, <1>a, <1>b DEF NotDue
\* The health check, in front of a drain that never finds work.
<1>16. ASSUME Gate PROVE BudgetInv'
  <2>1. ~MustDrain
    BY <1>16 DEF Gate, MustDrain, IndInv, SafeInv, ControlInv
  <2>2. drainer' # "gate" /\ Owed' = 0 /\ UNCHANGED <<outages, crashes, faults>>
    BY <1>0, <1>16, <2>1 DEF Gate, Owed
  <2>3. CutShort' \subseteq CutShort
    BY <1>16, CutShortKept DEF Gate, InHand
  <2> QED
    BY <1>0, <1>a, <2>2, <2>3, CostsNothing
<1>17. ASSUME EnsureCapacity PROVE BudgetInv'
  <2>1. drainer' # "gate" /\ UNCHANGED <<outages, crashes, faults>>
    BY <1>0, <1>17 DEF EnsureCapacity
  <2>2. Owed' \in {0, Owed}
    BY <1>17 DEF EnsureCapacity, Owed
  <2>3. CutShort' \subseteq CutShort
    BY <1>17, CutShortKept DEF EnsureCapacity, InHand
  <2> QED
    BY <1>0, <1>a, <2>1, <2>2, <2>3, CostsNothing
\* A batch is in hand from its read.
<1>18. ASSUME ReadDataBuf PROVE BudgetInv'
  <2>1. drainer' # "gate" /\ UNCHANGED <<outages, crashes, faults>>
    BY <1>0, <1>18 DEF ReadDataBuf
  <2>2. Owed' \in {0, Owed}
    BY <1>18 DEF ReadDataBuf, Owed
  <2>3. CASE pc' = "append"
    <3>1. taken' = taken + 1 /\ cur' = taken + 1 /\ UNCHANGED <<announced, lost>>
      BY <1>18, <2>3 DEF ReadDataBuf
    <3>2. \A b \in 1..taken : batchSize'[b] = batchSize[b]
      BY <1>0, <1>18, <2>3, SizesKept DEF ReadDataBuf
    <3>3. InHand = {} /\ InHand' = {taken + 1}
      BY <1>18, <2>3, <3>1 DEF InHand, ReadDataBuf
    <3>4. \A b \in 1..(taken + 1) : b \notin {taken + 1} => b \in 1..taken
      BY <1>0 DEF TypeOK
    <3>5. CutShort' \subseteq CutShort
      BY <3>1, <3>2, <3>3, <3>4 DEF CutShort
    <3> QED
      BY <1>0, <1>a, <2>1, <2>2, <3>5, CostsNothing
  <2>4. CASE pc' # "append"
    <3>1. CutShort' \subseteq CutShort
      BY <1>18, <2>4, CutShortKept DEF ReadDataBuf, InHand
    <3> QED
      BY <1>0, <1>a, <2>1, <2>2, <3>1, CostsNothing
  <2> QED
    BY <2>3, <2>4
<1>19. ASSUME AppendToSpool \/ CommitBatch \/ Acknowledge PROVE BudgetInv'
  <2>1. /\ pc \in {"append", "commit", "ack"} /\ pc' \in {"commit", "ack", "forward"}
        /\ UNCHANGED <<drainer, cur, dbUp, outages, crashes, faults, batchVars>>
    BY <1>19 DEF AppendToSpool, CommitBatch, Acknowledge
  <2>2. Owed' = Owed
    BY <2>1 DEF Owed
  <2>3. CutShort' \subseteq CutShort
    BY <2>1, CutShortKept DEF InHand
  <2> QED
    BY <1>0, <1>a, <2>1, <2>2, <2>3, CostsNothing
\* The spool is empty: only a batch larger than all of it finds no room.
<1>20. ASSUME AppendFails PROVE BudgetInv'
  <2>1. /\ InHand = {cur} /\ InHand' = {} /\ Owed' = 0 /\ drainer' # "gate"
        /\ lost' = lost \cup {cur}
        /\ UNCHANGED <<taken, announced, batchSize, outages, crashes>>
    BY <1>0, <1>20 DEF AppendFails, InHand, Owed
  <2>2. CASE UsedBytes + batchSize[cur] > SpoolMax /\ UNCHANGED faults
    <3>1. spool = {} /\ cur \in Batch
      BY <1>0, <1>20, CurIsBatch DEF AppendFails, IndInv, SafeInv, ControlInv, TypeOK
    <3>2. batchSize[cur] > SpoolMax
      BY <1>0, <2>2, <3>1, EmptySpoolUses, SettingsAssumption DEF TypeOK
    <3>3. ~(batchSize[cur] <= SpoolMax)
      BY <1>0, <3>1, <3>2, SettingsAssumption DEF TypeOK
    <3>4. CutShort' \subseteq CutShort
      BY <2>1, <3>3 DEF CutShort
    <3> QED
      BY <1>0, <1>a, <2>1, <2>2, <3>4, CostsNothing
  <2>3. CASE SqliteFails
    <3>1. CutShort' \subseteq CutShort \cup {cur}
      BY <2>1 DEF CutShort
    <3> QED
      BY <1>0, <1>a, <2>1, <2>3, <3>1, CostsOne DEF SqliteFails
  <2> QED
    BY <1>20, <2>2, <2>3 DEF AppendFails
\* The outage is this transaction's, or was owed.
<1>21. ASSUME CommitFails PROVE BudgetInv'
  <2>1. /\ InHand = {cur} /\ InHand' = {} /\ Owed' = 0 /\ drainer' # "gate"
        /\ UNCHANGED <<taken, announced, batchSize, lost, crashes>>
    BY <1>0, <1>21 DEF CommitFails, InHand, Owed
  <2>2. CutShort' \subseteq CutShort \cup {cur}
    BY <2>1 DEF CutShort
  <2>3. PICK o \in {outages, outages + 1}, f \in {faults, faults + 1} :
          outages' = o /\ faults' = f /\ (o = outages => ~dbUp)
    BY <1>21, <1>a DEF CommitFails, DbFails, SqliteFails
  <2>4. ~dbUp => Owed = 1
    BY <1>21 DEF CommitFails, Owed
  <2>5. o \in Nat /\ f \in Nat /\ 1 + outages + crashes + faults <= Owed + o + crashes + f
    BY <1>a, <2>3, <2>4
  <2> QED
    BY <1>0, <1>a, <2>1, <2>2, <2>3, <2>5, CostsOne
\* The batch leaves the hands of poll_data_once with its events announced.
<1>22. ASSUME Forward PROVE BudgetInv'
  <2>1. /\ InHand = {cur} /\ Owed' = 0 /\ drainer' # "gate"
        /\ announced' = [announced EXCEPT ![cur] = @ + 1]
        /\ UNCHANGED <<taken, batchSize, lost, outages, crashes, faults>>
    BY <1>0, <1>22 DEF Forward, InHand, Owed
  <2>2. cur \in Batch
    BY <1>0, <1>22, CurIsBatch DEF Forward, TypeOK
  <2>3. announced'[cur] # 0 /\ \A b \in Batch : announced[b] # 0 => announced'[b] # 0
    BY <1>0, <2>1, <2>2 DEF TypeOK
  <2>4. 1..taken \subseteq Batch
    BY <1>0, BoundsAssumption DEF TypeOK, Batch
  <2>5. CutShort' \subseteq CutShort
    BY <2>1, <2>3, <2>4 DEF CutShort
  <2> QED
    BY <1>0, <1>a, <2>1, <2>5, CostsNothing
<1>23. ASSUME PollSpectrum PROVE BudgetInv'
  BY <1>0, <1>23, <1>a, <1>b DEF PollSpectrum, Auxiliary, DbFails
<1>24. ASSUME Audit PROVE BudgetInv'
  BY <1>0, <1>24, <1>a, <1>b DEF Audit, Auxiliary, DbFails
<1>25. ASSUME Close PROVE BudgetInv'
  BY <1>0, <1>25, <1>a, <1>b DEF Close, DbFails
\* An SQLite error or a kill takes the batch out of hand, and pays for it.
<1>26. ASSUME SpoolFault \/ Crash PROVE BudgetInv'
  <2>1. /\ InHand' = {} /\ Owed' = 0 /\ drainer' # "gate"
        /\ UNCHANGED <<taken, announced, batchSize, outages>>
        /\ lost \subseteq lost' /\ InHand \subseteq {cur}
    BY <1>0, <1>26 DEF SpoolFault, Crash, InHand, Owed
  <2>2. CutShort' \subseteq CutShort \cup {cur}
    BY <1>26, <2>1 DEF CutShort
  <2>3. PICK c \in Nat, f \in Nat :
          crashes' = c /\ faults' = f /\ c + f = crashes + faults + 1
    BY <1>26, <1>a DEF SpoolFault, Crash, SqliteFails
  <2>4. 1 + outages + crashes + faults <= Owed + outages + c + f
    BY <1>a, <2>3
  <2> QED
    BY <1>0, <1>a, <2>1, <2>2, <2>3, <2>4, CostsOne
<1>27. ASSUME NEW noDevice \in BOOLEAN, UsbFails(noDevice) PROVE BudgetInv'
  BY <1>0, <1>27, <1>a, <1>b DEF UsbFails, HandleUsbFailure
<1>28. ASSUME Signal PROVE BudgetInv'
  <2>1. Owed' = Owed /\ drainer' # "gate" /\ InHand' = InHand /\ UNCHANGED batchVars
    BY <1>0, <1>28 DEF Signal, Owed, InHand
  <2>2. crashes' = crashes + 1 /\ UNCHANGED <<outages, faults>>
    BY <1>28 DEF Signal
  <2>3. PICK owing \in Nat : Owed' = owing /\ owing <= Owed + 1
    BY <1>a, <2>1
  <2>4. crashes + 1 \in Nat /\ owing + outages + crashes + faults <= Owed + outages + crashes + 1 + faults
    BY <1>a, <2>3
  <2>5. CutShort' \subseteq CutShort
    BY <2>1, CutShortKept
  <2> QED
    BY <1>0, <1>a, <2>1, <2>2, <2>3, <2>4, <2>5, CostsNothing
<1>29. ASSUME Restart PROVE BudgetInv'
  BY <1>0, <1>29, <1>a, <1>b DEF Restart
\* An outage may yet catch the batch in hand, or the next one.
<1>30. ASSUME DatabaseDown PROVE BudgetInv'
  <2>1. Owed' \in {0, 1} /\ drainer' # "gate" /\ InHand' = InHand /\ UNCHANGED batchVars
    BY <1>0, <1>30 DEF DatabaseDown, Owed, InHand
  <2>2. outages' = outages + 1 /\ UNCHANGED <<crashes, faults>>
    BY <1>30 DEF DatabaseDown
  <2>3. PICK owing \in Nat : Owed' = owing /\ owing <= Owed + 1
    BY <1>a, <2>1
  <2>4. outages + 1 \in Nat /\ owing + outages + crashes + faults <= Owed + outages + 1 + crashes + faults
    BY <1>a, <2>3
  <2>5. CutShort' \subseteq CutShort
    BY <2>1, CutShortKept
  <2> QED
    BY <1>0, <1>a, <2>1, <2>2, <2>3, <2>4, <2>5, CostsNothing
<1>31. ASSUME DatabaseUp \/ UNCHANGED vars PROVE BudgetInv'
  <2>1. Owed' \in {0, Owed} /\ drainer' # "gate" /\ InHand' = InHand
        /\ UNCHANGED batchVars
    BY <1>0, <1>31 DEF DatabaseUp, vars, Owed, InHand
  <2>2. UNCHANGED <<outages, crashes, faults>>
    BY <1>31 DEF DatabaseUp, vars
  <2> QED
    BY <1>0, <1>a, <2>1, <2>2, CutShortKept, CostsNothing
\* The lost answer is paid for, and nothing was in hand.
<1>32. ASSUME NEW noDevice \in BOOLEAN, AnswerLost(noDevice) PROVE BudgetInv'
  <2>1. /\ InHand = {} /\ InHand' = {} /\ Owed' = 0 /\ drainer' # "gate"
        /\ taken' = taken + 1
        /\ UNCHANGED <<announced, outages, crashes>> /\ faults' = faults + 1
    BY <1>0, <1>32 DEF AnswerLost, HandleUsbFailure, InHand, Owed
  <2>2. \A b \in 1..taken : batchSize'[b] = batchSize[b]
    BY <1>0, <1>32, SizesKept DEF AnswerLost
  <2>3. \A b \in 1..(taken + 1) : b \in 1..taken \/ b = taken + 1
    BY <1>0 DEF TypeOK
  <2>5. CutShort' \subseteq CutShort \cup {taken + 1}
    <3>1. lost' = lost \cup {taken + 1}
      BY <1>32 DEF AnswerLost
    <3> QED
      BY <2>1, <2>2, <2>3, <3>1 DEF CutShort
  <2>6. faults + 1 \in Nat
        /\ 1 + outages + crashes + faults <= Owed + outages + crashes + (faults + 1)
    BY <1>a
  <2> QED
    BY <1>0, <1>a, <2>1, <2>5, <2>6, CostsOne
<1> HIDE DEF batchVars, dbVars, procVars, Goto
<1> QED
  BY <1>1, <1>2, <1>3, <1>4, <1>5, <1>6, <1>7, <1>8, <1>9, <1>10, <1>11,
     <1>12, <1>13, <1>14, <1>15, <1>16, <1>17, <1>18, <1>19, <1>20, <1>21,
     <1>22, <1>23, <1>24, <1>25, <1>26, <1>27, <1>28, <1>29, <1>30, <1>31, <1>32
     DEF Next, Collector, Drain, PollData

\* Whatever recovers from it, an outage, a kill, an SQLite error or a lost answer
\* costs at most one batch: the batch itself, or the announcement of its events.
THEOREM OneBatchPerFailure == Spec => []FailuresCostOneBatch
<1>1. BudgetInv /\ IndInv => FailuresCostOneBatch
  <2> SUFFICES ASSUME BudgetInv, TypeOK PROVE FailuresCostOneBatch
    BY DEF IndInv
  <2>1. Cardinality(CutShort) \in Nat /\ Owed \in Nat
    BY CutShortFinite DEF Owed
  <2> QED
    BY <2>1 DEF BudgetInv, FailuresCostOneBatch, TypeOK
<1> QED
  BY <1>1, Invariance, BudgetInit, BudgetStep, PTL DEF Spec
=============================================================================
