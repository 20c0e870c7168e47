---------------------------- MODULE DurableLedger ----------------------------
(***************************************************************************)
(* What acquisition promises about DATA_BUF, without the collector loop,   *)
(* the spool or the database: a batch is taken from the detector (reading  *)
(* it destroys the detector's copy), is then either made durable or lost,  *)
(* and every durable batch enters the ledger once, in the order in which   *)
(* the batches were taken.                                                 *)
(***************************************************************************)
EXTENDS Integers

CONSTANT MaxBatches  \* bound on the batches the detector produces

VARIABLES
  taken,     \* how many batches were read; batch n is the n-th one read
  inflight,  \* the batch held only in memory, 0 when there is none
  pending,   \* durable batches that are not in the ledger yet
  ledger,    \* batches in the authoritative store
  lost       \* batches that were taken and never became durable

vars == <<taken, inflight, pending, ledger, lost>>

Batch == 1..MaxBatches

Init ==
  /\ taken = 0
  /\ inflight = 0
  /\ pending = {}
  /\ ledger = {}
  /\ lost = {}

\* A destructive read; nothing else may be outstanding at that moment.
DestructiveRead ==
  /\ inflight = 0
  /\ pending = {}
  /\ taken < MaxBatches
  /\ taken' = taken + 1

Take ==
  /\ DestructiveRead
  /\ inflight' = taken + 1
  /\ UNCHANGED <<pending, ledger, lost>>

\* The batch is lost on its way from the detector.
Miss ==
  /\ DestructiveRead
  /\ lost' = lost \cup {taken + 1}
  /\ UNCHANGED <<inflight, pending, ledger>>

Accept ==
  /\ inflight # 0
  /\ pending' = pending \cup {inflight}
  /\ inflight' = 0
  /\ UNCHANGED <<taken, ledger, lost>>

Lose ==
  /\ inflight # 0
  /\ lost' = lost \cup {inflight}
  /\ inflight' = 0
  /\ UNCHANGED <<taken, pending, ledger>>

Commit(b) ==
  /\ b \in pending
  /\ \A c \in ledger : c < b
  /\ ledger' = ledger \cup {b}
  /\ pending' = pending \ {b}
  /\ UNCHANGED <<taken, inflight, lost>>

Next ==
  \/ Take
  \/ Miss
  \/ Accept
  \/ Lose
  \/ \E b \in Batch : Commit(b)

Spec == Init /\ [][Next]_vars
=============================================================================
