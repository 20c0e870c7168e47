--------------------------- MODULE ReallocationProofs ---------------------------
(***************************************************************************)
(* Of the reallocation of a lost detector, for every delay and however     *)
(* many pods, connections and faults: only pods that lost theirs are       *)
(* deleted, a request lasts, and it is carried out after the whole delay.  *)
(***************************************************************************)
EXTENDS Reallocation, TLAPS

-----------------------------------------------------------------------------
(* The strengthening. *)

\* What the file holds now, or will after a restart of the node, and what the
\* reallocator has observed.
Known == afterCrash \cup {file, observed}

\* Whatever names a pod as lost names one that was.
Truthful ==
  /\ \A content \in Known : content \in Marker => content.pod \in lost
  /\ requests \subseteq lost
  /\ deleted \subseteq lost
  /\ collector \in Writing => pod \in lost

\* A connection leaves at most one marker, so the next one is a new one.
Fresh ==
  \A content \in Known :
    content \in Marker =>
      /\ content.connection <= connection
      /\ collector \in {"connected", "created", "written", "synced"} =>
           content.connection < connection

\* A request of this pod is on disk, and no later pod has made any.
Durable ==
  /\ pod \in requested =>
       \A content \in afterCrash \cup {file} : content \in Marker /\ content.pod = pod
  /\ collector = "replaced" => file = Own
  /\ requested \subseteq 1..pod

\* The reallocator has not waited for longer than the file has held the marker.
Waited ==
  reallocator = "polling" /\ observed \in Marker /\ observed = file => waited <= lasted

\* A missing and a garbled file are told from markers.
LEMMA NoMarkers == NoFile \notin Marker /\ Garbled \notin Marker
<1>1. \A m \in Marker : m.pod # 0
  BY ReallocationAssumption, SMT DEF Marker, Pods
<1>2. NoFile.pod = 0 /\ Garbled.pod = 0
  BY DEF NoFile, Garbled
<1> QED BY <1>1, <1>2

\* What a collector writes names its pod and connection.
LEMMA OwnIsMarker ==
  ASSUME TypeOK, collector \in {"connected"} \cup Writing
  PROVE  Own \in Marker /\ Own.pod = pod /\ Own.connection = connection
<1>1. connection \in 1..MaxConnections /\ pod \in Pods
  BY ReallocationAssumption, SMT DEF TypeOK
<1> QED BY <1>1 DEF Own, Marker

\* The wait counts no further than the delay.
LEMMA UpTyped ==
  \A n \in 0..Wait : Up(n) \in 0..Wait
BY ReallocationAssumption, SMT DEF Up

\* No step breaks the types.
LEMMA TypeOKKept == TypeOK /\ [Next]_vars => TypeOK'
<1> SUFFICES ASSUME TypeOK, [Next]_vars PROVE TypeOK'
  OBVIOUS
<1> USE DEF TypeOK, collectorVars, fileVars, reallocatorVars, clusterVars, history
<1>0. /\ TRUE \in BOOLEAN /\ FALSE \in BOOLEAN
      /\ MaxPods \in Nat \ {0} /\ MaxConnections \in Nat /\ MaxFaults \in Nat /\ Wait \in Nat
      /\ pod \in Nat /\ connection \in Nat /\ faults \in Nat
      /\ 0 \in 0..Wait
  <2>1. TRUE \in BOOLEAN /\ FALSE \in BOOLEAN
    BY Zenon
  <2> QED BY <2>1, ReallocationAssumption, SMT DEF Pods
<1>f. Fault => faults' \in 0..MaxFaults
  BY <1>0, SMT DEF Fault
<1>c. NoFile \in Content /\ Content = Marker \cup {NoFile, Garbled}
  BY DEF Content
<1>1. CASE StartCollector
  <2>1. collector' \notin {"connected"} \cup Writing
    BY <1>1, SMT DEF StartCollector, Writing
  <2> QED BY <1>1, <2>1, SMT DEF StartCollector
<1>2. CASE Connect
  <2>1. connection' \in 0..MaxConnections /\ connection' > 0
    BY <1>2, <1>0, SMT DEF Connect
  <2> QED BY <1>2, <2>1 DEF Connect
<1>3. ASSUME NEW noDevice \in BOOLEAN, UsbFailure(noDevice) PROVE TypeOK'
  <2>1. /\ collector' \in {"down", "running", "connected"} \cup Writing
        /\ connection' \in 0..MaxConnections /\ connection' > 0
    BY <1>3, SMT DEF UsbFailure, Writing
  <2>2. lost' \subseteq Pods
    BY <1>3 DEF UsbFailure
  <2> QED BY <1>3, <2>1, <2>2, Zenon DEF UsbFailure
<1>4. CASE WriteTemporary
  <2>1. /\ collector' \in {"down", "running", "connected"} \cup Writing
        /\ connection > 0
    BY <1>4, SMT DEF WriteTemporary, Writing
  <2> QED BY <1>4, <2>1 DEF WriteTemporary
<1>5. CASE Replace
  <2>1. Own \in Content
    BY <1>5, OwnIsMarker, SMT DEF Replace, Writing, Content
  <2>2. collector' \in {"down", "running", "connected"} \cup Writing /\ connection > 0
    BY <1>5, SMT DEF Replace, Writing
  <2> QED BY <1>5, <1>0, <2>1, <2>2, Zenon DEF Replace
<1>6. CASE SyncDirectory
  <2>1. collector' \notin {"connected"} \cup Writing
    BY <1>6, SMT DEF SyncDirectory, Writing
  <2> QED BY <1>6, <2>1, SMT DEF SyncDirectory
<1>7. CASE CollectorDies
  <2>1. collector' \notin {"connected"} \cup Writing
    BY <1>7, SMT DEF CollectorDies, Writing
  <2> QED BY <1>7, <1>f, <2>1, SMT DEF CollectorDies
<1>8. CASE NodeRestart
  <2>1. collector' \notin {"connected"} \cup Writing
    BY <1>8, SMT DEF NodeRestart, Writing
  <2>2. file' \in Content /\ afterCrash' \subseteq Content /\ lasted' \in 0..Wait
    BY <1>8, <1>0 DEF NodeRestart
  <2> QED BY <1>8, <1>f, <2>1, <2>2, SMT DEF NodeRestart
<1>9. CASE StartReallocator
  BY <1>9, <1>0, <1>c DEF StartReallocator
<1>10. CASE Tick
  BY <1>10, UpTyped DEF Tick
<1>11. CASE Observe
  <2>1. observed' \in Content /\ waited' \in 0..Wait
    BY <1>11, <1>0, <1>c, Zenon DEF Observe, Read
  <2> QED BY <1>11, <2>1 DEF Observe
<1>12. CASE Delete
  BY <1>12 DEF Delete
<1>13. ASSUME NEW uid \in Pods, Accept(uid) \/ Conflict(uid) \/ Refuse(uid) PROVE TypeOK'
  <2>1. /\ requests' \subseteq Pods /\ deleted' \subseteq Pods
        /\ reallocator' \in {"down", "polling", "deleting"}
        /\ terminating' \in BOOLEAN /\ faults' \in 0..MaxFaults
    BY <1>13, <1>0, <1>f DEF Accept, Conflict, Refuse, Answered
  <2> QED BY <1>13, <2>1 DEF Accept, Conflict, Refuse
<1>14. CASE ReallocatorDies
  BY <1>14, <1>f DEF ReallocatorDies
<1>15. CASE Evict
  BY <1>15, <1>0, <1>f DEF Evict
<1>16. CASE NewPod
  <2>0. terminating' \in BOOLEAN
    BY <1>16, <1>0 DEF NewPod
  <2>1. pod' \in Pods
    BY <1>16, <1>0, SMT DEF NewPod, Pods
  <2>2. collector' \notin {"connected"} \cup Writing /\ collector' = "down"
    BY <1>16, SMT DEF NewPod, Writing
  <2>3. file' \in Content /\ afterCrash' \subseteq Content /\ lasted' \in 0..Wait
    BY <1>16, <1>0, <1>c DEF NewPod
  <2> QED BY <1>16, <2>0, <2>1, <2>2, <2>3 DEF NewPod
<1>17. CASE UNCHANGED vars
  BY <1>17, Zenon DEF vars
<1> QED
  BY <1>1, <1>2, <1>3, <1>4, <1>5, <1>6, <1>7, <1>8, <1>9, <1>10, <1>11, <1>12, <1>13,
     <1>14, <1>15, <1>16, <1>17 DEF Next, Collect, Answer

\* TypeOK: markers name pods and connections that were, the reallocator waits no
\* further than the delay.
THEOREM TypeCorrect == Spec => []TypeOK
<1>1. Init => TypeOK
  <2>1. FALSE \in BOOLEAN /\ NoFile \in Content
    BY Zenon DEF Content
  <2>2. 1 \in Pods /\ 0 \in 0..MaxConnections /\ 0 \in 0..Wait /\ 0 \in 0..MaxFaults
    BY ReallocationAssumption, SMT DEF Pods
  <2>3. "down" \notin {"connected"} \cup Writing
    BY SMT DEF Writing
  <2> QED BY <2>1, <2>2, <2>3, Zenon DEF Init, TypeOK
<1> QED BY <1>1, TypeOKKept, PTL DEF Spec

-----------------------------------------------------------------------------
(* Only lost pods are deleted. *)

\* Steps that only take knowledge away keep it truthful and fresh.
LEMMA LessKnown ==
  ASSUME Truthful, Known' \subseteq Known \cup {NoFile}, lost \subseteq lost',
         requests' \subseteq requests, deleted' \subseteq deleted \cup requests,
         collector' \in Writing => pod' \in lost'
  PROVE  Truthful'
<1>1. \A content \in Known' : content \in Marker => content \in Known
  BY NoMarkers
<1>2. requests' \subseteq lost' /\ deleted' \subseteq lost'
  BY DEF Truthful
<1>3. \A content \in Known' : content \in Marker => content.pod \in lost'
  BY <1>1 DEF Truthful
<1> QED BY <1>2, <1>3, Zenon DEF Truthful

\* No step makes a marker of a pod that did not lose its detector.
LEMMA TruthfulKept == TypeOK /\ Truthful /\ [Next]_vars => Truthful'
<1> SUFFICES ASSUME TypeOK, Truthful, [Next]_vars PROVE Truthful'
  OBVIOUS
<1> USE DEF collectorVars, fileVars, reallocatorVars, clusterVars, history
<1>1. CASE UNCHANGED vars
  BY <1>1, Zenon DEF vars, Truthful, Known
<1>2. CASE StartCollector \/ Connect \/ SyncDirectory \/ CollectorDies
  <2>1. /\ Known' \subseteq Known /\ lost' = lost /\ requests' = requests /\ deleted' = deleted
    BY <1>2 DEF StartCollector, Connect, SyncDirectory, CollectorDies, Known
  <2>2. collector' \notin Writing
    BY <1>2, SMT DEF StartCollector, Connect, SyncDirectory, CollectorDies, Writing
  <2> QED BY <2>1, <2>2, LessKnown
<1>3. ASSUME NEW noDevice \in BOOLEAN, UsbFailure(noDevice) PROVE Truthful'
  <2>1. Known' = Known /\ lost \subseteq lost' /\ requests' = requests /\ deleted' = deleted
    BY <1>3 DEF UsbFailure, Known
  <2>2. collector' \in Writing => pod' \in lost'
    BY <1>3, SMT DEF UsbFailure, Writing
  <2> QED BY <2>1, <2>2, LessKnown
<1>4. CASE WriteTemporary
  <2>1. Known' = Known /\ lost' = lost /\ requests' = requests /\ deleted' = deleted
    BY <1>4 DEF WriteTemporary, Known
  <2>2. pod' = pod /\ collector \in Writing
    BY <1>4, SMT DEF WriteTemporary, Writing
  <2> QED BY <2>1, <2>2, LessKnown DEF Truthful
<1>5. CASE Replace
  <2>1. /\ Known' \subseteq Known \cup {Own}
        /\ lost' = lost /\ requests' = requests /\ deleted' = deleted /\ pod' = pod
    BY <1>5 DEF Replace, Known
  <2>2. collector \in Writing
    BY <1>5, SMT DEF Replace, Writing
  <2>3. Own.pod \in lost
    BY <2>2 DEF Own, Truthful
  <2> QED BY <2>1, <2>2, <2>3 DEF Truthful
<1>6. CASE NodeRestart
  <2>1. /\ Known' \subseteq Known /\ lost' = lost /\ requests' = requests /\ deleted' = deleted
    BY <1>6 DEF NodeRestart, Known
  <2>2. collector' \notin Writing
    BY <1>6, SMT DEF NodeRestart, Writing
  <2> QED BY <2>1, <2>2, LessKnown
<1>7. CASE StartReallocator \/ Tick \/ Observe \/ ReallocatorDies \/ Evict
  <2>1. /\ Known' \subseteq Known \cup {NoFile}
        /\ lost' = lost /\ requests' = requests /\ deleted' = deleted
        /\ pod' = pod /\ collector' = collector
    BY <1>7 DEF StartReallocator, Tick, Observe, ReallocatorDies, Evict, Known, Read
  <2> QED BY <2>1, LessKnown DEF Truthful
<1>8. CASE Delete
  <2>1. Known' = Known /\ lost' = lost /\ deleted' = deleted /\ pod' = pod /\ collector' = collector
    BY <1>8 DEF Delete, Known
  <2>2. requests' = requests \cup {pod} /\ Read # NoFile
    BY <1>8 DEF Delete
  <2>3. file \in Marker /\ file.pod = pod
    <3>1. Read = file /\ file.pod = pod
      BY <2>2 DEF Read
    <3>2. file.pod # 0 /\ NoFile.pod = 0 /\ Garbled.pod = 0
      BY <3>1, ReallocationAssumption, SMT DEF TypeOK, Pods, NoFile, Garbled
    <3> QED BY <3>1, <3>2 DEF TypeOK, Content
  <2>4. pod \in lost
    BY <2>3 DEF Truthful, Known
  <2> QED BY <2>1, <2>2, <2>4, Zenon DEF Truthful
<1>9. ASSUME NEW uid \in Pods, Accept(uid) \/ Conflict(uid) \/ Refuse(uid) PROVE Truthful'
  <2>1. /\ Known' = Known /\ lost' = lost /\ requests' \subseteq requests
        /\ deleted' \subseteq deleted \cup requests
        /\ pod' = pod /\ collector' = collector
    BY <1>9 DEF Accept, Conflict, Refuse, Answered, Known
  <2> QED BY <2>1, LessKnown DEF Truthful
<1>10. CASE NewPod
  <2>1. /\ Known' \subseteq Known \cup {NoFile}
        /\ lost' = lost /\ requests' = requests /\ deleted' = deleted
    BY <1>10 DEF NewPod, Known
  <2>2. collector' \notin Writing
    BY <1>10, SMT DEF NewPod, Writing
  <2> QED BY <2>1, <2>2, LessKnown
<1> QED
  BY <1>1, <1>2, <1>3, <1>4, <1>5, <1>6, <1>7, <1>8, <1>9, <1>10 DEF Next, Collect, Answer

\* OnlyLostPodsDeleted: no marker kept from an earlier pod, no request that comes
\* late and no failure but NO_DEVICE of an established connection deletes a pod.
THEOREM OnlyLostDeleted == Spec => []OnlyLostPodsDeleted
<1>1. Init => Truthful
  <2>1. NoFile \notin Marker
    BY NoMarkers
  <2> QED BY <2>1, SMT DEF Init, Truthful, Known, Writing
<1>2. Truthful => OnlyLostPodsDeleted
  BY DEF Truthful, OnlyLostPodsDeleted
<1> QED BY <1>1, <1>2, TypeCorrect, TruthfulKept, PTL DEF Spec

-----------------------------------------------------------------------------
(* A request lasts. *)

\* No step, a restart of the node among them, takes a requested marker away.
LEMMA DurableKept == TypeOK /\ Durable /\ [Next]_vars => Durable'
<1> SUFFICES ASSUME TypeOK, Durable, [Next]_vars PROVE Durable'
  OBVIOUS
<1> USE DEF collectorVars, fileVars, reallocatorVars, clusterVars, history
<1>1. CASE Replace
  <2>1. Own \in Marker /\ Own.pod = pod /\ Own' = Own
    BY <1>1, OwnIsMarker, SMT DEF Replace, Writing, Own
  <2> QED BY <1>1, <2>1 DEF Replace, Durable
<1>2. CASE SyncDirectory
  <2>1. file = Own /\ Own \in Marker /\ Own.pod = pod
    BY <1>2, OwnIsMarker, SMT DEF SyncDirectory, Writing, Durable
  <2>2. requested' \subseteq 1..pod'
    BY <1>2, SMT DEF SyncDirectory, Durable, TypeOK, Pods
  <2> QED BY <1>2, <2>1, <2>2 DEF SyncDirectory, Durable
<1>3. CASE NodeRestart
  BY <1>3 DEF NodeRestart, Durable
<1>4. CASE NewPod
  <2>1. pod' \notin requested /\ requested \subseteq 1..pod'
    BY <1>4, SMT DEF NewPod, Durable, TypeOK, Pods
  <2> QED BY <1>4, <2>1 DEF NewPod, Durable
<1>5. ASSUME ~Replace, ~SyncDirectory, ~NodeRestart, ~NewPod PROVE Durable'
  <2>1. /\ UNCHANGED <<pod, requested, file, afterCrash>>
        /\ collector' = "replaced" => UNCHANGED <<collector, connection>>
    BY <1>5 DEF Next, Collect, Answer, StartCollector, Connect, UsbFailure, WriteTemporary,
       CollectorDies, StartReallocator, Tick, Observe, Delete, ReallocatorDies,
       Accept, Conflict, Refuse, Evict, vars
  <2> QED BY <2>1 DEF Durable, Own
<1> QED BY <1>1, <1>2, <1>3, <1>4, <1>5

\* RequestLasts: no death of a process or of the node undoes a request whose
\* collector has exited.
THEOREM RequestsLast == Spec => []RequestLasts
<1>1. Init => Durable
  BY SMT DEF Init, Durable
<1>2. Durable => RequestLasts
  BY DEF Durable, RequestLasts
<1> QED BY <1>1, <1>2, TypeCorrect, DurableKept, PTL DEF Spec

-----------------------------------------------------------------------------
(* And is carried out after the whole delay. *)

\* No step leaves a second marker of the connection that may still write one.
LEMMA FreshKept == TypeOK /\ Fresh /\ [Next]_vars => Fresh'
<1> SUFFICES ASSUME TypeOK, Fresh, [Next]_vars PROVE Fresh'
  OBVIOUS
<1> USE DEF collectorVars, fileVars, reallocatorVars, clusterVars, history
<1>t. /\ connection \in Nat
      /\ \A content \in Known : content \in Marker => content.connection \in Nat
  BY SMT DEF TypeOK, Marker
<1>1. CASE Connect
  <2>1. Known' = Known /\ connection' = connection + 1
    BY <1>1 DEF Connect, Known
  <2>2. \A content \in Known : content \in Marker =>
          content.connection <= connection + 1 /\ content.connection < connection + 1
    BY <1>t, SMT DEF Fresh
  <2> QED BY <2>1, <2>2, Zenon DEF Fresh
<1>2. CASE Replace
  <2>1. Own \in Marker /\ Own.connection = connection
    BY <1>2, OwnIsMarker, SMT DEF Replace, Writing
  <2>2. /\ Known' \subseteq Known \cup {Own} /\ connection' = connection
        /\ collector' = "replaced"
    BY <1>2 DEF Replace, Known
  <2>3. collector' \notin {"connected", "created", "written", "synced"}
    BY <2>2, SMT
  <2>4. connection <= connection
    BY <1>t, SMT
  <2> QED BY <2>1, <2>2, <2>3, <2>4, Zenon DEF Fresh
<1>3. ASSUME ~Connect, ~Replace PROVE Fresh'
  <2>1. Known' \subseteq Known \cup {NoFile} /\ connection' = connection
    BY <1>3 DEF Next, Collect, Answer, StartCollector, UsbFailure, WriteTemporary,
       SyncDirectory, CollectorDies, NodeRestart, StartReallocator, Tick, Observe, Read,
       Delete, ReallocatorDies, Accept, Conflict, Refuse, Evict, NewPod, vars, Known
  <2>2. collector' \in {"connected", "created", "written", "synced"} =>
        collector \in {"connected", "created", "written", "synced"}
    BY <1>3, SMT DEF Next, Collect, Answer, StartCollector, UsbFailure, WriteTemporary,
       SyncDirectory, CollectorDies, NodeRestart, StartReallocator, Tick, Observe,
       Delete, ReallocatorDies, Accept, Conflict, Refuse, Evict, NewPod, vars
  <2>3. \A content \in Known' : content \in Marker => content \in Known
    BY <2>1, NoMarkers
  <2> QED BY <2>1, <2>2, <2>3, Zenon DEF Fresh
<1> QED BY <1>1, <1>2, <1>3

\* The observed marker has been in the file as long as was waited for it.
LEMMA WaitedKept == TypeOK /\ Fresh /\ Waited /\ [Next]_vars => Waited'
<1> SUFFICES ASSUME TypeOK, Fresh, Waited, [Next]_vars,
                    reallocator' = "polling", observed' \in Marker, observed' = file'
             PROVE  waited' <= lasted'
  BY DEF Waited
<1> USE DEF collectorVars, fileVars, reallocatorVars, clusterVars, history
<1>1. CASE Tick
  BY <1>1, ReallocationAssumption, SMT DEF Tick, Up, Waited, TypeOK
<1>2. CASE Replace
  <2>1. observed' = observed /\ file' = Own
    BY <1>2 DEF Replace
  <2>2. observed \in Known /\ observed \in Marker
    BY <2>1 DEF Known
  <2>3. observed.connection < connection
    BY <1>2, <2>2, SMT DEF Fresh, Replace
  <2>4. Own.connection = connection
    BY DEF Own
  <2>5. ~(connection < connection)
    BY ReallocationAssumption, SMT DEF TypeOK
  <2> QED BY <2>1, <2>3, <2>4, <2>5, Zenon
<1>3. CASE Observe
  <2>1. waited' = 0 /\ lasted' = lasted
    BY <1>3, NoMarkers DEF Observe
  <2> QED BY <2>1, ReallocationAssumption, SMT DEF TypeOK
<1>4. CASE StartReallocator
  BY <1>4, NoMarkers DEF StartReallocator
<1>5. CASE NodeRestart \/ NewPod
  BY <1>5, SMT DEF NodeRestart, NewPod
<1>6. ASSUME ~Tick, ~Replace, ~Observe, ~StartReallocator, ~(NodeRestart \/ NewPod)
      PROVE  waited' <= lasted'
  <2>1. UNCHANGED <<observed, waited, file, lasted>> /\ reallocator = "polling"
    BY <1>6 DEF Next, Collect, Answer, StartCollector, Connect, UsbFailure, WriteTemporary,
       SyncDirectory, CollectorDies, Delete, ReallocatorDies, Accept, Conflict, Refuse,
       Answered, Evict, vars
  <2> QED BY <2>1 DEF Waited
<1> QED BY <1>1, <1>2, <1>3, <1>4, <1>5, <1>6

\* DeletesAfterDelay: every request to delete a pod was preceded by one marker of
\* it lasting for the whole delay.
THEOREM DeletesOnlyAfterDelay == Spec => DeletesAfterDelay
<1> DEFINE A == \A uid \in requests' \ requests :
                  /\ uid = pod /\ file \in Marker /\ file.pod = pod
                  /\ lasted = Wait
<1>1. Init => Fresh /\ Waited
  BY NoMarkers DEF Init, Fresh, Waited, Known
<1>2. TypeOK /\ Waited /\ [Next]_vars => [A]_vars
  <2> SUFFICES ASSUME TypeOK, Waited, Next, NEW uid \in requests' \ requests
               PROVE  /\ uid = pod /\ file \in Marker /\ file.pod = pod
                      /\ lasted = Wait
    OBVIOUS
  <2> USE DEF collectorVars, fileVars, reallocatorVars, clusterVars, history
  <2>1. Delete
    BY DEF Next, Collect, Answer, StartCollector, Connect, UsbFailure, WriteTemporary,
       Replace, SyncDirectory, CollectorDies, NodeRestart, StartReallocator, Tick, Observe,
       ReallocatorDies, Accept, Conflict, Refuse, Answered, Evict, NewPod
  <2>2. uid = pod /\ Read = file /\ file.pod = pod /\ observed = file /\ waited >= Wait
    BY <2>1 DEF Delete, Read
  <2>3. file \in Marker
    <3>1. file.pod # 0 /\ NoFile.pod = 0 /\ Garbled.pod = 0
      BY <2>2, ReallocationAssumption, SMT DEF TypeOK, Pods, NoFile, Garbled
    <3> QED BY <3>1 DEF TypeOK, Content
  <2>4. waited <= lasted
    BY <2>1, <2>2, <2>3 DEF Waited, Delete
  <2>5. lasted = Wait
    BY <2>2, <2>4, ReallocationAssumption, SMT DEF TypeOK
  <2> QED BY <2>2, <2>3, <2>5
<1>3. Spec => [](TypeOK /\ Fresh /\ Waited)
  BY <1>1, TypeCorrect, FreshKept, WaitedKept, PTL DEF Spec
<1> QED BY <1>2, <1>3, PTL DEF Spec, DeletesAfterDelay

-----------------------------------------------------------------------------
(* The whole keeps the promise. *)

\* Pods lose their detectors while they live.
Lived == lost \subseteq 1..pod

\* Pods come in order, and lose their detectors once they are there.
LEMMA LivedKept == TypeOK /\ Lived /\ [Next]_vars => Lived'
<1> SUFFICES ASSUME TypeOK, Lived, [Next]_vars PROVE Lived'
  OBVIOUS
<1>0. pod \in Nat /\ pod \in 1..pod /\ 1..pod \subseteq 1..(pod + 1)
  BY ReallocationAssumption, SMT DEF TypeOK, Pods
<1>1. pod' \in {pod, pod + 1} /\ lost' \in {lost, lost \cup {pod}}
  BY DEF Next, Collect, Answer, StartCollector, Connect, UsbFailure, WriteTemporary, Replace,
     SyncDirectory, CollectorDies, NodeRestart, StartReallocator, Tick, Observe, Delete,
     ReallocatorDies, Accept, Conflict, Refuse, Evict, NewPod, vars,
     collectorVars, fileVars, reallocatorVars, clusterVars, history
<1> QED BY <1>0, <1>1 DEF Lived

\* What a pod reads of a file is a marker of its own, or nothing.
LEMMA ReadOf ==
  ASSUME NEW content \in Content, NEW uid \in Pods,
         NEW read, read = IF content.pod = uid THEN content ELSE NoFile
  PROVE  /\ read # NoFile <=> content \in Marker /\ content.pod = uid
         /\ read # NoFile => /\ read = content /\ read.connection \in 1..MaxConnections
                             /\ read.connection # 0
         /\ read = NoFile => read.connection = 0
<1>1. /\ \A m \in Marker : m.pod # 0 /\ m.connection \in 1..MaxConnections /\ m.connection # 0
      /\ uid # 0
  BY ReallocationAssumption, SMT DEF Marker, Pods
<1>2. NoFile.pod = 0 /\ Garbled.pod = 0 /\ NoFile.connection = 0
  BY DEF NoFile, Garbled
<1> QED BY <1>1, <1>2, NoMarkers DEF Content

\* What the reallocator reads.
LEMMA ReadIs ==
  ASSUME TypeOK
  PROVE  /\ Read # NoFile <=> file \in Marker /\ file.pod = pod
         /\ Read # NoFile => /\ Read = file /\ Read.connection \in 1..MaxConnections
                             /\ Read.connection # 0
         /\ Read = NoFile => Read.connection = 0
BY ReadOf DEF Read, TypeOK

\* The same of the file after a step.
LEMMA ReadWillBe ==
  ASSUME TypeOK'
  PROVE  /\ Read' # NoFile <=> file' \in Marker /\ file'.pod = pod'
         /\ Read' # NoFile => Read'.connection \in 1..MaxConnections
BY ReadOf DEF Read, TypeOK

PromiseInv == TypeOK /\ Truthful /\ Durable /\ Fresh /\ Waited /\ Lived

\* Steps that leave all of it alone are stutters of the promise.
LEMMA PromiseStutters ==
  ASSUME UNCHANGED <<pod, terminating, lost, file, lasted, requested, requests, deleted>>
  PROVE  UNCHANGED Promise!vars
BY DEF Promise!vars, Read

\* Every step of reallocation is one of Replacement, or changes nothing there.
LEMMA PromiseStep == PromiseInv /\ PromiseInv' /\ [Next]_vars => [Promise!Next]_Promise!vars
<1> SUFFICES ASSUME PromiseInv, PromiseInv', [Next]_vars PROVE [Promise!Next]_Promise!vars
  OBVIOUS
<1>0. TypeOK /\ TypeOK' /\ Truthful /\ Durable /\ Waited /\ Lived
  BY DEF PromiseInv
<1> USE DEF collectorVars, fileVars, reallocatorVars, clusterVars, history
<1> DEFINE stood == IF Read = NoFile THEN 0 ELSE lasted
\* How long it has stood follows what is read.
<1>s. ASSUME UNCHANGED <<pod, terminating, lost, requested, requests, deleted>>,
             \/ UNCHANGED <<file, lasted>>
             \/ Read' # NoFile /\ lasted' = 0 /\ pod \in lost
             \/ Read' = NoFile /\ pod \notin requested
      PROVE  [Promise!Next]_Promise!vars
  <2>1. CASE UNCHANGED <<file, lasted>>
    BY <1>s, <2>1, PromiseStutters
  <2>2. CASE Read' # NoFile /\ lasted' = 0 /\ pod \in lost
    <3>1. Read'.connection \in 1..MaxConnections
      BY <1>0, <2>2, ReadWillBe
    <3> QED BY <1>s, <2>2, <3>1 DEF Promise!Next, Promise!Mark
  <2>3. CASE Read' = NoFile /\ pod \notin requested
    <3>1. Read'.connection = 0
      BY <2>3 DEF NoFile
    <3> QED BY <1>s, <2>3, <3>1 DEF Promise!Next, Promise!Withdraw
  <2> QED BY <1>s, <2>1, <2>2, <2>3
<1>1. CASE StartCollector \/ Connect \/ WriteTemporary \/ CollectorDies
  BY <1>1, PromiseStutters DEF StartCollector, Connect, WriteTemporary, CollectorDies
<1>2. ASSUME NEW noDevice \in BOOLEAN, UsbFailure(noDevice)
      PROVE  [Promise!Next]_Promise!vars
  <2>1. CASE noDevice
    BY <1>2, <2>1 DEF UsbFailure, Read, Promise!Next, Promise!Lose
  <2>2. CASE ~noDevice
    BY <1>2, <2>2, PromiseStutters DEF UsbFailure
  <2> QED BY <2>1, <2>2
<1>3. CASE Replace
  <2>1. /\ UNCHANGED <<pod, terminating, lost, requested, requests, deleted>>
        /\ file' = Own /\ lasted' = 0 /\ collector \in Writing
    BY <1>3, SMT DEF Replace, Writing
  <2>2. Own \in Marker /\ Own.pod = pod /\ pod \in lost
    BY <1>0, <2>1, OwnIsMarker DEF Truthful
  <2>3. Read' # NoFile
    BY <1>0, <2>1, <2>2, ReadWillBe
  <2> QED BY <1>s, <2>1, <2>2, <2>3
<1>4. CASE SyncDirectory
  <2>1. file = Own /\ Own \in Marker /\ Own.pod = pod
    BY <1>0, <1>4, OwnIsMarker, SMT DEF SyncDirectory, Writing, Durable
  <2>2. Read.connection # 0
    BY <1>0, <2>1, ReadIs
  <2> QED BY <1>4, <2>2 DEF SyncDirectory, Read, Promise!Next, Promise!Leave
<1>5. CASE NodeRestart
  <2>1. /\ UNCHANGED <<pod, terminating, lost, requested, requests, deleted>>
        /\ file' \in afterCrash /\ (lasted' = IF file' = file THEN lasted ELSE 0)
    BY <1>5 DEF NodeRestart
  <2>2. CASE Read' # NoFile
    <3>1. file' \in Marker /\ file'.pod = pod
      BY <1>0, <2>1, <2>2, ReadWillBe
    <3>2. pod \in lost
      BY <1>0, <2>1, <3>1 DEF Truthful, Known
    <3> QED BY <1>s, <2>1, <2>2, <3>2
  <2>3. CASE Read' = NoFile
    <3>1. ~(file' \in Marker /\ file'.pod = pod)
      BY <1>0, <2>1, <2>3, ReadWillBe
    <3>2. pod \notin requested
      BY <1>0, <2>1, <3>1 DEF Durable
    <3> QED BY <1>s, <2>1, <2>3, <3>2
  <2> QED BY <2>2, <2>3
<1>6. CASE StartReallocator \/ Observe \/ ReallocatorDies
  BY <1>6, PromiseStutters DEF StartReallocator, Observe, ReallocatorDies
<1>7. CASE Tick
  <2>1. /\ UNCHANGED <<pod, terminating, lost, file, requested, requests, deleted>>
        /\ lasted' = Up(lasted) /\ Read' = Read
    BY <1>7 DEF Tick, Read
  <2>2. CASE Read = NoFile \/ ~(lasted < Wait)
    BY <2>1, <2>2 DEF Up, Promise!vars
  <2>3. CASE Read # NoFile /\ lasted < Wait
    <3>1. Read.connection # 0
      BY <1>0, <2>3, ReadIs
    <3>2. stood' = stood + 1 /\ stood < Wait
      BY <2>1, <2>3 DEF Up
    <3> QED BY <2>1, <3>1, <3>2 DEF Promise!Next, Promise!Stand
  <2> QED BY <2>2, <2>3
<1>8. CASE Delete
  <2>1. /\ UNCHANGED <<pod, terminating, lost, file, lasted, requested, deleted>>
        /\ Read # NoFile /\ Read = observed /\ waited >= Wait /\ reallocator = "polling"
        /\ requests' = requests \cup {pod} /\ Read' = Read
    BY <1>8 DEF Delete, Read
  <2>2. Read = file /\ file \in Marker /\ Read.connection # 0
    BY <1>0, <2>1, ReadIs
  <2>3. waited <= lasted
    BY <1>0, <2>1, <2>2 DEF Waited
  <2>4. lasted = Wait
    BY <1>0, <2>1, <2>3, ReallocationAssumption, SMT DEF TypeOK
  <2> QED BY <2>1, <2>2, <2>4 DEF Promise!Next, Promise!Ask
<1>9. ASSUME NEW uid \in Pods, Accept(uid) PROVE [Promise!Next]_Promise!vars
  BY <1>9 DEF Accept, Answered, Read, Promise!Next, Promise!Grant
<1>10. ASSUME NEW uid \in Pods, Conflict(uid) \/ Refuse(uid)
       PROVE  [Promise!Next]_Promise!vars
  <2>1. Promise!Lapse(uid)
    BY <1>10 DEF Conflict, Refuse, Answered, Read, Promise!Lapse
  <2> QED BY <2>1 DEF Promise!Next, Promise!Pods, Pods
<1>11. CASE Evict
  BY <1>11 DEF Evict, Read, Promise!Next, Promise!Evict
\* The volume names earlier pods at most.
<1>12. CASE NewPod
  <2>1. /\ terminating /\ pod < MaxPods /\ pod' = pod + 1 /\ terminating' = FALSE
        /\ UNCHANGED <<lost, requested, requests, deleted>>
        /\ file' \in {file, NoFile}
    BY <1>12 DEF NewPod
  <2>2. pod' \notin lost
    BY <1>0, <2>1, ReallocationAssumption, SMT DEF Lived, TypeOK, Pods
  <2>3. ~(file' \in Marker /\ file'.pod = pod')
    BY <1>0, <2>1, <2>2, NoMarkers DEF Truthful, Known
  <2>4. Read' = NoFile
    BY <1>0, <2>3, ReadWillBe
  <2>5. Read'.connection = 0
    BY <2>4 DEF NoFile
  <2> QED BY <2>1, <2>4, <2>5 DEF Promise!Next, Promise!Succeed
<1>13. CASE UNCHANGED vars
  BY <1>13, PromiseStutters DEF vars
<1> QED
  BY <1>1, <1>2, <1>3, <1>4, <1>5, <1>6, <1>7, <1>8, <1>9, <1>10, <1>11, <1>12, <1>13
  DEF Next, Collect, Answer

\* Collector, volume, reallocator and API server implement Replacement, for every
\* delay and any number of pods, connections and faults.
THEOREM Implementation == Spec => ImplementsReplacement
<1>1. Init => PromiseInv
  <2> SUFFICES ASSUME Init PROVE PromiseInv
    OBVIOUS
  <2>1. TypeOK
    <3>1. FALSE \in BOOLEAN /\ NoFile \in Content
      BY Zenon DEF Content
    <3>2. 1 \in Pods /\ 0 \in 0..MaxConnections /\ 0 \in 0..Wait /\ 0 \in 0..MaxFaults
      BY ReallocationAssumption, SMT DEF Pods
    <3>3. "down" \notin {"connected"} \cup Writing
      BY SMT DEF Writing
    <3> QED BY <3>1, <3>2, <3>3, Zenon DEF Init, TypeOK
  <2>2. Truthful /\ Fresh /\ Waited
    BY NoMarkers, SMT DEF Init, Truthful, Fresh, Waited, Known, Writing
  <2>3. Durable /\ Lived
    BY SMT DEF Init, Durable, Lived
  <2> QED BY <2>1, <2>2, <2>3 DEF PromiseInv
<1>2. PromiseInv /\ [Next]_vars => PromiseInv'
  BY TypeOKKept, TruthfulKept, DurableKept, FreshKept, WaitedKept, LivedKept DEF PromiseInv
<1>3. Init => Promise!Init
  BY DEF Init, Promise!Init, Read, NoFile
<1> QED
  BY <1>1, <1>2, <1>3, PromiseStep, PTL DEF Spec, ImplementsReplacement, Promise!Spec
=============================================================================
