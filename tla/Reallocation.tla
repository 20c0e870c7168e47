------------------------------ MODULE Reallocation ------------------------------
(***************************************************************************)
(* reallocator.py and the collector's part in it: a collector that loses   *)
(* an established detector to libusb's NO_DEVICE leaves a marker file and  *)
(* exits; the reallocator, another container of the same pod, deletes the  *)
(* pod once it has seen the same marker for the whole delay, so that the   *)
(* replacement is given the detector anew.                                 *)
(*                                                                         *)
(* Kubernetes restarts the containers of a living pod, replaces a deleted  *)
(* one under the same name with another UID, and may keep the volume.  A   *)
(* restart of the node keeps the pod and what had reached its disk.        *)
(***************************************************************************)
EXTENDS Integers

CONSTANTS
  Wait,            \* reallocation_delay_seconds, in ticks
  MaxPods,         \* bound: pods one after the other
  MaxConnections,  \* bound: USB connections
  MaxFaults        \* bound: kills, node restarts, failed writes and requests

ASSUME ReallocationAssumption ==
  /\ Wait \in Nat
  /\ MaxPods \in Nat \ {0} /\ MaxConnections \in Nat /\ MaxFaults \in Nat

VARIABLES
  pod,          \* UID of the pod that has the name
  terminating,  \* it was deleted
  collector,    \* where its collector is
  connection,   \* connection_id: uuid4 as a counter
  file,         \* what settings.reallocation_marker holds
  afterCrash,   \* what it may hold once the node has restarted
  reallocator,  \* where its reallocator is
  observed,     \* observed_marker
  waited,       \* time.monotonic() - observed_at, no further than Wait
  requests,     \* DELETE requests on their way, by the UID of the precondition
  faults,
  lasted,       \* history: how long the file has held this, no further than Wait
  lost,         \* history: pods that lost an established detector
  requested,    \* history: pods whose collector left a marker and exited
  deleted       \* history: pods deleted on request of a reallocator

collectorVars == <<collector, connection>>
fileVars == <<file, afterCrash, lasted>>
reallocatorVars == <<reallocator, observed, waited>>
clusterVars == <<pod, terminating, requests>>
history == <<lost, requested, deleted>>
vars == <<collectorVars, fileVars, reallocatorVars, clusterVars, faults, history>>

Pods == 1..MaxPods
Marker == [pod : Pods, connection : 1..MaxConnections]
NoFile == [pod |-> 0, connection |-> 0]
Garbled == [pod |-> 0, connection |-> 1]
Content == Marker \cup {NoFile, Garbled}

\* Steps of write_reallocation_marker.
Writing == {"created", "written", "synced", "replaced"}

Init ==
  /\ pod = 1 /\ terminating = FALSE /\ requests = {}
  /\ collector = "down" /\ connection = 0
  /\ file = NoFile /\ afterCrash = {NoFile} /\ lasted = 0
  /\ reallocator = "down" /\ observed = NoFile /\ waited = 0
  /\ faults = 0
  /\ lost = {} /\ requested = {} /\ deleted = {}

Fault == faults < MaxFaults /\ faults' = faults + 1
-----------------------------------------------------------------------------
(* The collector. *)

StartCollector ==
  /\ collector = "down" /\ ~terminating
  /\ collector' = "running"
  /\ UNCHANGED <<connection, fileVars, reallocatorVars, clusterVars, faults, history>>

Connect ==
  /\ collector = "running" /\ connection < MaxConnections
  /\ collector' = "connected"
  /\ connection' = connection + 1
  /\ UNCHANGED <<fileVars, reallocatorVars, clusterVars, faults, history>>

\* Mutant: the connection has its id before connect() has returned, so that a
\* NO_DEVICE while connecting requests reallocation as well.
UsbFailureConnecting(noDevice) ==
  /\ \/ collector = "connected"
     \/ collector = "running" /\ connection < MaxConnections
  /\ connection' = IF collector = "running" THEN connection + 1 ELSE connection
  /\ collector' = IF noDevice THEN "created" ELSE "running"
  /\ lost' = IF noDevice /\ collector = "connected" THEN lost \cup {pod} ELSE lost
  /\ UNCHANGED <<fileVars, reallocatorVars, clusterVars, faults, requested, deleted>>

\* _handle_usb_failure: of every other failure, and of one while connecting, the
\* collector keeps trying.
UsbFailure(noDevice) ==
  /\ collector = "connected"
  /\ collector' = IF noDevice THEN "created" ELSE "running"
  /\ lost' = IF noDevice THEN lost \cup {pod} ELSE lost
  /\ UNCHANGED <<connection, fileVars, reallocatorVars, clusterVars, faults,
                 requested, deleted>>

\* The temporary file is filled, then on disk.
WriteTemporary ==
  /\ \/ collector = "created" /\ collector' = "written"
     \/ collector = "written" /\ collector' = "synced"
  /\ UNCHANGED <<connection, fileVars, reallocatorVars, clusterVars, faults, history>>

Own == [pod |-> pod, connection |-> connection]

\* Mutant: the temporary file takes the marker's place before it is on disk.
ReplaceUnsynced ==
  /\ collector = "written"
  /\ collector' = "replaced"
  /\ file' = Own /\ lasted' = 0
  /\ afterCrash' = afterCrash \cup {Own, Garbled}
  /\ UNCHANGED <<connection, reallocatorVars, clusterVars, faults, history>>

\* os.replace: the rename itself need not be on disk yet.
Replace ==
  /\ collector = "synced"
  /\ collector' = "replaced"
  /\ file' = Own /\ lasted' = 0
  /\ afterCrash' = afterCrash \cup {Own}
  /\ UNCHANGED <<connection, reallocatorVars, clusterVars, faults, history>>

\* os.fsync of the directory; the collector exits.
SyncDirectory ==
  /\ collector = "replaced"
  /\ collector' = "down"
  /\ afterCrash' = {file}
  /\ requested' = requested \cup {pod}
  /\ UNCHANGED <<connection, file, lasted, reallocatorVars, clusterVars, faults,
                 lost, deleted>>

\* The collector is killed, or a step of the write raises: either way its
\* process ends and the temporary file is of no use.
CollectorDies ==
  /\ Fault
  /\ collector # "down"
  /\ collector' = "down"
  /\ UNCHANGED <<connection, fileVars, reallocatorVars, clusterVars, history>>

NodeRestart ==
  /\ Fault
  /\ collector' = "down" /\ reallocator' = "down"
  /\ \E content \in afterCrash :
       /\ file' = content /\ afterCrash' = {content}
       /\ lasted' = IF content = file THEN lasted ELSE 0
  /\ UNCHANGED <<connection, observed, waited, clusterVars, history>>

-----------------------------------------------------------------------------
(* The reallocator. *)

\* run_reallocator begins.
StartReallocator ==
  /\ reallocator = "down" /\ ~terminating
  /\ reallocator' = "polling"
  /\ observed' = NoFile /\ waited' = 0
  /\ UNCHANGED <<collectorVars, fileVars, clusterVars, faults, history>>

\* Time passes for everyone.
Up(n) == IF n < Wait THEN n + 1 ELSE n
Tick ==
  /\ waited' = Up(waited) /\ lasted' = Up(lasted)
  /\ UNCHANGED <<collectorVars, file, afterCrash, reallocator, observed,
                 clusterVars, faults, history>>

\* read_reallocation_marker: what is no marker of this pod is none at all.
Read == IF file.pod = pod THEN file ELSE NoFile

\* Mutant: every poll that finds a marker measures anew.
ObserveAlways ==
  /\ reallocator = "polling"
  /\ Read = NoFile \/ waited < Wait \/ Read # observed
  /\ observed' = Read
  /\ waited' = IF Read = NoFile THEN waited ELSE 0
  /\ UNCHANGED <<reallocator, collectorVars, fileVars, clusterVars, faults, history>>

\* A poll of the file that does not find the marker observed before.
Observe ==
  /\ reallocator = "polling"
  /\ Read # observed
  /\ observed' = Read
  /\ waited' = IF Read = NoFile THEN waited ELSE 0
  /\ UNCHANGED <<reallocator, collectorVars, fileVars, clusterVars, faults, history>>

\* Mutant: any marker does, also one that has just taken the observed one's place.
DeleteAnyMarker ==
  /\ reallocator = "polling"
  /\ Read # NoFile /\ observed # NoFile /\ waited >= Wait
  /\ reallocator' = "deleting"
  /\ requests' = requests \cup {pod}
  /\ UNCHANGED <<observed, waited, collectorVars, fileVars, pod, terminating,
                 faults, history>>

\* One that finds it again, at the end of the delay.
Delete ==
  /\ reallocator = "polling"
  /\ Read # NoFile /\ Read = observed /\ waited >= Wait
  /\ reallocator' = "deleting"
  /\ requests' = requests \cup {pod}
  /\ UNCHANGED <<observed, waited, collectorVars, fileVars, pod, terminating,
                 faults, history>>

\* delete_own_pod's request is gone, and its answer, good or bad, ends
\* run_reallocator, unless that no longer waits for it.
Answered(uid) ==
  /\ requests' = requests \ {uid}
  /\ reallocator' =
       IF uid = pod /\ reallocator = "deleting" THEN "down" ELSE reallocator

\* The API server deletes the pod that has the UID of the precondition.
Accept(uid) ==
  /\ uid \in requests /\ uid = pod
  /\ terminating' = TRUE
  /\ deleted' = deleted \cup {pod}
  /\ Answered(uid)
  /\ UNCHANGED <<pod, observed, waited, collectorVars, fileVars, faults, lost, requested>>

\* Another pod has the name, or none (409, 404).
Conflict(uid) ==
  /\ uid \in requests /\ uid # pod
  /\ Answered(uid)
  /\ UNCHANGED <<pod, terminating, observed, waited, collectorVars, fileVars,
                 faults, history>>

\* The API server refuses, or cannot be reached.
Refuse(uid) ==
  /\ Fault
  /\ uid \in requests
  /\ Answered(uid)
  /\ UNCHANGED <<pod, terminating, observed, waited, collectorVars, fileVars, history>>

\* The reallocator is killed, or its request times out and may arrive still.
ReallocatorDies ==
  /\ Fault
  /\ reallocator # "down"
  /\ reallocator' = "down"
  /\ UNCHANGED <<observed, waited, collectorVars, fileVars, clusterVars, history>>

-----------------------------------------------------------------------------
(* The cluster. *)

\* Somebody else deletes the pod.
Evict ==
  /\ Fault
  /\ ~terminating
  /\ terminating' = TRUE
  /\ UNCHANGED <<pod, requests, collectorVars, fileVars, reallocatorVars, history>>

\* The replacement takes the name, and finds the volume as it was or empty.
NewPod ==
  /\ terminating /\ pod < MaxPods
  /\ pod' = pod + 1 /\ terminating' = FALSE
  /\ collector' = "down" /\ reallocator' = "down"
  /\ \/ UNCHANGED fileVars
     \/ file' = NoFile /\ afterCrash' = {NoFile} /\ lasted' = 0
  /\ UNCHANGED <<requests, connection, observed, waited, faults, history>>

Collect ==
  \/ StartCollector \/ Connect
  \/ \E noDevice \in BOOLEAN : UsbFailure(noDevice)
  \/ WriteTemporary \/ Replace \/ SyncDirectory \/ CollectorDies

Answer(uid) == Accept(uid) \/ Conflict(uid)

Next ==
  \/ Collect
  \/ StartReallocator \/ Tick \/ Observe \/ Delete \/ ReallocatorDies
  \/ \E uid \in Pods : Answer(uid) \/ Refuse(uid)
  \/ NodeRestart \/ Evict \/ NewPod

Spec == Init /\ [][Next]_vars

\* Kubernetes restarts the reallocator and answers its requests, the reallocator
\* polls, time passes.  Nothing is asked of the collector: it may hang.
FairSpec ==
  /\ Spec
  /\ WF_vars(StartReallocator) /\ WF_vars(Tick)
  /\ WF_vars(Observe) /\ WF_vars(Delete)
  /\ \A uid \in Pods : WF_vars(Answer(uid))
-----------------------------------------------------------------------------
(* Properties. *)

\* What the processes, the file and the cluster may be.
TypeOK ==
  /\ pod \in Pods /\ terminating \in BOOLEAN /\ requests \subseteq Pods
  /\ collector \in {"down", "running", "connected"} \cup Writing
  /\ connection \in 0..MaxConnections
  /\ collector \in {"connected"} \cup Writing => connection > 0
  /\ file \in Content /\ afterCrash \subseteq Content
  /\ reallocator \in {"down", "polling", "deleting"}
  /\ observed \in Content
  /\ waited \in 0..Wait /\ lasted \in 0..Wait
  /\ faults \in 0..MaxFaults
  /\ lost \subseteq Pods /\ requested \subseteq Pods /\ deleted \subseteq Pods

\* "the sole permitted USB failure": a reallocator's request only ever deletes a
\* pod whose own collector lost an established detector, however late the request
\* arrives and whatever marker the volume kept.
OnlyLostPodsDeleted == deleted \subseteq lost

\* "Atomically request reallocation": from the moment the collector has exited
\* with its request, the file holds a marker of this pod, whoever dies.
RequestLasts == pod \in requested => file \in Marker /\ file.pod = pod

\* A pod is deleted only when the file has held one and the same marker of it for
\* the whole delay: a newer one starts the delay again.
DeletesAfterDelay ==
  [][\A uid \in requests' \ requests :
       /\ uid = pod /\ file \in Marker /\ file.pod = pod
       /\ lasted = Wait]_vars

\* A pod that was asked for replacement is replaced.
RequestsAnswered ==
  \A uid \in Pods : uid \in requested ~> (pod # uid \/ terminating)

\* The marker counts for the pod it names, and from when it took its place.
Promise == INSTANCE Replacement WITH
  marker <- Read.connection,
  stood <- IF Read = NoFile THEN 0 ELSE lasted

\* Marker file, reallocator and API server together keep the promise, whichever
\* process dies at whichever step, and whatever the volume keeps from earlier pods.
ImplementsReplacement == Promise!Spec
=============================================================================
