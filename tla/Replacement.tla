----------------------------- MODULE Replacement -----------------------------
(***************************************************************************)
(* What reallocation promises about the pods that follow each other under  *)
(* one name, without processes, files or an API server: a pod is deleted   *)
(* on behalf of the program only after its detector was lost and one       *)
(* marker of that has stood for the whole delay; a marker the collector    *)
(* has left behind stays until then; and a new pod starts without one.     *)
(***************************************************************************)
EXTENDS Integers

CONSTANTS Wait, MaxPods, MaxConnections

VARIABLES
  pod,          \* who has the name
  terminating,  \* it was deleted, by whomever
  lost,         \* pods that lost an established detector
  marker,       \* the connection the marker of this pod names, 0 when there is none
  stood,        \* for how long it has stood, no further than Wait
  requested,    \* pods whose collector has left its marker and exited
  requests,     \* deletions asked for and not answered
  deleted       \* pods deleted in answer to one

vars == <<pod, terminating, lost, marker, stood, requested, requests, deleted>>

Pods == 1..MaxPods

Init ==
  /\ pod = 1 /\ terminating = FALSE
  /\ lost = {} /\ requested = {} /\ requests = {} /\ deleted = {}
  /\ marker = 0 /\ stood = 0

Lose ==
  /\ lost' = lost \cup {pod}
  /\ UNCHANGED <<pod, terminating, marker, stood, requested, requests, deleted>>

\* A marker begins to stand, perhaps in place of another: the delay starts.
Mark ==
  /\ pod \in lost
  /\ marker' \in 1..MaxConnections /\ stood' = 0
  /\ UNCHANGED <<pod, terminating, lost, requested, requests, deleted>>

\* It may fall again only while its collector is still there to write another.
Withdraw ==
  /\ pod \notin requested
  /\ marker' = 0 /\ stood' = 0
  /\ UNCHANGED <<pod, terminating, lost, requested, requests, deleted>>

Leave ==
  /\ marker # 0
  /\ requested' = requested \cup {pod}
  /\ UNCHANGED <<pod, terminating, lost, marker, stood, requests, deleted>>

Stand ==
  /\ marker # 0 /\ stood < Wait
  /\ stood' = stood + 1
  /\ UNCHANGED <<pod, terminating, lost, marker, requested, requests, deleted>>

Ask ==
  /\ marker # 0 /\ stood = Wait
  /\ requests' = requests \cup {pod}
  /\ UNCHANGED <<pod, terminating, lost, marker, stood, requested, deleted>>

Grant ==
  /\ pod \in requests
  /\ terminating' = TRUE
  /\ deleted' = deleted \cup {pod} /\ requests' = requests \ {pod}
  /\ UNCHANGED <<pod, lost, marker, stood, requested>>

\* Refused, or too late.
Lapse(uid) ==
  /\ requests' = requests \ {uid}
  /\ UNCHANGED <<pod, terminating, lost, marker, stood, requested, deleted>>

\* Somebody else deletes the pod.
Evict ==
  /\ terminating' = TRUE
  /\ UNCHANGED <<pod, lost, marker, stood, requested, requests, deleted>>

Succeed ==
  /\ terminating /\ pod < MaxPods
  /\ pod' = pod + 1 /\ terminating' = FALSE
  /\ marker' = 0 /\ stood' = 0
  /\ UNCHANGED <<lost, requested, requests, deleted>>

Next ==
  \/ Lose \/ Mark \/ Withdraw \/ Leave \/ Stand
  \/ Ask \/ Grant \/ \E uid \in Pods : Lapse(uid)
  \/ Evict \/ Succeed

Spec == Init /\ [][Next]_vars
=============================================================================
