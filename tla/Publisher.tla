------------------------------- MODULE Publisher -------------------------------
(***************************************************************************)
(* MqttPublisher between three threads: the collector's, which records     *)
(* telemetry and closes the publisher, the publisher's own (run), and      *)
(* Paho's network thread (the callbacks); and the broker with its two      *)
(* retained topics and the last will.                                      *)
(*                                                                         *)
(* A step is a stretch under the publisher's lock, or a publish.  Of the   *)
(* payloads only connectivity is kept: up is what is_connected says.  It   *)
(* depends on a clock read earlier: up then, or up now.  Of discovery and  *)
(* events only the room they take in Paho's queue is kept.                 *)
(*                                                                         *)
(* External: Paho's queue.  A QoS 1 message that finds no connection, or   *)
(* whose PUBACK has not been read when the connection is lost, is sent     *)
(* again after the callback of the next CONNACK.                           *)
(***************************************************************************)
EXTENDS Integers, Sequences

CONSTANTS
  MaxQueued,   \* max_queued_messages_set
  Entities     \* messages publish_discovery publishes

ASSUME QueueAssumption == MaxQueued \in Nat \ {0} /\ Entities \in Nat

VARIABLES
  live,       \* cache.is_connected at this moment
  stop,       \* stop_event
  main,       \* the collector's thread
  at,         \* control of the publisher's and the network thread
  clock,      \* per thread: what is_connected said when it read the clock
  up,         \* per thread: what it is about to publish
  (* fields of MqttPublisher *)
  connected,  \* _broker_connected
  last,       \* _last_availability: "none" or a set with the value
  closing,    \* _closing
  (* Paho and the broker *)
  link,       \* the connection, as the broker has it
  sent,       \* messages of this connection without PUBACK read
  delivered,  \* how many of them have reached the broker
  leaving,    \* a DISCONNECT follows them
  queue,      \* messages of earlier connections to be sent again
  others,     \* number of messages on other topics without PUBACK read
  retained,   \* per topic
  (* observer *)
  raced       \* a CONNACK was being handled when close() began

threadVars == <<at, clock, up>>
fieldVars == <<connected, last, closing>>
netVars == <<link, sent, delivered, leaving, queue, others>>
vars == <<live, stop, main, threadVars, fieldVars, netVars, retained, raced>>

Threads == {"runner", "net"}
Topics == {"state", "availability"}
Message == [topic : Topics, up : BOOLEAN, final : BOOLEAN]
State(value) == [topic |-> "state", up |-> value, final |-> FALSE]
Availability(value) == [topic |-> "availability", up |-> value, final |-> FALSE]

\* What close publishes and waits for.
Offline == [topic |-> "availability", up |-> FALSE, final |-> TRUE]

Init ==
  /\ live \in BOOLEAN
  /\ stop = FALSE
  /\ main = "collecting"
  /\ at = [runner |-> "top", net |-> "down"]
  /\ clock = [t \in Threads |-> FALSE]
  /\ up = [t \in Threads |-> FALSE]
  /\ connected = FALSE
  /\ last = {}
  /\ closing = FALSE
  /\ link = FALSE
  /\ sent = <<>>
  /\ delivered = 0
  /\ leaving = FALSE
  /\ queue = <<>>
  /\ others = 0
  /\ retained = [topic \in Topics |-> FALSE]
  /\ raced = FALSE

Goto(t, label) == at' = [at EXCEPT ![t] = label]

\* client.publish, and whether it returned success.  The broker does not read
\* what follows a DISCONNECT.
Room == MaxQueued - Len(sent) - Len(queue) - others
Publish(m) ==
  /\ IF Room <= 0 \/ leaving THEN UNCHANGED <<sent, queue>>
     ELSE IF link THEN sent' = Append(sent, m) /\ UNCHANGED queue
     ELSE queue' = Append(queue, m) /\ UNCHANGED sent
  /\ UNCHANGED others
Published == Room > 0 /\ link

\* number of messages published one after the other on other topics.
PublishOthers(number) ==
  others' = IF ~connected \/ Room <= 0 THEN others
            ELSE others + (IF number < Room THEN number ELSE Room)

-----------------------------------------------------------------------------
(* publish_cycle and publish_availability, in either thread. *)

\* What a thread is left with when it is done.
Return(t) ==
  /\ Goto(t, IF t = "runner" THEN "top" ELSE "resend")
  /\ clock' = [clock EXCEPT ![t] = FALSE]
  /\ up' = [up EXCEPT ![t] = FALSE]

\* publish_cycle takes its snapshot.
TakeSnapshot(t) ==
  /\ at[t] = "snapshot"
  /\ up' = [up EXCEPT ![t] = clock[t] \/ live]
  /\ Goto(t, "state")
  /\ UNCHANGED <<live, stop, main, clock, fieldVars, netVars, retained, raced>>

PublishState(t) ==
  /\ at[t] = "state"
  /\ IF connected THEN Publish(State(up[t]))
     ELSE UNCHANGED <<sent, queue, others>>
  /\ up' = [up EXCEPT ![t] = FALSE]
  /\ Goto(t, "decide")
  /\ UNCHANGED <<live, stop, main, clock, fieldVars, link, delivered,
                 leaving, retained, raced>>

\* Mutant: the cycle publishes availability only when it changes.
DecideUnforced(t) ==
  /\ at[t] \in {"decide", "decideLazily"}
  /\ IF last = {clock[t] \/ live}
     THEN Return(t)
     ELSE /\ up' = [up EXCEPT ![t] = clock[t] \/ live]
          /\ Goto(t, "availability")
          /\ UNCHANGED clock
  /\ UNCHANGED <<live, stop, main, fieldVars, netVars, retained, raced>>

\* force comes with publish_cycle.
Decide(t) ==
  /\ at[t] \in {"decide", "decideLazily"}
  /\ IF at[t] = "decideLazily" /\ last = {clock[t] \/ live}
     THEN Return(t)
     ELSE /\ up' = [up EXCEPT ![t] = clock[t] \/ live]
          /\ Goto(t, "availability")
          /\ UNCHANGED clock
  /\ UNCHANGED <<live, stop, main, fieldVars, netVars, retained, raced>>

PublishAvailability(t) ==
  /\ at[t] = "availability"
  /\ IF connected THEN Publish(Availability(up[t]))
     ELSE UNCHANGED <<sent, queue, others>>
  /\ IF connected /\ Published
     THEN Goto(t, "note") /\ UNCHANGED <<clock, up>>
     ELSE Return(t)
  /\ UNCHANGED <<live, stop, main, fieldVars, link, delivered, leaving,
                 retained, raced>>

Note(t) ==
  /\ at[t] = "note"
  /\ last' = {up[t]}
  /\ Return(t)
  /\ UNCHANGED <<live, stop, main, connected, closing, netVars, retained, raced>>

PublishSteps(t) ==
  \/ TakeSnapshot(t)
  \/ PublishState(t)
  \/ Decide(t)
  \/ PublishAvailability(t)
  \/ Note(t)

-----------------------------------------------------------------------------
(* MqttPublisher.run. *)

\* next_state_publish has passed: the clock decides between this and Look.
Cycle ==
  /\ at["runner"] = "top" /\ ~stop
  /\ clock' = [clock EXCEPT !["runner"] = live]
  /\ Goto("runner", "snapshot")
  /\ UNCHANGED <<live, stop, main, up, fieldVars, netVars, retained, raced>>

Changed == last # {} /\ last # {live}

Look ==
  /\ at["runner"] = "top" /\ ~stop
  /\ clock' = [clock EXCEPT !["runner"] = live]
  /\ Goto("runner", IF Changed THEN "snapshot" ELSE "decideLazily")
  /\ UNCHANGED <<live, stop, main, up, fieldVars, netVars, retained, raced>>

Leave ==
  /\ at["runner"] = "top" /\ stop
  /\ Goto("runner", "ended")
  /\ UNCHANGED <<live, stop, main, clock, up, fieldVars, netVars, retained, raced>>

Runner == Cycle \/ Look \/ Leave \/ PublishSteps("runner")

-----------------------------------------------------------------------------
(* Paho's network thread. *)

\* Connected again, CONNACK read: the callback is about to be called.
Reconnect ==
  /\ at["net"] = "down" /\ main # "loopStop"
  /\ Goto("net", "connack")
  /\ link' = TRUE
  /\ UNCHANGED <<live, stop, main, clock, up, fieldVars, sent, delivered,
                 leaving, queue, others, retained, raced>>

\* _handle_connect up to publish_discovery.
HandleConnect ==
  /\ at["net"] = "connack"
  /\ IF closing
     THEN Goto("net", "resend") /\ UNCHANGED <<connected, last>>
     ELSE /\ connected' = TRUE
          /\ last' = {}
          /\ Goto("net", "discovery")
  /\ UNCHANGED <<live, stop, main, clock, up, closing, netVars, retained, raced>>

\* publish_discovery, and the clock that publish_cycle is given.
Discover ==
  /\ at["net"] = "discovery"
  /\ PublishOthers(Entities)
  /\ clock' = [clock EXCEPT !["net"] = live]
  /\ Goto("net", "snapshot")
  /\ UNCHANGED <<live, stop, main, up, fieldVars, link, sent, delivered, leaving,
                 queue, retained, raced>>

Resend ==
  /\ at["net"] = "resend"
  /\ IF link THEN sent' = sent \o queue /\ queue' = <<>>
     ELSE UNCHANGED <<sent, queue>>
  /\ Goto("net", "idle")
  /\ UNCHANGED <<live, stop, main, clock, up, fieldVars, link, delivered, leaving,
                 others, retained, raced>>

\* A PUBACK is read between callbacks.
Acknowledge ==
  /\ at["net"] = "idle" /\ link
  /\ \/ /\ delivered > 0
        /\ sent' = Tail(sent)
        /\ delivered' = delivered - 1
        /\ UNCHANGED others
     \/ /\ others > 0
        /\ others' = others - 1
        /\ UNCHANGED <<sent, delivered>>
  /\ UNCHANGED <<live, stop, main, threadVars, fieldVars, link, leaving, queue,
                 retained, raced>>

\* The thread finds the connection gone: _handle_disconnect.
HandleDisconnect ==
  /\ at["net"] = "idle" /\ ~link
  /\ connected' = FALSE
  /\ Goto("net", "down")
  /\ UNCHANGED <<live, stop, main, clock, up, last, closing, netVars, retained,
                 raced>>

Network ==
  \/ Reconnect
  \/ HandleConnect
  \/ Discover
  \/ Resend
  \/ Acknowledge
  \/ HandleDisconnect
  \/ PublishSteps("net")

-----------------------------------------------------------------------------
(* The broker. *)

\* A graceful DISCONNECT discards the will.
Deliver ==
  /\ link
  /\ \/ /\ delivered < Len(sent)
        /\ LET m == sent[delivered + 1] IN retained' = [retained EXCEPT ![m.topic] = m.up]
        /\ delivered' = delivered + 1
        /\ UNCHANGED <<link, sent, leaving>>
     \/ /\ delivered = Len(sent) /\ leaving
        /\ link' = FALSE /\ leaving' = FALSE
        /\ sent' = <<>> /\ delivered' = 0
        /\ UNCHANGED retained
  /\ UNCHANGED <<live, stop, main, threadVars, fieldVars, queue, others, raced>>

\* The connection breaks, or ends with the process: the last will.
Break ==
  /\ link
  /\ link' = FALSE /\ leaving' = FALSE
  /\ retained' = [retained EXCEPT !["availability"] = FALSE]
  /\ queue' = IF main = "gone" THEN queue ELSE queue \o sent
  /\ sent' = <<>>
  /\ delivered' = 0
  /\ UNCHANGED <<live, stop, main, threadVars, fieldVars, others, raced>>

-----------------------------------------------------------------------------
(* The collector's thread: collector_command and close. *)

\* A valid real-time sample is recorded; or none has been for stale_after.
Record ==
  /\ main = "collecting" /\ ~live
  /\ live' = TRUE
  /\ UNCHANGED <<stop, main, threadVars, fieldVars, netVars, retained, raced>>

Expire ==
  /\ live
  /\ live' = FALSE
  /\ UNCHANGED <<stop, main, threadVars, fieldVars, netVars, retained, raced>>

\* publish_event, after the event's batch was committed.
PublishEvent ==
  /\ main = "collecting"
  /\ PublishOthers(1)
  /\ UNCHANGED <<live, stop, main, threadVars, fieldVars, link, sent, delivered,
                 leaving, queue, retained, raced>>

\* stop.set(); the thread is joined before close.
Stop ==
  /\ main = "collecting"
  /\ stop' = TRUE
  /\ main' = "join"
  /\ UNCHANGED <<live, threadVars, fieldVars, netVars, retained, raced>>

InCallback == at["net"] \notin {"down", "connack", "idle", "ended"}

\* The bound on the join is left out: it is reached only when the runner is blocked
\* longer than that, and nothing it does after stop waits for the network.
BeginClose ==
  /\ main = "join" /\ at["runner"] = "ended"
  /\ closing' = TRUE
  /\ raced' = InCallback
  /\ main' = "offline"
  /\ UNCHANGED <<live, stop, threadVars, connected, last, netVars, retained>>

\* Mutant: a failed publish is waited for like any other.
PublishOfflineUnchecked ==
  /\ main = "offline"
  /\ IF connected THEN Publish(Offline) ELSE UNCHANGED <<sent, queue, others>>
  /\ main' = "wait"
  /\ UNCHANGED <<live, stop, threadVars, fieldVars, link, delivered, leaving,
                 retained, raced>>

PublishOffline ==
  /\ main = "offline"
  /\ IF connected THEN Publish(Offline)
     ELSE UNCHANGED <<sent, queue, others>>
  /\ main' = IF connected /\ Published THEN "wait" ELSE "loopStop"
  /\ UNCHANGED <<live, stop, threadVars, fieldVars, link, delivered, leaving,
                 retained, raced>>

\* wait_for_publish returns when the PUBACK is read or after two seconds.
Acknowledged == \A i \in DOMAIN (sent \o queue) : (sent \o queue)[i] # Offline

Wait ==
  /\ main = "wait"
  /\ main' = "loopStop"
  /\ leaving' = (Acknowledged /\ link)
  /\ last' = IF Acknowledged THEN {FALSE} ELSE last
  /\ UNCHANGED <<live, stop, threadVars, connected, closing, link, sent, delivered,
                 queue, others, retained, raced>>

\* The process ends, and with it everything it held in memory.
EndProcess ==
  /\ main' = "gone"
  /\ at' = [t \in Threads |-> "ended"]
  /\ clock' = [t \in Threads |-> FALSE]
  /\ up' = [t \in Threads |-> FALSE]
  /\ live' = FALSE
  /\ connected' = FALSE /\ last' = {}
  /\ queue' = <<>> /\ others' = 0
  /\ UNCHANGED <<stop, closing, link, sent, delivered, leaving, retained, raced>>

\* loop_stop joins the network thread.
LoopStop ==
  /\ main = "loopStop" /\ at["net"] \in {"idle", "down"}
  /\ EndProcess

Crash ==
  /\ main # "gone"
  /\ EndProcess

Close == BeginClose \/ PublishOffline \/ Wait \/ LoopStop

-----------------------------------------------------------------------------

Next ==
  \/ Runner
  \/ Network
  \/ Deliver
  \/ Break
  \/ Record
  \/ Expire
  \/ PublishEvent
  \/ Stop
  \/ Close
  \/ Crash

Spec == Init /\ [][Next]_vars

\* Threads run, Paho reconnects while the broker can be reached, an unbroken
\* connection delivers, and the 30 seconds to the next cycle always pass.
FairSpec ==
  /\ Spec
  /\ WF_vars(Runner)
  /\ WF_vars(Network)
  /\ WF_vars(Deliver)
  /\ SF_vars(Cycle)

-----------------------------------------------------------------------------
(* Properties. *)

\* Threads, fields and queues keep their shape: _broker_connected is not set
\* while the network thread looks for a connection, and an unreachable broker
\* never makes Paho's queue grow past its limit.
TypeOK ==
  /\ live \in BOOLEAN /\ stop \in BOOLEAN
  /\ main \in {"collecting", "join", "offline", "wait", "loopStop", "gone"}
  /\ at \in [Threads -> {"top", "decideLazily", "down", "connack", "discovery", "resend", "idle",
                         "snapshot", "state", "decide", "availability", "note", "ended"}]
  /\ at["runner"] \notin {"down", "connack", "discovery", "resend", "idle"}
  /\ at["net"] \notin {"top", "decideLazily"}
  /\ clock \in [Threads -> BOOLEAN] /\ up \in [Threads -> BOOLEAN]
  /\ connected => at["net"] \notin {"down", "connack"}
  /\ connected \in BOOLEAN /\ closing \in BOOLEAN /\ raced \in BOOLEAN
  /\ last \in SUBSET BOOLEAN
  /\ link \in BOOLEAN /\ leaving \in BOOLEAN
  /\ leaving => link /\ main \in {"loopStop", "gone"}
  /\ sent \in Seq(Message) /\ queue \in Seq(Message) /\ others \in Nat
  /\ Len(sent) + Len(queue) + others <= MaxQueued
  /\ delivered \in 0..Len(sent)
  /\ retained \in [Topics -> BOOLEAN]

\* Time and again a cycle starts with all PUBACKs read: they take less than the
\* 30 seconds between two cycles.
Drains == []<>(at["runner"] = "snapshot" /\ sent = <<>> /\ others = 0)

\* Events are rare, and do not fill the queue before every cycle.
EventsPause == <>[][~PublishEvent]_vars

\* While the collector runs and the broker stays reachable and answers in time,
\* both retained topics come to agree with the cache and stay so, whatever two
\* threads published before with what they had read and Paho sends again.
Converges ==
  Drains /\ EventsPause => \A value \in BOOLEAN :
    <>[](main = "collecting" /\ link /\ live = value)
      => <>[](retained = [topic \in Topics |-> value])

\* After the process is gone, killed or closed, and the broker has seen the end
\* of its connection, the retained availability is offline; except when a
\* CONNACK was being handled as close began.
OfflineWhenGone ==
  main = "gone" /\ ~link /\ ~raced => ~retained["availability"]

\* "The broker can then apply the retained offline last will when the process
\* closes its transport instead of preserving "online"": no exception.
NeverPreservesOnline ==
  main = "gone" /\ ~link => ~retained["availability"]
=============================================================================
