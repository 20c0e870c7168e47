----------------------------- MODULE PublisherProofs -----------------------------
(***************************************************************************)
(* Of the MQTT publisher, for queues of any length and any number of       *)
(* discovery messages: types, and that a process that is gone is offline.  *)
(***************************************************************************)
EXTENDS Publisher, TLAPS

Places == {"top", "decideLazily", "down", "connack", "discovery", "resend", "idle",
           "snapshot", "state", "decide", "availability", "note", "ended"}

\* The types, in parts.
ControlOK ==
  /\ live \in BOOLEAN /\ stop \in BOOLEAN
  /\ main \in {"collecting", "join", "offline", "wait", "loopStop", "gone"}
  /\ at \in [Threads -> Places]
  /\ at["runner"] \notin {"down", "connack", "discovery", "resend", "idle"}
  /\ at["net"] \notin {"top", "decideLazily"}
  /\ clock \in [Threads -> BOOLEAN] /\ up \in [Threads -> BOOLEAN]
  /\ connected => at["net"] \notin {"down", "connack"}
  /\ connected \in BOOLEAN /\ closing \in BOOLEAN /\ raced \in BOOLEAN
  /\ last \in SUBSET BOOLEAN

NetOK ==
  /\ link \in BOOLEAN /\ leaving \in BOOLEAN
  /\ leaving => link /\ main \in {"loopStop", "gone"}
  /\ sent \in Seq(Message) /\ queue \in Seq(Message) /\ others \in Nat
  /\ Len(sent) + Len(queue) + others <= MaxQueued
  /\ delivered \in 0..Len(sent)
  /\ retained \in [Topics -> BOOLEAN]

\* The type invariant, split into control and network.
LEMMA TypeOKParts == TypeOK <=> ControlOK /\ NetOK
BY DEF TypeOK, ControlOK, NetOK, Places

-----------------------------------------------------------------------------
(* Types. *)

\* What the publisher sends are messages.
LEMMA MessagesTyped ==
  /\ Offline \in Message
  /\ \A value \in BOOLEAN : State(value) \in Message /\ Availability(value) \in Message
BY DEF Offline, State, Availability, Message, Topics

\* A publish keeps the queues typed and within Paho's limit.
LEMMA PublishTyped ==
  ASSUME NetOK, NEW m \in Message, Publish(m)
  PROVE  /\ sent' \in Seq(Message) /\ queue' \in Seq(Message) /\ others' \in Nat
         /\ Len(sent') + Len(queue') + others' <= MaxQueued
         /\ delivered \in 0..Len(sent')
<1>1. MaxQueued \in Nat
  BY QueueAssumption
<1>2. CASE sent' = sent /\ queue' = queue
  BY <1>2 DEF NetOK, Publish
<1>3. CASE Room > 0 /\ sent' = Append(sent, m) /\ queue' = queue
  BY <1>1, <1>3, SMT DEF NetOK, Publish, Room
<1>4. CASE Room > 0 /\ queue' = Append(queue, m) /\ sent' = sent
  BY <1>1, <1>4, SMT DEF NetOK, Publish, Room
<1> QED
  <2>1. Room \in Int
    BY <1>1, SMT DEF NetOK, Room
  <2>2. ~(Room <= 0) => Room > 0
    BY <2>1, SMT
  <2> QED BY <1>2, <1>3, <1>4, <2>2, Zenon DEF Publish

\* So does a publish to another topic.
LEMMA OthersTyped ==
  ASSUME NetOK, NEW number \in Nat, PublishOthers(number)
  PROVE  others' \in Nat /\ Len(sent) + Len(queue) + others' <= MaxQueued
<1> DEFINE free == MaxQueued - Len(sent) - Len(queue) - others
<1>1. /\ Len(sent) \in Nat /\ Len(queue) \in Nat /\ others \in Nat /\ MaxQueued \in Nat
      /\ free \in Int /\ Len(sent) + Len(queue) + others + free = MaxQueued
  BY QueueAssumption, SMT DEF NetOK
<1>2. \/ others' = others
      \/ ~(free <= 0) /\ number < free /\ others' = others + number
      \/ ~(free <= 0) /\ others' = others + free
  BY Zenon DEF PublishOthers, Room
<1>3. Len(sent) + Len(queue) + others <= MaxQueued
  BY DEF NetOK
<1> HIDE DEF free
<1> QED BY <1>1, <1>2, <1>3, SMT

\* A step of either thread, as far as its own control goes.
LEMMA GotoTyped ==
  ASSUME ControlOK, NEW t \in Threads, NEW label \in Places, Goto(t, label)
  PROVE  /\ at' \in [Threads -> Places] /\ at'[t] = label
         /\ \A u \in Threads : u # t => at'[u] = at[u]
BY DEF ControlOK, Goto

\* No step breaks the types of the control state.
LEMMA ControlOKKept == TypeOK /\ [Next]_vars => ControlOK'
<1> SUFFICES ASSUME ControlOK, NetOK, [Next]_vars PROVE ControlOK'
  BY TypeOKParts
<1> USE DEF threadVars, fieldVars, netVars
<1>b. TRUE \in BOOLEAN /\ FALSE \in BOOLEAN
  BY Zenon
<1>t. "runner" \in Threads /\ "net" \in Threads /\ \A t \in Threads : t = "runner" \/ t = "net"
  BY DEF Threads
<1>l. \A t \in Threads : (clock[t] \/ live) \in BOOLEAN
  BY Zenon
<1>r. ASSUME NEW t \in Threads, Return(t), at[t] \in {"decide", "decideLazily", "availability", "note"}
      PROVE  /\ at' \in [Threads -> Places] /\ clock' \in [Threads -> BOOLEAN]
             /\ up' \in [Threads -> BOOLEAN]
             /\ at'["runner"] \notin {"down", "connack", "discovery", "resend", "idle"}
             /\ at'["net"] \notin {"top", "decideLazily"}
             /\ at'["net"] \in {"down", "connack"} => at'["net"] = at["net"]
  <2>1. (IF t = "runner" THEN "top" ELSE "resend") \in Places
    BY DEF Places
  <2>2. /\ at' \in [Threads -> Places]
        /\ at'["runner"] \notin {"down", "connack", "discovery", "resend", "idle"}
        /\ at'["net"] \notin {"top", "decideLazily"}
        /\ at'["net"] \in {"down", "connack"} => at'["net"] = at["net"]
    <3>1. CASE t = "runner"
      <4>1. at' = [at EXCEPT !["runner"] = "top"]
        BY <1>r, <3>1 DEF Return, Goto
      <4> QED BY <1>t, <1>r, <2>1, <3>1, <4>1 DEF ControlOK
    <3>2. CASE t = "net"
      <4>1. at' = [at EXCEPT !["net"] = "resend"]
        BY <1>r, <3>2 DEF Return, Goto
      <4> QED BY <1>t, <1>r, <2>1, <3>2, <4>1 DEF ControlOK
    <3> QED BY <1>t, <3>1, <3>2
  <2>3. clock' \in [Threads -> BOOLEAN] /\ up' \in [Threads -> BOOLEAN]
    BY <1>r, <1>b, Zenon DEF Return, ControlOK
  <2> QED BY <2>2, <2>3
<1>g. ASSUME NEW t \in Threads, NEW label \in Places, Goto(t, label),
             t = "runner" => label \notin {"down", "connack", "discovery", "resend", "idle"},
             t = "net" => label \notin {"top", "decideLazily", "down", "connack"}
      PROVE  /\ at' \in [Threads -> Places]
             /\ at'["runner"] \notin {"down", "connack", "discovery", "resend", "idle"}
             /\ at'["net"] \notin {"top", "decideLazily"}
             /\ at'["net"] \in {"down", "connack"} => at'["net"] = at["net"]
  BY <1>t, <1>g DEF Goto, ControlOK
<1>p. {"snapshot", "state", "decide", "availability", "note", "decideLazily", "ended", "discovery",
       "resend", "idle", "down", "connack", "top"} \subseteq Places
  BY DEF Places
<1>1. ASSUME NEW t \in Threads, TakeSnapshot(t) PROVE ControlOK'
  <2>1. Goto(t, "state") /\ UNCHANGED <<live, stop, main, clock, fieldVars, raced>>
    BY <1>1 DEF TakeSnapshot
  <2>2. up' \in [Threads -> BOOLEAN]
    BY <1>1, <1>l, Zenon DEF TakeSnapshot, ControlOK
  <2> QED BY <1>g, <1>p, <2>1, <2>2 DEF ControlOK
<1>2. ASSUME NEW t \in Threads, PublishState(t) PROVE ControlOK'
  <2>1. Goto(t, "decide") /\ UNCHANGED <<live, stop, main, clock, fieldVars, raced>>
    BY <1>2 DEF PublishState
  <2>2. up' \in [Threads -> BOOLEAN]
    BY <1>2, <1>b, Zenon DEF PublishState, ControlOK
  <2> QED BY <1>g, <1>p, <2>1, <2>2 DEF ControlOK
<1>3. ASSUME NEW t \in Threads, Decide(t) PROVE ControlOK'
  <2>1. UNCHANGED <<live, stop, main, fieldVars, raced>> /\ at[t] \in {"decide", "decideLazily"}
    BY <1>3 DEF Decide
  <2>2. CASE Return(t)
    BY <1>r, <2>1, <2>2 DEF ControlOK
  <2>3. CASE ~Return(t)
    <3>1. Goto(t, "availability") /\ clock' = clock
      BY <1>3, <2>3, Zenon DEF Decide
    <3>2. up' \in [Threads -> BOOLEAN]
      BY <1>3, <2>3, <1>l, Zenon DEF Decide, ControlOK
    <3> QED BY <1>g, <1>p, <2>1, <3>1, <3>2 DEF ControlOK
  <2> QED BY <2>2, <2>3
<1>4. ASSUME NEW t \in Threads, PublishAvailability(t) PROVE ControlOK'
  <2>1. UNCHANGED <<live, stop, main, fieldVars, raced>> /\ at[t] = "availability"
    BY <1>4 DEF PublishAvailability
  <2>2. CASE Return(t)
    BY <1>r, <2>1, <2>2 DEF ControlOK
  <2>3. CASE Goto(t, "note") /\ UNCHANGED <<clock, up>>
    BY <1>g, <1>p, <2>1, <2>3 DEF ControlOK
  <2> QED BY <1>4, <2>2, <2>3, Zenon DEF PublishAvailability
<1>5. ASSUME NEW t \in Threads, Note(t) PROVE ControlOK'
  <2>1. UNCHANGED <<live, stop, main, connected, closing, raced>> /\ at[t] = "note" /\ Return(t)
    BY <1>5 DEF Note
  <2>2. last' \in SUBSET BOOLEAN
    BY <1>5, Zenon DEF Note, ControlOK
  <2> QED BY <1>r, <2>1, <2>2 DEF ControlOK
<1>6. CASE Cycle \/ Look
  <2>1. /\ UNCHANGED <<live, stop, main, up, fieldVars, raced>>
        /\ Goto("runner", "snapshot") \/ Goto("runner", "decideLazily")
    BY <1>6 DEF Cycle, Look
  <2>2. clock' \in [Threads -> BOOLEAN]
    BY <1>6, Zenon DEF Cycle, Look, ControlOK
  <2> QED BY <1>t, <1>g, <1>p, <2>1, <2>2 DEF ControlOK
<1>7. CASE Leave
  <2>1. /\ UNCHANGED <<live, stop, main, clock, up, fieldVars, raced>> /\ Goto("runner", "ended")
    BY <1>7 DEF Leave
  <2> QED BY <1>t, <1>g, <1>p, <2>1 DEF ControlOK
<1>8. CASE Reconnect \/ HandleDisconnect
  <2>1. /\ UNCHANGED <<live, stop, main, clock, up, last, closing, raced>>
        /\ \/ Goto("net", "connack") /\ connected' = connected /\ at["net"] = "down"
           \/ Goto("net", "down") /\ connected' = FALSE
    BY <1>8 DEF Reconnect, HandleDisconnect
  <2>2. at["net"] = "down" => ~connected
    BY DEF ControlOK
  <2>3. ~connected' /\ connected' \in BOOLEAN
    <3>1. CASE connected' = connected /\ at["net"] = "down"
      BY <2>2, <3>1, Zenon DEF ControlOK
    <3>2. CASE connected' = FALSE
      BY <1>b, <3>2, Zenon
    <3> QED BY <2>1, <3>1, <3>2
  <2> QED BY <1>t, <1>p, <2>1, <2>3 DEF ControlOK, Goto
<1>9. CASE HandleConnect
  <2>1. /\ UNCHANGED <<live, stop, main, clock, up, closing, raced>>
        /\ Goto("net", "resend") \/ Goto("net", "discovery")
        /\ connected' = connected \/ connected' = TRUE
        /\ last' = last \/ last' = {}
        /\ at["net"] = "connack"
    BY <1>9 DEF HandleConnect
  <2>2. at'["net"] \notin {"down", "connack"}
    BY <1>t, <2>1 DEF Goto, ControlOK
  <2> QED BY <1>b, <1>t, <1>g, <1>p, <2>1, <2>2 DEF ControlOK
<1>10. CASE Discover
  <2>1. /\ UNCHANGED <<live, stop, main, up, fieldVars, raced>> /\ Goto("net", "snapshot")
    BY <1>10 DEF Discover
  <2>2. clock' \in [Threads -> BOOLEAN]
    BY <1>10, Zenon DEF Discover, ControlOK
  <2> QED BY <1>t, <1>g, <1>p, <2>1, <2>2 DEF ControlOK
<1>11. CASE Resend
  <2>1. UNCHANGED <<live, stop, main, clock, up, fieldVars, raced>> /\ Goto("net", "idle")
    BY <1>11 DEF Resend
  <2> QED BY <1>t, <1>g, <1>p, <2>1 DEF ControlOK
<1>12. CASE Acknowledge \/ Deliver \/ Break \/ PublishEvent
  BY <1>12 DEF Acknowledge, Deliver, Break, PublishEvent, ControlOK
<1>13. CASE Record \/ Expire \/ Stop
  <2>1. /\ UNCHANGED <<at, clock, up, connected, last, closing, raced>>
        /\ live' \in BOOLEAN /\ stop' \in BOOLEAN
    BY <1>13, <1>b, Zenon DEF Record, Expire, Stop, ControlOK
  <2>2. main' \in {main, "join"}
    BY <1>13 DEF Record, Expire, Stop
  <2> QED BY <2>1, <2>2 DEF ControlOK
<1>14. CASE BeginClose
  <2>1. InCallback \in BOOLEAN
    BY Zenon DEF InCallback
  <2> QED BY <1>14, <1>b, <2>1 DEF BeginClose, ControlOK
<1>15. CASE PublishOffline \/ Wait
  <2>1. /\ UNCHANGED <<live, stop, threadVars, connected, closing, raced>>
        /\ last' = last \/ last' = {FALSE}
        /\ main' \in {"wait", "loopStop"}
    BY <1>15 DEF PublishOffline, Wait
  <2> QED BY <2>1, Zenon DEF ControlOK
<1>16. CASE EndProcess
  BY <1>16, <1>b, <1>t, <1>p DEF EndProcess, ControlOK
<1>17. CASE UNCHANGED vars
  BY <1>17 DEF vars, ControlOK
<1> QED
  BY <1>1, <1>2, <1>3, <1>4, <1>5, <1>6, <1>7, <1>8, <1>9, <1>10, <1>11, <1>12, <1>13, <1>14,
     <1>15, <1>16, <1>17, <1>t, Zenon
  DEF Next, Runner, Network, Close, PublishSteps, LoopStop, Crash

\* No step breaks the types of the queues and the broker.
LEMMA NetOKKept == TypeOK /\ [Next]_vars => NetOK'
<1> SUFFICES ASSUME ControlOK, NetOK, [Next]_vars PROVE NetOK'
  BY TypeOKParts
<1>b. TRUE \in BOOLEAN /\ FALSE \in BOOLEAN
  BY Zenon
<1>u. \A t \in Threads : up[t] \in BOOLEAN
  BY DEF ControlOK
<1>s. sent \in Seq(Message) /\ queue \in Seq(Message)
  BY DEF NetOK
<1>n. /\ Len(sent) \in Nat /\ Len(queue) \in Nat /\ others \in Nat /\ MaxQueued \in Nat
      /\ delivered \in Nat /\ delivered <= Len(sent)
      /\ Len(sent) + Len(queue) + others <= MaxQueued
  BY <1>s, QueueAssumption, SMT DEF NetOK
<1>e. <<>> \in Seq(Message) /\ Len(<<>>) = 0
  OBVIOUS
<1>0. ASSUME UNCHANGED <<main, netVars, retained>> PROVE NetOK'
  BY <1>0 DEF NetOK, netVars
<1>1. ASSUME UNCHANGED <<main, link, delivered, leaving, retained>>,
             NEW m \in Message, Publish(m) \/ UNCHANGED <<sent, queue, others>>
      PROVE  NetOK'
  BY <1>1, PublishTyped DEF NetOK
<1>2. ASSUME UNCHANGED <<main, link, delivered, leaving, sent, queue, retained>>,
             NEW number \in Nat, PublishOthers(number)
      PROVE  NetOK'
  BY <1>2, OthersTyped DEF NetOK
<1>3. ASSUME NEW t \in Threads, PublishSteps(t) PROVE NetOK'
  <2>1. CASE PublishState(t)
    BY <1>u, <1>1, <2>1, MessagesTyped DEF PublishState
  <2>2. CASE PublishAvailability(t)
    BY <1>u, <1>1, <2>2, MessagesTyped DEF PublishAvailability
  <2> QED BY <1>0, <1>3, <2>1, <2>2 DEF PublishSteps, TakeSnapshot, Decide, Note
<1>4. CASE Reconnect
  <2>1. /\ UNCHANGED <<main, sent, delivered, leaving, queue, others, retained>> /\ link' = TRUE
    BY <1>4 DEF Reconnect
  <2> QED BY <1>b, <2>1 DEF NetOK
<1>5. CASE Resend
  <2>1. /\ UNCHANGED <<main, link, delivered, leaving, others, retained>>
        /\ \/ sent' = sent \o queue /\ queue' = <<>>
           \/ sent' = sent /\ queue' = queue
    BY <1>5 DEF Resend
  <2>2. /\ sent' \in Seq(Message) /\ queue' \in Seq(Message)
        /\ Len(sent') \in Nat /\ Len(queue') \in Nat
        /\ Len(sent') + Len(queue') = Len(sent) + Len(queue) /\ Len(sent) <= Len(sent')
    <3>1. /\ sent \o queue \in Seq(Message)
          /\ Len(sent \o queue) = Len(sent) + Len(queue)
      BY <1>s
    <3>2. CASE sent' = sent \o queue /\ queue' = <<>>
      BY <1>n, <1>e, <3>1, <3>2
    <3>3. CASE sent' = sent /\ queue' = queue
      BY <1>s, <1>n, <3>3
    <3> QED BY <2>1, <3>2, <3>3
  <2>3. delivered' \in 0..Len(sent') /\ Len(sent') + Len(queue') + others' <= MaxQueued
    BY <1>n, <2>1, <2>2, SMT
  <2> QED BY <2>1, <2>2, <2>3 DEF NetOK
<1>6. CASE Acknowledge
  <2>1. /\ UNCHANGED <<main, link, leaving, queue, retained>>
        /\ \/ delivered > 0 /\ sent' = Tail(sent) /\ delivered' = delivered - 1 /\ others' = others
           \/ others > 0 /\ others' = others - 1 /\ sent' = sent /\ delivered' = delivered
    BY <1>6 DEF Acknowledge
  <2>2. delivered > 0 => Tail(sent) \in Seq(Message) /\ Len(Tail(sent)) = Len(sent) - 1
    BY <1>s, <1>n, SMT
  <2>3. /\ sent' \in Seq(Message) /\ others' \in Nat /\ delivered' \in 0..Len(sent')
        /\ Len(sent') + Len(queue) + others' <= MaxQueued
    <3>1. CASE delivered > 0 /\ sent' = Tail(sent) /\ delivered' = delivered - 1 /\ others' = others
      <4>1. sent' \in Seq(Message) /\ Len(sent') = Len(sent) - 1
        BY <2>2, <3>1
      <4> QED BY <1>n, <3>1, <4>1
    <3>2. CASE others > 0 /\ others' = others - 1 /\ sent' = sent /\ delivered' = delivered
      <4>1. others' \in Nat /\ others' <= others
        BY <1>n, <3>2
      <4>2. sent' \in Seq(Message) /\ Len(sent') = Len(sent)
        BY <1>s, <3>2
      <4> QED BY <1>n, <3>2, <4>1, <4>2
    <3> QED BY <2>1, <3>1, <3>2
  <2> QED BY <2>1, <2>3 DEF NetOK
<1>7. CASE Deliver
  <2>1. CASE /\ delivered < Len(sent)
             /\ retained' = [retained EXCEPT ![sent[delivered + 1].topic]
                                        = sent[delivered + 1].up]
             /\ delivered' = delivered + 1
             /\ UNCHANGED <<link, sent, leaving>>
    <3>1. delivered' \in 0..Len(sent) /\ sent[delivered + 1] \in Message
      BY <2>1, SMT DEF NetOK
    <3>2. retained' \in [Topics -> BOOLEAN]
      BY <2>1, <3>1 DEF NetOK, Message
    <3> QED BY <1>7, <2>1, <3>1, <3>2 DEF Deliver, NetOK
  <2>2. CASE /\ link' = FALSE /\ leaving' = FALSE
             /\ sent' = <<>> /\ delivered' = 0
             /\ UNCHANGED retained
    <3>1. Len(queue) + others <= MaxQueued /\ Len(sent') = 0 /\ sent' \in Seq(Message)
      BY <1>n, <1>e, <2>2, SMT
    <3>2. delivered' \in 0..Len(sent') /\ Len(sent') + Len(queue) + others <= MaxQueued
      BY <1>n, <2>2, <3>1, SMT
    <3> QED BY <1>7, <1>b, <3>2, <2>2, <3>1 DEF Deliver, NetOK
  <2> QED BY <1>7, <2>1, <2>2 DEF Deliver
<1>8. CASE Break
  <2>1. /\ UNCHANGED <<main, others>> /\ link' = FALSE /\ leaving' = FALSE
        /\ retained' = [retained EXCEPT !["availability"] = FALSE]
        /\ queue' = queue \/ queue' = queue \o sent
        /\ sent' = <<>> /\ delivered' = 0
    BY <1>8 DEF Break
  <2>2. /\ queue' \in Seq(Message) /\ sent' \in Seq(Message) /\ Len(sent') = 0
        /\ Len(sent') + Len(queue') + others <= MaxQueued /\ delivered' \in 0..Len(sent')
    <3>1. queue \o sent \in Seq(Message) /\ Len(queue \o sent) = Len(queue) + Len(sent)
      BY <1>s
    <3>2. sent' \in Seq(Message) /\ Len(sent') = 0
      BY <1>e, <2>1
    <3>3. CASE queue' = queue
      BY <1>s, <1>n, <2>1, <3>2, <3>3
    <3>4. CASE queue' = queue \o sent
      BY <1>n, <2>1, <3>1, <3>2, <3>4
    <3> QED BY <2>1, <3>3, <3>4
  <2>3. retained' \in [Topics -> BOOLEAN]
    BY <1>b, <2>1 DEF NetOK
  <2> QED BY <1>b, <2>1, <2>2, <2>3 DEF NetOK
<1>9. CASE BeginClose \/ Stop
  BY <1>9 DEF BeginClose, Stop, NetOK, netVars
<1>10. CASE PublishOffline
  <2>1. /\ UNCHANGED <<link, delivered, leaving, retained>> /\ main = "offline"
        /\ Publish(Offline) \/ UNCHANGED <<sent, queue, others>>
    BY <1>10 DEF PublishOffline
  <2>2. ~leaving
    BY <2>1 DEF NetOK
  <2> QED BY <2>1, <2>2, PublishTyped, MessagesTyped DEF NetOK
<1>11. CASE Wait
  <2>1. /\ UNCHANGED <<link, sent, delivered, queue, others, retained>> /\ main' = "loopStop"
        /\ leaving' = (Acknowledged /\ link)
    BY <1>11 DEF Wait
  <2>2. leaving' \in BOOLEAN /\ (leaving' => link)
    BY <2>1, Zenon
  <2> QED BY <2>1, <2>2 DEF NetOK
<1>12. CASE EndProcess
  <2>1. /\ UNCHANGED <<link, sent, delivered, leaving, retained>> /\ main' = "gone"
        /\ queue' = <<>> /\ others' = 0
    BY <1>12 DEF EndProcess
  <2>2. /\ queue' \in Seq(Message) /\ others' \in Nat
        /\ Len(sent) + Len(queue') + others' <= MaxQueued
    BY <2>1, QueueAssumption, SMT DEF NetOK
  <2> QED BY <2>1, <2>2 DEF NetOK
<1>13. CASE PublishEvent \/ Discover
  <2>1. Entities \in Nat /\ 1 \in Nat
    BY QueueAssumption
  <2> QED BY <1>2, <1>13, <2>1 DEF PublishEvent, Discover
<1> QED
  BY <1>0, <1>3, <1>4, <1>5, <1>6, <1>7, <1>8, <1>9, <1>10, <1>11, <1>12, <1>13
  DEF Next, Runner, Network, Close, LoopStop, Crash, Cycle, Look, Leave, HandleConnect,
      HandleDisconnect, Record, Expire, vars, Threads

\* The initial state is typed.
LEMMA TypeOKStarts == Init => TypeOK
<1> SUFFICES ASSUME Init PROVE ControlOK /\ NetOK
  BY TypeOKParts
<1>1. TRUE \in BOOLEAN /\ FALSE \in BOOLEAN
  BY Zenon
<1>2. /\ at \in [Threads -> Places] /\ at["runner"] = "top" /\ at["net"] = "down"
  BY DEF Init, Threads, Places
<1>3. /\ clock \in [Threads -> BOOLEAN] /\ up \in [Threads -> BOOLEAN]
      /\ retained \in [Topics -> BOOLEAN]
  BY <1>1, Zenon DEF Init
<1>4. ControlOK
  BY <1>1, <1>2, <1>3 DEF Init, ControlOK
<1>5. Len(sent) = 0 /\ Len(queue) = 0 /\ sent \in Seq(Message) /\ queue \in Seq(Message)
  BY DEF Init
<1>6. /\ Len(sent) + Len(queue) + others <= MaxQueued
      /\ delivered \in 0..Len(sent) /\ others \in Nat
  BY <1>5, QueueAssumption, SMT DEF Init
<1>7. link \in BOOLEAN /\ leaving \in BOOLEAN /\ ~leaving
  BY <1>1, Zenon DEF Init
<1> QED BY <1>3, <1>4, <1>5, <1>6, <1>7 DEF NetOK

\* Threads, fields and queues keep their shape; Paho's queue stays in its limit.
THEOREM TypeCorrect == Spec => []TypeOK
<1>1. TypeOK /\ [Next]_vars => TypeOK'
  <2> SUFFICES ASSUME TypeOK, [Next]_vars PROVE TypeOK'
    OBVIOUS
  <2>1. ControlOK' /\ NetOK'
    BY ControlOKKept, NetOKKept
  <2> QED BY <2>1 DEF TypeOK, ControlOK, NetOK, Places
<1> QED BY <1>1, TypeOKStarts, PTL DEF Spec

-----------------------------------------------------------------------------
(* Offline when gone. *)

\* Who may still publish when, and where messages may wait.
OrderInv ==
  /\ main \in {"collecting", "join"} => ~raced /\ ~closing
  /\ main \in {"offline", "wait", "loopStop"} => closing
  /\ closing => at["runner"] = "ended"
  /\ closing /\ ~raced =>
       \/ at["net"] \in {"down", "connack", "idle", "ended"}
       \/ at["net"] = "resend" /\ ~connected
  /\ main = "gone" => at["runner"] = "ended"
  /\ main = "gone" <=> at["net"] = "ended"
  /\ at["net"] = "down" => ~link
  /\ ~link => Len(sent) = 0
  /\ at["net"] = "idle" /\ link => Len(queue) = 0

\* While close() waits for the PUBACK of "offline" nothing is behind it; what ends
\* a connection without a will has put the topic to offline before.
OfflineInv ==
  ~raced =>
    /\ ~link => ~retained["availability"]
    /\ main = "wait" =>
         /\ Len(sent) > 0 => sent[Len(sent)] = Offline
         /\ Len(queue) > 0 => Len(sent) = 0 /\ queue[Len(queue)] = Offline
         /\ delivered = Len(sent) /\ Len(queue) = 0 => ~retained["availability"]
    /\ leaving => Len(sent) = 0 /\ Len(queue) = 0 /\ ~retained["availability"]

\* No step lets a thread publish at a stage of close it may not.
LEMMA OrderInvKept == TypeOK /\ OrderInv /\ [Next]_vars => OrderInv'
<1> SUFFICES ASSUME ControlOK, NetOK, OrderInv, [Next]_vars PROVE OrderInv'
  BY TypeOKParts
<1>t. "runner" \in Threads /\ "net" \in Threads /\ \A t \in Threads : t = "runner" \/ t = "net"
  BY DEF Threads
<1>a. at \in [Threads -> Places]
  BY DEF ControlOK
<1>s. sent \in Seq(Message) /\ queue \in Seq(Message)
  BY DEF NetOK
<1>e. Len(<<>>) = 0
  OBVIOUS
<1>0. ASSUME UNCHANGED <<main, at, raced, closing, connected, link, sent, queue>> PROVE OrderInv'
  BY <1>0 DEF OrderInv
<1>1. ASSUME NEW t \in Threads, PublishSteps(t) PROVE OrderInv'
  <2>1. /\ UNCHANGED <<main, raced, closing, connected, link>>
        /\ at[t] \in {"snapshot", "state", "decide", "decideLazily", "availability", "note"}
        /\ \E label \in {"state", "decide", "availability", "note"} \cup
                        (IF t = "runner" THEN {"top"} ELSE {"resend"}) : Goto(t, label)
    BY <1>t, <1>1, Zenon
    DEF PublishSteps, TakeSnapshot, PublishState, Decide, PublishAvailability, Note, Return,
        fieldVars, netVars
  <2>2. /\ link => queue' = queue
        /\ ~link => sent' = sent
    BY <1>1, Zenon
    DEF PublishSteps, TakeSnapshot, PublishState, Decide, PublishAvailability, Note, Publish,
        netVars
  <2>3. main # "gone" /\ (closing => raced)
    BY <1>t, <2>1 DEF OrderInv
  <2>4. /\ t = "net" => at'["runner"] = at["runner"]
        /\ t = "runner" => at'["net"] = at["net"]
        /\ at'[t] \notin {"down", "idle", "ended"}
    BY <1>a, <1>t, <2>1 DEF Goto
  <2>5. closing => t # "runner"
    BY <2>1 DEF OrderInv
  <2> QED BY <1>t, <2>1, <2>2, <2>3, <2>4, <2>5 DEF OrderInv
<1>2. CASE Cycle \/ Look \/ Leave
  <2>1. /\ UNCHANGED <<main, raced, closing, connected, link, sent, queue>>
        /\ at["runner"] = "top" /\ at'["net"] = at["net"]
    BY <1>a, <1>t, <1>2 DEF Cycle, Look, Leave, Goto, fieldVars, netVars
  <2> QED BY <2>1 DEF OrderInv
<1>3. CASE Reconnect
  <2>1. /\ UNCHANGED <<main, raced, closing, connected, sent, queue>> /\ link' = TRUE
        /\ at'["net"] = "connack" /\ at'["runner"] = at["runner"] /\ at["net"] = "down"
    BY <1>a, <1>t, <1>3 DEF Reconnect, Goto, fieldVars
  <2> QED BY <2>1 DEF OrderInv
<1>4. CASE HandleConnect
  <2>1. /\ UNCHANGED <<main, raced, closing, link, sent, queue>>
        /\ at["net"] = "connack" /\ at'["runner"] = at["runner"]
        /\ \/ closing /\ at'["net"] = "resend" /\ connected' = connected
           \/ ~closing /\ at'["net"] = "discovery"
    BY <1>a, <1>t, <1>4 DEF HandleConnect, Goto, netVars
  <2>2. ~connected
    BY <2>1 DEF ControlOK
  <2> QED BY <2>1, <2>2 DEF OrderInv
<1>5. CASE Discover
  <2>1. /\ UNCHANGED <<main, raced, closing, connected, link, sent, queue>>
        /\ at["net"] = "discovery" /\ at'["runner"] = at["runner"] /\ at'["net"] = "snapshot"
    BY <1>a, <1>t, <1>5 DEF Discover, Goto, fieldVars
  <2> QED BY <2>1 DEF OrderInv
<1>6. CASE Resend
  <2>1. /\ UNCHANGED <<main, raced, closing, connected, link>>
        /\ at["net"] = "resend" /\ at'["runner"] = at["runner"] /\ at'["net"] = "idle"
        /\ link => queue' = <<>>
        /\ ~link => sent' = sent
    BY <1>a, <1>t, <1>6 DEF Resend, Goto, fieldVars
  <2> QED BY <1>e, <2>1 DEF OrderInv
<1>7. CASE Acknowledge
  <2>1. UNCHANGED <<main, at, raced, closing, connected, link, queue>> /\ link
    BY <1>7 DEF Acknowledge, threadVars, fieldVars
  <2> QED BY <2>1 DEF OrderInv
<1>8. CASE HandleDisconnect
  <2>1. /\ UNCHANGED <<main, raced, closing, link, sent, queue>> /\ ~link
        /\ at["net"] = "idle" /\ at'["runner"] = at["runner"] /\ at'["net"] = "down"
    BY <1>a, <1>t, <1>8 DEF HandleDisconnect, Goto, netVars
  <2> QED BY <2>1 DEF OrderInv
<1>9. CASE Deliver
  <2>1. /\ UNCHANGED <<main, at, raced, closing, connected, queue>> /\ link
        /\ \/ link' = link
           \/ link' = FALSE /\ sent' = <<>>
    BY <1>9 DEF Deliver, threadVars, fieldVars
  <2> QED BY <1>e, <2>1 DEF OrderInv
<1>10. CASE Break
  <2>1. /\ UNCHANGED <<main, at, raced, closing, connected>> /\ link
        /\ link' = FALSE /\ sent' = <<>>
    BY <1>10 DEF Break, threadVars, fieldVars
  <2> QED BY <1>e, <2>1 DEF OrderInv
<1>11. CASE Stop
  BY <1>11 DEF Stop, threadVars, fieldVars, netVars, OrderInv
<1>12. CASE BeginClose
  <2>1. /\ UNCHANGED <<at, connected, link, sent, queue>>
        /\ main = "join" /\ main' = "offline"
        /\ closing' = TRUE /\ raced' = InCallback /\ at["runner"] = "ended"
    BY <1>12 DEF BeginClose, threadVars, netVars
  <2>2. ~InCallback => at["net"] \in {"down", "connack", "idle", "ended"}
    BY DEF InCallback
  <2> QED BY <2>1, <2>2 DEF OrderInv
<1>13. CASE PublishOffline
  <2>1. /\ UNCHANGED <<at, raced, closing, connected, link>> /\ main = "offline"
        /\ main' \in {"wait", "loopStop"}
        /\ link => queue' = queue
        /\ ~link => sent' = sent
    BY <1>13 DEF PublishOffline, Publish, threadVars, fieldVars
  <2> QED BY <2>1 DEF OrderInv
<1>14. CASE Wait
  <2>1. UNCHANGED <<at, raced, closing, connected, link, sent, queue>> /\ main' = "loopStop"
        /\ main = "wait"
    BY <1>14 DEF Wait, threadVars
  <2> QED BY <2>1 DEF OrderInv
<1>15. CASE EndProcess
  <2>1. /\ UNCHANGED <<raced, closing, link, sent>> /\ main' = "gone"
        /\ at'["runner"] = "ended" /\ at'["net"] = "ended"
    BY <1>t, <1>15 DEF EndProcess
  <2> QED BY <2>1 DEF OrderInv
<1> QED
  BY <1>0, <1>1, <1>2, <1>3, <1>4, <1>5, <1>6, <1>7, <1>8, <1>9, <1>10, <1>11, <1>12, <1>13,
     <1>14, <1>15, <1>t
  DEF Next, Runner, Network, Close, LoopStop, Crash, Record, Expire, PublishEvent, vars,
      threadVars, fieldVars, netVars

\* What is published after close() has begun, and by whom.
LEMMA OfflineInvKept == TypeOK /\ OrderInv /\ OfflineInv /\ [Next]_vars => OfflineInv'
<1> SUFFICES ASSUME ControlOK, NetOK, OrderInv, OfflineInv, [Next]_vars, ~raced'
             PROVE  OfflineInv'
  BY TypeOKParts DEF OfflineInv
<1>t. "runner" \in Threads /\ "net" \in Threads /\ \A t \in Threads : t = "runner" \/ t = "net"
  BY DEF Threads
<1>a. at \in [Threads -> Places]
  BY DEF ControlOK
<1>s. sent \in Seq(Message) /\ queue \in Seq(Message) /\ retained \in [Topics -> BOOLEAN]
  BY DEF NetOK
<1>n. /\ Len(sent) \in Nat /\ Len(queue) \in Nat
      /\ delivered \in Nat /\ delivered <= Len(sent)
  BY <1>s, SMT DEF NetOK
<1>e. Len(<<>>) = 0
  OBVIOUS
<1>f. "availability" \in Topics /\ Offline.topic = "availability" /\ Offline.up = FALSE
  BY DEF Topics, Offline
<1>0. ASSUME UNCHANGED <<main, raced, link, leaving, sent, delivered, queue, retained>>
      PROVE  OfflineInv'
  BY <1>0 DEF OfflineInv
<1>1. ASSUME NEW t \in Threads, PublishSteps(t) PROVE OfflineInv'
  <2>1. /\ UNCHANGED <<main, raced, closing, link, leaving, delivered, retained>>
        /\ at[t] \in {"snapshot", "state", "decide", "decideLazily", "availability", "note"}
    BY <1>t, <1>1, Zenon
    DEF PublishSteps, TakeSnapshot, PublishState, Decide, PublishAvailability, Note,
        fieldVars, netVars
  <2>2. ~closing /\ main # "gone"
    BY <1>t, <2>1 DEF OrderInv
  <2>3. main # "wait" /\ main # "loopStop" /\ ~leaving
    BY <2>2 DEF OrderInv, NetOK
  <2> QED BY <2>1, <2>3 DEF OfflineInv
<1>2. CASE Reconnect
  <2>1. /\ UNCHANGED <<main, raced, leaving, sent, delivered, queue, retained>> /\ link' = TRUE
    BY <1>2 DEF Reconnect
  <2> QED BY <2>1 DEF OfflineInv
<1>3. CASE Resend
  <2>1. UNCHANGED <<main, raced, link, leaving, delivered, retained>>
    BY <1>3 DEF Resend
  <2>2. CASE link
    <3>1. sent' = sent \o queue /\ queue' = <<>>
      BY <1>3, <2>2 DEF Resend
    <3>2. CASE Len(queue) = 0
      <4>1. sent' = sent /\ Len(queue') = 0
        BY <1>s, <1>e, <3>1, <3>2
      <4> QED BY <2>1, <3>2, <4>1 DEF OfflineInv
    <3>3. CASE Len(queue) > 0 /\ main = "wait" /\ ~leaving
      <4>1. Len(sent) = 0 /\ queue[Len(queue)] = Offline
        BY <2>1, <3>3 DEF OfflineInv
      <4>2. sent' = queue
        BY <1>s, <3>1, <4>1
      <4>3. Len(queue') = 0 /\ delivered # Len(sent')
        BY <1>n, <1>e, <3>1, <3>3, <4>1, <4>2
      <4> QED BY <2>1, <2>2, <3>3, <4>1, <4>2, <4>3 DEF OfflineInv
    <3>4. CASE Len(queue) > 0 /\ main # "wait"
      <4>1. ~leaving
        BY <2>1, <3>4 DEF OfflineInv
      <4> QED BY <2>1, <2>2, <3>4, <4>1 DEF OfflineInv
    <3>5. main = "wait" => ~leaving
      BY DEF NetOK
    <3> QED BY <1>n, <3>2, <3>3, <3>4, <3>5
  <2>3. CASE ~link
    BY <1>0, <1>3, <2>1, <2>3 DEF Resend
  <2> QED BY <2>2, <2>3
<1>4. CASE Acknowledge
  <2>1. /\ UNCHANGED <<main, raced, link, leaving, queue, retained>> /\ link
    BY <1>4 DEF Acknowledge
  <2>2. CASE delivered > 0 /\ sent' = Tail(sent) /\ delivered' = delivered - 1
    <3>1. Len(sent) > 0 /\ Len(sent') = Len(sent) - 1
      BY <1>s, <1>n, <2>2
    <3>2. Len(sent') > 0 => sent'[Len(sent')] = sent[Len(sent)]
      <4> SUFFICES ASSUME Len(sent') > 0 PROVE sent'[Len(sent')] = sent[Len(sent)]
        OBVIOUS
      <4>1. Len(sent) - 1 \in 1..Len(sent) - 1 /\ Len(sent) - 1 + 1 = Len(sent)
        BY <1>n, <3>1
      <4>2. \A i \in 1..Len(sent) - 1 : Tail(sent)[i] = sent[i + 1]
        BY <1>s, <3>1
      <4> QED BY <2>2, <3>1, <4>1, <4>2
    <3>3. delivered' = Len(sent') <=> delivered = Len(sent)
      BY <1>n, <2>2, <3>1
    <3>4. ~leaving
      BY <2>1, <3>1 DEF OfflineInv
    <3> QED BY <2>1, <3>1, <3>2, <3>3, <3>4 DEF OfflineInv
  <2>3. CASE sent' = sent /\ delivered' = delivered
    BY <1>0, <2>1, <2>3
  <2> QED BY <1>4, <2>2, <2>3 DEF Acknowledge
<1>5. CASE Deliver
  <2>1. CASE /\ delivered < Len(sent)
             /\ retained' = [retained EXCEPT ![sent[delivered + 1].topic]
                                        = sent[delivered + 1].up]
             /\ delivered' = delivered + 1
             /\ UNCHANGED <<link, sent, leaving>>
    <3>1. UNCHANGED <<main, raced, queue>> /\ link
      BY <1>5 DEF Deliver
    <3>2. ~leaving
      BY <1>n, <2>1, <3>1 DEF OfflineInv
    <3>3. main = "wait" /\ delivered' = Len(sent) => ~retained'["availability"]
      <4> SUFFICES ASSUME main = "wait", delivered' = Len(sent)
                   PROVE  ~retained'["availability"]
        OBVIOUS
      <4>1. Len(sent) > 0 /\ delivered + 1 = Len(sent)
        BY <1>n, <2>1
      <4>2. sent[delivered + 1] = Offline
        BY <3>1, <4>1 DEF OfflineInv
      <4>3. retained' = [retained EXCEPT !["availability"] = FALSE]
        BY <1>f, <2>1, <4>2
      <4> QED BY <1>s, <1>f, <4>3
    <3> QED BY <2>1, <3>1, <3>2, <3>3 DEF OfflineInv
  <2>2. CASE /\ delivered = Len(sent) /\ leaving
             /\ link' = FALSE /\ leaving' = FALSE
             /\ sent' = <<>> /\ delivered' = 0
             /\ UNCHANGED retained
    <3>1. UNCHANGED <<main, raced, queue>>
      BY <1>5 DEF Deliver
    <3>2. ~retained["availability"] /\ main # "wait"
      BY <2>2, <3>1 DEF OfflineInv, NetOK
    <3> QED BY <2>2, <3>1, <3>2 DEF OfflineInv
  <2> QED BY <1>5, <2>1, <2>2 DEF Deliver
<1>6. CASE Break
  <2>1. /\ UNCHANGED <<main, raced>> /\ link' = FALSE /\ leaving' = FALSE
        /\ retained' = [retained EXCEPT !["availability"] = FALSE]
        /\ main = "wait" => queue' = queue \o sent
        /\ sent' = <<>>
    BY <1>6 DEF Break
  <2>2. ~retained'["availability"] /\ Len(sent') = 0
    BY <1>s, <1>e, <1>f, <2>1
  <2>3. main = "wait" /\ Len(queue') > 0 => queue'[Len(queue')] = Offline
    <3> SUFFICES ASSUME main = "wait", Len(queue') > 0 PROVE queue'[Len(queue')] = Offline
      OBVIOUS
    <3>1. CASE Len(queue) > 0
      <4>1. Len(sent) = 0 /\ queue[Len(queue)] = Offline
        BY <2>1, <3>1 DEF OfflineInv
      <4>2. queue' = queue
        BY <1>s, <2>1, <4>1
      <4> QED BY <4>1, <4>2
    <3>2. CASE Len(queue) = 0
      <4>1. queue' = sent
        BY <1>s, <2>1, <3>2
      <4> QED BY <2>1, <4>1 DEF OfflineInv
    <3> QED BY <1>n, <3>1, <3>2
  <2> QED BY <2>1, <2>2, <2>3 DEF OfflineInv
<1>7. CASE Stop \/ BeginClose
  <2>1. /\ UNCHANGED <<link, leaving, sent, delivered, queue, retained>>
        /\ main' \in {"join", "offline"} /\ main \in {"collecting", "join"}
    BY <1>7 DEF Stop, BeginClose, netVars
  <2>2. ~raced
    BY <2>1 DEF OrderInv
  <2> QED BY <2>1, <2>2 DEF OfflineInv
<1>8. CASE PublishOffline
  <2>1. /\ UNCHANGED <<raced, at, link, delivered, leaving, retained>> /\ main = "offline"
        /\ \/ main' = "loopStop"
           \/ main' = "wait" /\ connected /\ Room > 0 /\ link /\ Publish(Offline)
    BY <1>8, Zenon DEF PublishOffline, Published, threadVars
  <2>2. ~leaving /\ closing
    BY <2>1 DEF NetOK, OrderInv
  <2>3. CASE main' = "wait" /\ connected /\ Room > 0 /\ link /\ Publish(Offline)
    <3>1. at["net"] = "idle"
      BY <2>1, <2>2, <2>3 DEF OrderInv, ControlOK
    <3>2. Room \in Int
      BY <1>n, QueueAssumption, SMT DEF Room, NetOK
    <3>3. ~(Room <= 0)
      BY <2>3, <3>2, SMT
    <3>4. sent' = Append(sent, Offline) /\ queue' = queue /\ Len(queue) = 0
      BY <2>2, <2>3, <3>1, <3>3 DEF Publish, OrderInv
    <3>5. Len(sent') = Len(sent) + 1 /\ sent'[Len(sent) + 1] = Offline
      BY <1>s, <3>4
    <3>6. delivered # Len(sent') /\ Len(queue') = 0
      BY <1>n, <3>4, <3>5
    <3> QED BY <2>1, <2>2, <2>3, <3>4, <3>5, <3>6 DEF OfflineInv
  <2>4. CASE main' = "loopStop"
    BY <2>1, <2>2, <2>4 DEF OfflineInv
  <2> QED BY <2>1, <2>3, <2>4
<1>9. CASE Wait
  <2>1. /\ UNCHANGED <<raced, link, sent, delivered, queue, retained>>
        /\ main = "wait" /\ main' = "loopStop"
        /\ leaving' => Acknowledged
    BY <1>9, Zenon DEF Wait
  <2>2. Acknowledged => Len(sent) = 0 /\ Len(queue) = 0
    <3> DEFINE all == sent \o queue
    <3> SUFFICES ASSUME Acknowledged, Len(sent) + Len(queue) > 0 PROVE FALSE
      BY <1>n
    <3>1. /\ all \in Seq(Message) /\ Len(all) = Len(sent) + Len(queue) /\ Len(all) \in Nat
          /\ DOMAIN all = 1..Len(all)
      BY <1>s, <1>n
    <3>2. all[Len(all)] = Offline
      <4>1. CASE Len(queue) > 0
        <5>1. Len(sent) = 0 /\ queue[Len(queue)] = Offline
          BY <2>1, <4>1 DEF OfflineInv
        <5>2. all = queue
          BY <1>s, <5>1
        <5> QED BY <5>1, <5>2
      <4>2. CASE Len(queue) = 0
        <5>1. all = sent /\ Len(sent) > 0
          BY <1>s, <1>n, <4>2
        <5> QED BY <2>1, <5>1 DEF OfflineInv
      <4> QED BY <1>n, <4>1, <4>2
    <3>3. Len(all) \in DOMAIN all
      BY <1>n, <3>1
    <3> QED BY <3>2, <3>3 DEF Acknowledged
  <2>3. Len(sent) = 0 => delivered = Len(sent)
    BY <1>n
  <2> QED BY <2>1, <2>2, <2>3 DEF OfflineInv
<1>10. CASE EndProcess
  <2>1. /\ UNCHANGED <<raced, link, leaving, sent, retained>> /\ main' = "gone" /\ queue' = <<>>
    BY <1>10 DEF EndProcess
  <2> QED BY <1>e, <2>1 DEF OfflineInv
<1> QED
  BY <1>0, <1>1, <1>2, <1>3, <1>4, <1>5, <1>6, <1>7, <1>8, <1>9, <1>10, <1>t
  DEF Next, Runner, Network, Close, LoopStop, Crash, Record, Expire, PublishEvent, Cycle, Look,
      Leave, HandleConnect, Discover, HandleDisconnect, vars, threadVars, fieldVars, netVars

\* After the process is gone and the broker has seen the end of its connection,
\* the retained availability is offline: whatever Paho's queue holds and resends,
\* unless a CONNACK was being handled as close() began.
THEOREM GoneIsOffline == Spec => []OfflineWhenGone
<1>1. Init => OrderInv /\ OfflineInv
  BY DEF Init, OrderInv, OfflineInv, Topics
<1>2. OfflineInv => OfflineWhenGone
  BY DEF OfflineInv, OfflineWhenGone
<1>3. Spec => [](OrderInv /\ OfflineInv)
  BY <1>1, TypeCorrect, OrderInvKept, OfflineInvKept, PTL DEF Spec
<1> QED BY <1>2, <1>3, PTL
=============================================================================
