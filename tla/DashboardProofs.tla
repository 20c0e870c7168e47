---------------------------- MODULE DashboardProofs ----------------------------
(***************************************************************************)
(* Of the dashboard's two effects, for any number of panels, selections,   *)
(* overlapping calls and failures.                                         *)
(***************************************************************************)
EXTENDS Dashboard, NaturalsInduction, WellFoundedInduction, TLAPS

\* The types, in parts.
PollTypes ==
  /\ hidden \in BOOLEAN /\ timer \in BOOLEAN /\ currentError \in BOOLEAN
  /\ polls \in [Poll -> {"free", "waiting", "aborted", "timedOut"}]
  /\ controller \in Poll \cup {None}
  /\ timer => ~hidden

LoadTypes ==
  /\ selection \in Selections /\ rolling \in BOOLEAN
  /\ load \in {"none", "waiting", "retry", "done"}
  /\ stale \in [Slot -> Selections \cup {None}] /\ staleTimers \in 0..MaxStale
  /\ history \in [Panels -> Selections \cup {Empty}] \cup {Null}
  /\ historyLoading \in BOOLEAN /\ historyError \in BOOLEAN

ListTypes == devices \in {"loading", "retry", "listed"} /\ failures \in 0..MaxFailures

\* The type invariant, split by the effect that owns the variables.
LEMMA TypeOKParts == TypeOK <=> PollTypes /\ LoadTypes /\ ListTypes
BY DEF TypeOK, PollTypes, LoadTypes, ListTypes

\* The call in requestController has not been aborted; no other will be shown.
PollInv ==
  /\ OnePoll
  /\ PollingGoesOn
  /\ controller # None => polls[controller] \in {"waiting", "timedOut"} /\ ~hidden

LoadInv == RetriedWhileInError /\ LoadingHonest /\ SettledShowsSelection

-----------------------------------------------------------------------------

\* The slot or identity taken is one of those that are free.
LEMMA LowestExists ==
  ASSUME NEW S \in SUBSET Nat, S # {}
  PROVE  Lowest(S) \in S
<1>1. PICK least \in S : \A t \in S : <<t, least>> \notin OpToRel(<, Nat)
  BY NatLessThanWellFounded, WFMin, Zenon
<1>2. \A t, u \in Nat : t < u => <<t, u>> \in OpToRel(<, Nat)
  BY SMT DEF OpToRel
<1>3. \A t \in S : ~(t < least)
  BY <1>1, <1>2
<1>4. \A t \in S : least <= t
  BY <1>3, SMT
<1> QED BY <1>4, Zenon DEF Lowest

\* What the assumptions say of the sets the variables range over.
LEMMA Constants ==
  /\ 1 \in Selections /\ Poll \subseteq Nat /\ Slot \subseteq Nat
  /\ None \notin Poll /\ None \notin Selections
  /\ MaxStale \in Nat /\ MaxFailures \in Nat
BY DashboardAssumption DEF Selections, Poll, Slot, None

\* What a call of refresh() does to the polls, however the page is.
LEMMA Refreshed ==
  ASSUME PollTypes, OnePoll, controller # None => polls[controller] \in {"waiting", "timedOut"},
         Refresh(~hidden', polls, controller), controller # None => ~hidden'
  PROVE  /\ polls' \in [Poll -> {"free", "waiting", "aborted", "timedOut"}]
         /\ controller' \in Poll \cup {None}
         /\ OnePoll'
         /\ controller' # None => polls'[controller'] \in {"waiting", "timedOut"}
         /\ ~hidden' <=> controller' # None
<1> DEFINE free == {p \in Poll : polls[p] = "free"}
<1>1. CASE ~hidden' /\ controller = None
  <2>1. free # {} /\ polls' = [polls EXCEPT ![Lowest(free)] = "waiting"]
        /\ controller' = Lowest(free)
    BY <1>1 DEF Refresh
  <2>2. Lowest(free) \in Poll
    BY <2>1, Constants, LowestExists
  <2>3. Lowest(free) # None
    BY <2>2, Constants
  <2> HIDE DEF free
  <2>4. \A p \in Poll : polls[p] # "waiting"
    BY <1>1, Constants DEF OnePoll
  <2>5. /\ polls' \in [Poll -> {"free", "waiting", "aborted", "timedOut"}]
        /\ polls'[controller'] = "waiting"
        /\ \A p \in Poll : polls'[p] = "waiting" => p = controller'
    BY <2>1, <2>2, <2>4 DEF PollTypes
  <2> QED BY <1>1, <2>1, <2>2, <2>3, <2>5 DEF OnePoll
<1>2. CASE ~(~hidden' /\ controller = None)
  <2>1. polls' = polls /\ controller' = controller
    BY <1>2 DEF Refresh
  <2>2. \A p \in Poll : polls[p] = "waiting" => p = controller
    BY DEF OnePoll
  <2>3. \A p \in Poll : polls[p] = "waiting" => ~hidden'
    BY <2>2, Constants
  <2> QED BY <1>2, <2>1, <2>2, <2>3 DEF PollTypes, OnePoll
<1> QED BY <1>1, <1>2

\* A run of the history effect leaves a load under way, for the new selection.
LEMMA Reloaded ==
  ASSUME LoadTypes, NEW next \in Selections, Reload(next)
  PROVE  /\ selection' \in Selections
         /\ load' = "waiting" /\ historyLoading'
         /\ historyLoading' \in BOOLEAN
         /\ stale' \in [Slot -> Selections \cup {None}]
<1>0. TRUE \in BOOLEAN
  OBVIOUS
<1> DEFINE free == {s \in Slot : stale[s] = None}
<1>1. CASE load = "waiting"
  <2>1. free # {} /\ stale' = [stale EXCEPT ![Lowest(free)] = selection]
    BY <1>1 DEF Reload
  <2>2. Lowest(free) \in Slot
    BY <2>1, Constants, LowestExists
  <2> HIDE DEF free
  <2> QED BY <1>0, <2>1, <2>2 DEF Reload, LoadTypes
<1>2. CASE load # "waiting"
  BY <1>0, <1>2 DEF Reload, LoadTypes
<1> QED BY <1>1, <1>2

\* Panels hold selections, or nothing before the first answer.
LEMMA Shown ==
  ASSUME LoadTypes, NEW wanted \in Selections, NEW failed \in SUBSET Panels,
         Shows(wanted, failed)
  PROVE  history' \in [Panels -> Selections \cup {Empty}] \cup {Null}
<1>1. \A p \in Panels :
        (IF p \notin failed THEN wanted ELSE IF history = Null THEN Empty ELSE history[p])
          \in Selections \cup {Empty}
  BY DEF LoadTypes
<1> QED BY <1>1 DEF Shows

-----------------------------------------------------------------------------
(* The polling effect. *)

\* No step breaks the part of the polls.
LEMMA PollsKept ==
  ASSUME PollTypes, PollInv, [Next]_vars
  PROVE  PollTypes' /\ PollInv'
<1>b. TRUE \in BOOLEAN /\ FALSE \in BOOLEAN
  BY Zenon
<1>0. ASSUME UNCHANGED pollVars, devices' # "listed" \/ devices = "listed"
      PROVE  PollTypes' /\ PollInv'
  BY <1>0 DEF pollVars, PollTypes, PollInv, OnePoll, PollingGoesOn
<1>1. CASE TimerFires
  <2>1. /\ UNCHANGED <<devices, hidden, currentError>> /\ timer' = FALSE /\ timer
        /\ Refresh(~hidden', polls, controller)
    BY <1>1, Zenon DEF TimerFires
  <2>2. ~hidden'
    BY <2>1 DEF PollTypes
  <2>3. /\ polls' \in [Poll -> {"free", "waiting", "aborted", "timedOut"}]
        /\ controller' \in Poll \cup {None}
        /\ OnePoll'
        /\ controller' # None => polls'[controller'] \in {"waiting", "timedOut"}
        /\ ~hidden' <=> controller' # None
    BY <2>1, <2>2, Refreshed DEF PollInv
  <2> QED BY <1>b, <2>1, <2>2, <2>3 DEF PollTypes, PollInv, PollingGoesOn
<1>2. ASSUME NEW p \in Poll, TimesOut(p) PROVE PollTypes' /\ PollInv'
  <2>1. /\ UNCHANGED <<devices, hidden, timer, controller, currentError>>
        /\ polls' = [polls EXCEPT ![p] = "timedOut"]
    BY <1>2 DEF TimesOut
  <2> QED BY <2>1, Constants DEF PollTypes, PollInv, OnePoll, PollingGoesOn
<1>3. ASSUME NEW p \in Poll, Settles(p) PROVE PollTypes' /\ PollInv'
  <2>1. /\ UNCHANGED <<devices, hidden>> /\ timer' = ~hidden /\ Ends(p)
    BY <1>3 DEF Settles, Answered, Fails, Schedule
  <2>2. currentError' \in BOOLEAN /\ timer' \in BOOLEAN
    BY <1>3, Zenon DEF Settles, Answered, Fails, Schedule
  <2> QED BY <2>1, <2>2, Constants DEF Ends, PollTypes, PollInv, OnePoll, PollingGoesOn
<1>4. ASSUME NEW p \in Poll, EndsQuietly(p) PROVE PollTypes' /\ PollInv'
  <2>1. /\ UNCHANGED <<devices, hidden, timer, currentError>> /\ Ends(p) /\ polls[p] = "aborted"
    BY <1>4 DEF EndsQuietly
  <2>2. controller # p
    BY <2>1, Constants DEF PollInv
  <2> QED BY <2>1, <2>2, Constants DEF Ends, PollTypes, PollInv, OnePoll, PollingGoesOn
<1>5. CASE Hide
  <2>1. /\ UNCHANGED <<devices, currentError>> /\ hidden' = TRUE /\ timer' = FALSE
        /\ polls' = [p \in Poll |-> IF p = controller /\ polls[p] = "waiting" THEN "aborted"
                                    ELSE polls[p]]
        /\ controller' = None
    BY <1>5 DEF Hide
  <2> QED BY <1>b, <2>1, Constants DEF PollTypes, PollInv, OnePoll, PollingGoesOn
<1>6. CASE Show
  <2>1. /\ UNCHANGED <<devices, currentError>> /\ hidden' = FALSE /\ timer' = FALSE
        /\ Refresh(~hidden', polls, controller)
    <3>1. (~FALSE) = TRUE
      BY Zenon
    <3> QED BY <1>6, <3>1, Zenon DEF Show
  <2>2. /\ polls' \in [Poll -> {"free", "waiting", "aborted", "timedOut"}]
        /\ controller' \in Poll \cup {None}
        /\ OnePoll'
        /\ controller' # None => polls'[controller'] \in {"waiting", "timedOut"}
        /\ ~hidden' <=> controller' # None
    BY <1>b, <2>1, Refreshed DEF PollInv
  <2> QED BY <1>b, <2>1, <2>2 DEF PollTypes, PollInv, PollingGoesOn
<1>7. CASE Listed
  <2>1. /\ UNCHANGED <<hidden, timer, currentError>>
        /\ Refresh(~hidden', polls, controller)
    BY <1>7, Zenon DEF Listed
  <2>2. controller # None => ~hidden'
    BY <2>1 DEF PollInv
  <2>3. controller # None => polls[controller] \in {"waiting", "timedOut"}
    BY DEF PollInv
  <2>4. /\ polls' \in [Poll -> {"free", "waiting", "aborted", "timedOut"}]
        /\ controller' \in Poll \cup {None}
        /\ OnePoll'
        /\ controller' # None => polls'[controller'] \in {"waiting", "timedOut"}
        /\ ~hidden' <=> controller' # None
    <3>1. OnePoll
      BY DEF PollInv
    <3> QED BY <2>1, <2>2, <2>3, <3>1, Refreshed, Zenon
  <2> QED BY <2>1, <2>2, <2>4 DEF PollTypes, PollInv, PollingGoesOn
<1>8. CASE ListFails \/ ListAgain
  BY <1>0, <1>8 DEF ListFails, ListAgain
<1>9. CASE (\E mode \in BOOLEAN : Select(mode)) \/ Roll \/ Retry
  BY <1>0, <1>9 DEF Select, Roll, Retry
<1>10. CASE \E failed \in SUBSET Panels :
              Loaded(failed) \/ \E s \in Slot : StaleLoaded(s, failed)
  BY <1>0, <1>10 DEF Loaded, StaleLoaded
<1>11. CASE UNCHANGED vars
  BY <1>0, <1>11 DEF vars
<1> QED
  BY <1>1, <1>2, <1>3, <1>4, <1>5, <1>6, <1>7, <1>8, <1>9, <1>10, <1>11 DEF Next

-----------------------------------------------------------------------------
(* The history effect. *)

\* No step breaks the part of the history.
LEMMA LoadsKept ==
  ASSUME LoadTypes, LoadInv, [Next]_vars
  PROVE  LoadTypes' /\ LoadInv'
<1>b. TRUE \in BOOLEAN /\ FALSE \in BOOLEAN
  BY Zenon
<1>0. ASSUME UNCHANGED historyVars PROVE LoadTypes' /\ LoadInv'
  BY <1>0 DEF historyVars, LoadTypes, LoadInv, RetriedWhileInError, LoadingHonest,
         SettledShowsSelection
<1>n. selection < MaxSelections => selection + 1 \in Selections
  BY DashboardAssumption DEF LoadTypes, Selections
<1>h. Null \in [Panels -> Selections \cup {Empty}] \cup {Null}
  OBVIOUS
<1>1. ASSUME NEW mode \in BOOLEAN, Select(mode) PROVE LoadTypes' /\ LoadInv'
  <2>1. /\ UNCHANGED <<staleTimers, historyError>> /\ history' = Null /\ rolling' = mode
        /\ selection < MaxSelections /\ Reload(selection + 1)
    BY <1>1 DEF Select
  <2> QED BY <1>h, <1>n, <2>1, Reloaded DEF LoadTypes, LoadInv, RetriedWhileInError, LoadingHonest,
         SettledShowsSelection
<1>2. CASE Roll \/ Listed
  <2>1. /\ UNCHANGED <<staleTimers, historyError, history, rolling>>
        /\ \E next \in Selections : Reload(next)
    <3>1. selection \in Selections
      BY DEF LoadTypes
    <3>2. CASE Roll
      BY <1>n, <3>2, Zenon DEF Roll
    <3>3. CASE Listed
      BY <3>1, <3>3, Zenon DEF Listed
    <3> QED BY <1>2, <3>2, <3>3
  <2> QED BY <2>1, Reloaded DEF LoadTypes, LoadInv, RetriedWhileInError, LoadingHonest,
         SettledShowsSelection
<1>3. CASE Retry
  <2>1. /\ UNCHANGED <<historyError, history, rolling>> /\ Reload(selection)
        /\ \/ staleTimers' = staleTimers
           \/ staleTimers > 0 /\ staleTimers' = staleTimers - 1
    BY <1>3 DEF Retry
  <2>2. staleTimers' \in 0..MaxStale
    BY <2>1, Constants, SMT DEF LoadTypes
  <2>3. selection \in Selections
    BY DEF LoadTypes
  <2> QED BY <2>1, <2>2, <2>3, Reloaded DEF LoadTypes, LoadInv, RetriedWhileInError, LoadingHonest,
         SettledShowsSelection
<1>4. ASSUME NEW failed \in SUBSET Panels, Loaded(failed) PROVE LoadTypes' /\ LoadInv'
  <2>1. /\ UNCHANGED <<selection, rolling, stale, staleTimers>>
        /\ Shows(selection, failed) /\ historyLoading' = FALSE
        /\ \/ historyError' = FALSE /\ load' = "done" /\ failed = {}
           \/ historyError' = TRUE /\ load' = "retry"
    BY <1>4, Zenon DEF Loaded
  <2>2. selection \in Selections
    BY DEF LoadTypes
  <2>3. history' \in [Panels -> Selections \cup {Empty}] \cup {Null}
    BY <2>1, <2>2, Shown
  <2>4. failed = {} => history' = [p \in Panels |-> selection']
    BY <2>1 DEF Shows
  <2> QED BY <1>b, <2>1, <2>3, <2>4 DEF LoadTypes, LoadInv, RetriedWhileInError, LoadingHonest,
         SettledShowsSelection
<1>5. ASSUME NEW s \in Slot, NEW failed \in SUBSET Panels, StaleLoaded(s, failed)
      PROVE  LoadTypes' /\ LoadInv'
  <2>1. /\ UNCHANGED <<selection, rolling, load, historyLoading>>
        /\ Shows(stale[s], failed) /\ stale[s] # None /\ historyError' = TRUE
        /\ stale' = [stale EXCEPT ![s] = None]
        /\ staleTimers < MaxStale /\ staleTimers' = staleTimers + 1
    BY <1>5 DEF StaleLoaded
  <2>2. stale[s] \in Selections
    BY <2>1 DEF LoadTypes
  <2>3. history' \in [Panels -> Selections \cup {Empty}] \cup {Null}
    BY <2>1, <2>2, Shown
  <2>4. staleTimers' \in 0..MaxStale /\ staleTimers' > 0
    BY <2>1, Constants, SMT DEF LoadTypes
  <2> QED BY <1>b, <2>1, <2>3, <2>4 DEF LoadTypes, LoadInv, RetriedWhileInError, LoadingHonest,
         SettledShowsSelection
<1>6. CASE ListFails \/ ListAgain \/ TimerFires \/ Hide \/ Show
  BY <1>0, <1>6 DEF ListFails, ListAgain, TimerFires, Hide, Show
<1>7. ASSUME NEW p \in Poll, TimesOut(p) \/ Settles(p) \/ EndsQuietly(p)
      PROVE  LoadTypes' /\ LoadInv'
  BY <1>0, <1>7 DEF TimesOut, Settles, Answered, Fails, EndsQuietly
<1>8. CASE UNCHANGED vars
  BY <1>0, <1>8 DEF vars
<1> QED
  BY <1>1, <1>2, <1>3, <1>4, <1>5, <1>6, <1>7, <1>8 DEF Next

-----------------------------------------------------------------------------
(* The two together. *)

\* No step breaks the part of the device list.
LEMMA ListKept ==
  ASSUME ListTypes, [Next]_vars
  PROVE  ListTypes'
<1>1. devices' \in {devices, "loading", "retry", "listed"}
  BY DEF Next, vars, Listed, ListFails, ListAgain, TimerFires, Hide, Show, TimesOut, Settles,
         Answered, Fails, EndsQuietly, Select, Roll, Retry, Loaded, StaleLoaded
<1>2. failures' = failures \/ Failing
  BY DEF Next, vars, pollVars, historyVars, Listed, ListFails, ListAgain, TimerFires, Hide, Show,
         TimesOut, Settles, Answered, Fails, EndsQuietly, Select, Roll, Retry, Loaded, StaleLoaded
<1>3. failures' \in 0..MaxFailures
  BY <1>2, Constants, SMT DEF Failing, ListTypes
<1> QED BY <1>1, <1>3 DEF ListTypes

Inv == PollTypes /\ PollInv /\ LoadTypes /\ LoadInv /\ ListTypes

\* The invariant of all three parts holds in every state.
LEMMA InvHolds == Spec => []Inv
<1>1. Init => Inv
  <2> SUFFICES ASSUME Init PROVE Inv
    OBVIOUS
  <2>b. TRUE \in BOOLEAN /\ FALSE \in BOOLEAN
    BY Zenon
  <2>1. PollTypes /\ PollInv
    BY <2>b DEF Init, PollTypes, PollInv, OnePoll, PollingGoesOn
  <2>2. LoadTypes /\ LoadInv
    <3>1. /\ selection \in Selections /\ stale \in [Slot -> Selections \cup {None}]
          /\ staleTimers \in 0..MaxStale
          /\ history \in [Panels -> Selections \cup {Empty}] \cup {Null}
      BY Constants DEF Init
    <3>2. /\ rolling \in BOOLEAN /\ historyLoading \in BOOLEAN /\ historyError \in BOOLEAN
          /\ load \in {"none", "waiting", "retry", "done"}
          /\ ~historyLoading /\ ~historyError /\ load # "waiting"
      BY <2>b DEF Init
    <3>3. load # "done"
      BY DEF Init
    <3> QED BY <3>1, <3>2, <3>3 DEF LoadTypes, LoadInv, RetriedWhileInError, LoadingHonest,
                                     SettledShowsSelection
  <2>3. ListTypes
    BY Constants DEF Init, ListTypes
  <2> QED BY <2>1, <2>2, <2>3 DEF Inv
<1>2. Inv /\ [Next]_vars => Inv'
  BY PollsKept, LoadsKept, ListKept DEF Inv
<1> QED BY <1>1, <1>2, PTL DEF Spec

\* The effects' variables keep their types; no timer while the page is hidden.
THEOREM TypeCorrect == Spec => []TypeOK
<1>1. Inv => TypeOK
  BY TypeOKParts DEF Inv
<1> QED BY <1>1, InvHolds, PTL

\* At most one poll waits for an answer that will be shown, however polls,
\* timeouts and changes of the page's visibility overlap.
THEOREM OnePollAtATime == Spec => []OnePoll
<1>1. Inv => OnePoll
  BY DEF Inv, PollInv
<1> QED BY <1>1, InvHolds, PTL

\* On a visible page there is always a call under way or a timer that starts one.
THEOREM NeverStopsPolling == Spec => []PollingGoesOn
<1>1. Inv => PollingGoesOn
  BY DEF Inv, PollInv
<1> QED BY <1>1, InvHolds, PTL

\* The history's banner says "Retrying automatically." only while that is true.
THEOREM ErrorsRetried == Spec => []RetriedWhileInError
<1>1. Inv => RetriedWhileInError
  BY DEF Inv, LoadInv
<1> QED BY <1>1, InvHolds, PTL

\* The panels are marked as loading exactly while a load of what is selected is
\* under way, whatever aborted loads come to.
THEOREM LoadingIsHonest == Spec => []LoadingHonest
<1>1. Inv => LoadingHonest
  BY DEF Inv, LoadInv
<1> QED BY <1>1, InvHolds, PTL

\* Nothing an aborted load has written stays: when no load is under way or to come,
\* every panel shows what is selected, and no error.
THEOREM SettledIsRight == Spec => []SettledShowsSelection
<1>1. Inv => SettledShowsSelection
  BY DEF Inv, LoadInv
<1> QED BY <1>1, InvHolds, PTL
=============================================================================
