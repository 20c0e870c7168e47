------------------------------- MODULE Dashboard -------------------------------
(***************************************************************************)
(* The effects of App.tsx: the list of devices is fetched once; then one   *)
(* effect polls the current states while the page is visible, and another  *)
(* loads the history of what is selected, one request for each panel.      *)
(*                                                                         *)
(* An effect that runs again first cleans up what it ran before: it aborts *)
(* that request and clears that timer.  The promise of an aborted request  *)
(* is settled later, and its reactions run then.  How long a timer waits   *)
(* is left out: an armed one may fire.                                     *)
(***************************************************************************)
EXTENDS Integers

CONSTANTS
  Panels,         \* keyof HistoricalData
  MaxSelections,  \* bound: devices and ranges selected one after the other
  MaxPolls,       \* bound: polls not settled
  MaxStale,       \* bound: aborted loads not settled, and their timers
  MaxFailures     \* bound: requests that fail

ASSUME DashboardAssumption ==
  /\ MaxSelections \in Nat \ {0} /\ MaxPolls \in Nat \ {0}
  /\ MaxStale \in Nat /\ MaxFailures \in Nat

VARIABLES
  devices,       \* "loading", "retry" (its timer armed) or "listed"
  failures,
  \* The polling effect.
  hidden,        \* document.visibilityState
  timer,         \* armed
  polls,         \* refresh() calls: "free", "waiting", "aborted" or "timedOut"
  controller,    \* requestController: the call's number, or None
  currentError,
  \* The history effect.
  selection,     \* device and range, as the number of the selection
  rolling,       \* rangeMode
  load,          \* this run's: "none", "waiting", "retry" (its timer armed), "done"
  stale,         \* aborted loads not settled: the selections they are for
  staleTimers,   \* retry timers armed by aborted loads
  history,       \* per panel the selection it shows, or Empty; null: no panel
  historyLoading,
  historyError

pollVars == <<hidden, timer, polls, controller, currentError>>
historyVars == <<selection, rolling, load, stale, staleTimers, history,
                 historyLoading, historyError>>
vars == <<devices, failures, pollVars, historyVars>>

None == 0
Empty == 0
Null == [p \in {} |-> Empty]
Selections == 1..MaxSelections
Poll == 1..MaxPolls
Slot == 1..MaxStale

Init ==
  /\ devices = "loading" /\ failures = 0
  /\ hidden \in BOOLEAN /\ timer = FALSE
  /\ polls = [p \in Poll |-> "free"] /\ controller = None /\ currentError = FALSE
  /\ selection = 1 /\ rolling = TRUE
  /\ load = "none" /\ stale = [s \in Slot |-> None] /\ staleTimers = 0
  /\ history = Null /\ historyLoading = FALSE /\ historyError = FALSE

Failing == failures < MaxFailures /\ failures' = failures + 1
Lowest(S) == CHOOSE s \in S : \A t \in S : s <= t
-----------------------------------------------------------------------------
(* The polling effect. *)

\* refresh: nothing while the page is hidden or another call is under way.
Refresh(visible, calls, running) ==
  IF visible /\ running = None
  THEN LET free == {p \in Poll : calls[p] = "free"}
       IN  /\ free # {}
           /\ polls' = [calls EXCEPT ![Lowest(free)] = "waiting"]
           /\ controller' = Lowest(free)
  ELSE polls' = calls /\ controller' = running

TimerFires ==
  /\ timer
  /\ timer' = FALSE
  /\ Refresh(~hidden, polls, controller)
  /\ UNCHANGED <<devices, failures, hidden, currentError, historyVars>>

\* The call's own timeout aborts it, or finds it aborted.
TimesOut(p) ==
  /\ polls[p] \in {"waiting", "aborted"}
  /\ polls' = [polls EXCEPT ![p] = "timedOut"]
  /\ UNCHANGED <<devices, failures, hidden, timer, controller, currentError, historyVars>>

\* Mutant: the end of a call clears requestController whosever it is.
EndsAnyCall(p) ==
  /\ polls' = [polls EXCEPT ![p] = "free"]
  /\ controller' = None

\* The finally block.
Ends(p) ==
  /\ polls' = [polls EXCEPT ![p] = "free"]
  /\ controller' = IF controller = p THEN None ELSE controller

\* schedule: a hidden page polls again when it is shown.
Schedule == timer' = ~hidden

Answered(p) ==
  /\ polls[p] = "waiting"
  /\ currentError' = FALSE
  /\ Schedule /\ Ends(p)
  /\ UNCHANGED <<devices, failures, hidden, historyVars>>

\* A call that failed or timed out: the cached states age, and it is retried.
Fails(p) ==
  /\ \/ polls[p] = "timedOut" /\ UNCHANGED failures
     \/ polls[p] = "waiting" /\ Failing
  /\ currentError' = TRUE
  /\ Schedule /\ Ends(p)
  /\ UNCHANGED <<devices, hidden, historyVars>>

\* A call that was aborted because the page was hidden.
EndsQuietly(p) ==
  /\ polls[p] = "aborted"
  /\ Ends(p)
  /\ UNCHANGED <<devices, failures, hidden, timer, currentError, historyVars>>

\* Mutant: the aborted call is left to take itself out of requestController.
HideOnly ==
  /\ devices = "listed" /\ ~hidden
  /\ hidden' = TRUE /\ timer' = FALSE
  /\ polls' = [p \in Poll |-> IF p = controller /\ polls[p] = "waiting" THEN "aborted"
                              ELSE polls[p]]
  /\ UNCHANGED <<devices, failures, controller, currentError, historyVars>>

Hide ==
  /\ devices = "listed" /\ ~hidden
  /\ hidden' = TRUE /\ timer' = FALSE
  /\ polls' = [p \in Poll |-> IF p = controller /\ polls[p] = "waiting" THEN "aborted"
                              ELSE polls[p]]
  /\ controller' = None
  /\ UNCHANGED <<devices, failures, currentError, historyVars>>

Show ==
  /\ devices = "listed" /\ hidden
  /\ hidden' = FALSE /\ timer' = FALSE
  /\ Refresh(TRUE, polls, controller)
  /\ UNCHANGED <<devices, failures, currentError, historyVars>>

-----------------------------------------------------------------------------
(* The history effect. *)

\* The effect cleans up and runs again.  A timer armed by an aborted load is not
\* the one it clears.
Reload(next) ==
  /\ load' = "waiting" /\ historyLoading' = TRUE
  /\ IF load = "waiting"
     THEN LET free == {s \in Slot : stale[s] = None}
          IN  free # {} /\ stale' = [stale EXCEPT ![Lowest(free)] = selection]
     ELSE UNCHANGED stale
  /\ selection' = next

\* selectDevice of another device, changeRange.
Select(mode) ==
  /\ devices = "listed" /\ selection < MaxSelections
  /\ history' = Null
  /\ rolling' = mode
  /\ Reload(selection + 1)
  /\ UNCHANGED <<devices, failures, pollVars, staleTimers, historyError>>

\* The rolling range moves on, and the panels stay as they are until then.
Roll ==
  /\ devices = "listed" /\ rolling /\ selection < MaxSelections
  /\ Reload(selection + 1)
  /\ UNCHANGED <<devices, failures, pollVars, rolling, staleTimers, history, historyError>>

\* setHistory: a panel whose request failed keeps what it showed.
Shows(wanted, failed) ==
  history' = [p \in Panels |-> IF p \notin failed THEN wanted
                               ELSE IF history = Null THEN Empty ELSE history[p]]

\* Mutant: a load of which one panel arrived is not retried.
LoadedWithoutRetry(failed) ==
  /\ load = "waiting"
  /\ IF failed = {} THEN UNCHANGED failures ELSE Failing
  /\ Shows(selection, failed)
  /\ historyError' = (failed # {}) /\ historyLoading' = FALSE
  /\ load' = IF failed = {} \/ failed # Panels THEN "done" ELSE "retry"
  /\ UNCHANGED <<devices, pollVars, selection, rolling, stale, staleTimers>>

\* The requests of this run have all been answered, or have failed.
Loaded(failed) ==
  /\ load = "waiting"
  /\ IF failed = {} THEN UNCHANGED failures ELSE Failing
  /\ Shows(selection, failed)
  /\ historyError' = (failed # {}) /\ historyLoading' = FALSE
  /\ load' = IF failed = {} THEN "done" ELSE "retry"
  /\ UNCHANGED <<devices, pollVars, selection, rolling, stale, staleTimers>>

\* Mutant: an aborted load sets no timer, but shows what it has.
StaleLoadedWithoutRetry(s, failed) ==
  /\ stale[s] # None
  /\ failed # {}
  /\ Shows(stale[s], failed)
  /\ stale' = [stale EXCEPT ![s] = None]
  /\ UNCHANGED <<devices, failures, pollVars, selection, rolling, load, staleTimers,
                 historyLoading, historyError>>

\* Mutant: the end of an aborted load also ends the loading of this run's.
StaleLoadedEndsLoading(s, failed) ==
  /\ stale[s] # None /\ staleTimers < MaxStale
  /\ failed # {}
  /\ Shows(stale[s], failed)
  /\ historyError' = TRUE /\ historyLoading' = FALSE
  /\ stale' = [stale EXCEPT ![s] = None]
  /\ staleTimers' = staleTimers + 1
  /\ UNCHANGED <<devices, failures, pollVars, selection, rolling, load>>

\* allSettled never rejects: an aborted load is one of which at least a request
\* failed, and nothing asks whether it was aborted.
StaleLoaded(s, failed) ==
  /\ stale[s] # None /\ staleTimers < MaxStale
  /\ failed # {}
  /\ Shows(stale[s], failed)
  /\ historyError' = TRUE
  /\ stale' = [stale EXCEPT ![s] = None]
  /\ staleTimers' = staleTimers + 1
  /\ UNCHANGED <<devices, failures, pollVars, selection, rolling, load, historyLoading>>

\* setHistoryRetry, from this run's timer or an aborted load's.
Retry ==
  /\ \/ load = "retry" /\ UNCHANGED staleTimers
     \/ staleTimers > 0 /\ staleTimers' = staleTimers - 1
  /\ Reload(selection)
  /\ UNCHANGED <<devices, failures, pollVars, rolling, history, historyError>>

-----------------------------------------------------------------------------
(* The list of devices, which starts both. *)

Listed ==
  /\ devices = "loading"
  /\ devices' = "listed"
  /\ Refresh(~hidden, polls, controller)
  /\ Reload(selection)
  /\ UNCHANGED <<failures, hidden, timer, currentError, rolling, staleTimers, history,
                 historyError>>

ListFails ==
  /\ devices = "loading" /\ Failing
  /\ devices' = "retry"
  /\ UNCHANGED <<pollVars, historyVars>>

ListAgain ==
  /\ devices = "retry"
  /\ devices' = "loading"
  /\ UNCHANGED <<failures, pollVars, historyVars>>

Settles(p) == Answered(p) \/ Fails(p)

Next ==
  \/ Listed \/ ListFails \/ ListAgain
  \/ TimerFires \/ Hide \/ Show
  \/ \E p \in Poll : TimesOut(p) \/ Settles(p) \/ EndsQuietly(p)
  \/ \E mode \in BOOLEAN : Select(mode)
  \/ Roll \/ Retry
  \/ \E failed \in SUBSET Panels :
       Loaded(failed) \/ \E s \in Slot : StaleLoaded(s, failed)

Spec == Init /\ [][Next]_vars

\* The load under way ends: it is answered, or fails, or is aborted by the next one.
LoadEnds ==
  /\ load = "waiting"
  /\ \/ \E failed \in SUBSET Panels : Loaded(failed)
     \/ \E mode \in BOOLEAN : Select(mode)
     \/ Roll \/ Retry

\* Timers fire and calls end.  Each load ends too, but nothing says that one is
\* ever answered before the next aborts it.
FairSpec ==
  /\ Spec
  /\ WF_vars(Listed) /\ WF_vars(ListAgain)
  /\ WF_vars(TimerFires) /\ \A p \in Poll : WF_vars(Settles(p))
  /\ WF_vars(Retry) /\ WF_vars(LoadEnds)
-----------------------------------------------------------------------------
(* Properties. *)

\* The effects' variables, and no timer while the page is hidden.
TypeOK ==
  /\ devices \in {"loading", "retry", "listed"} /\ failures \in 0..MaxFailures
  /\ hidden \in BOOLEAN /\ timer \in BOOLEAN /\ currentError \in BOOLEAN
  /\ polls \in [Poll -> {"free", "waiting", "aborted", "timedOut"}]
  /\ controller \in Poll \cup {None}
  /\ timer => ~hidden
  /\ selection \in Selections /\ rolling \in BOOLEAN
  /\ load \in {"none", "waiting", "retry", "done"}
  /\ stale \in [Slot -> Selections \cup {None}] /\ staleTimers \in 0..MaxStale
  /\ history \in [Panels -> Selections \cup {Empty}] \cup {Null}
  /\ historyLoading \in BOOLEAN /\ historyError \in BOOLEAN

\* However polls, timeouts and visibility changes overlap, at most one call waits
\* for an answer that will be shown, and none while the page is hidden: the
\* readouts never go back to an older answer.
OnePoll ==
  \A p \in Poll : polls[p] = "waiting" => p = controller /\ ~hidden

\* And on a visible page there is always a call or a timer for the next one.
PollingGoesOn == devices = "listed" /\ ~hidden => timer \/ controller # None

\* "Retrying automatically.": the banner about the history says so only while
\* that is true.
RetriedWhileInError ==
  historyError => load \in {"waiting", "retry"} \/ staleTimers > 0

\* The panels are marked as loading exactly while this run's load is under way,
\* whatever loads of earlier runs come to.
LoadingHonest == historyLoading <=> load = "waiting"

\* An aborted load may write the panels of an earlier selection, with its error, at
\* any time, also after this run's load has succeeded; but nothing of it stays: as
\* long as a panel shows anything but what is selected, another load is to come.
SettledShowsSelection ==
  load = "done" /\ staleTimers = 0 =>
    history = [p \in Panels |-> selection] /\ ~historyError

\* From some point on, no retry aborts a load under way: the loads are shorter than
\* the time between the timers that earlier aborted loads have armed.
LoadsInTime == <>[][Retry => load # "waiting"]_vars

\* If retries stop aborting each other, every panel comes to show what is selected,
\* and goes on showing it, though an aborted load may show what was selected before,
\* and its error.  Without that premise it is false: nothing clears the timer of an
\* aborted load, and slow loads can abort each other for ever.
HistorySettles ==
  LoadsInTime => <>[](/\ history = [p \in Panels |-> selection]
                      /\ ~historyLoading /\ ~historyError)
=============================================================================
