-------------------------------- MODULE Tabs --------------------------------
(***************************************************************************)
(* The tabs beside the page of a run: clickSameTab, enforceSingleTab,      *)
(* attachGhostTabKiller and sweepGhostTabs of PlaywrightHarness.  The      *)
(* script that turns new windows into navigations does not catch them all, *)
(* so a click may open tabs, at once or later, and they are closed by a    *)
(* handler of the click, by rounds of closing, by a listener of the        *)
(* context and after each action.  The page itself stays open here; module *)
(* Harness has the loss of it.                                             *)
(***************************************************************************)
EXTENDS Naturals, FiniteSets

CONSTANTS
  Popups,     \* tabs the application may open
  MaxRounds   \* rounds of enforceSingleTab (6 in the code)

ASSUME TabsAssumption == MaxRounds \in Nat \ {0}

VARIABLES
  enforced,   \* config.runtime.enforceSingleTab
  phase,      \* where the action is
  tabs,       \* tabs that are open
  opened,     \* tabs that were ever opened
  closing,    \* tabs whose close() was called and not awaited
  extras,     \* tabs a round or the sweep is about to close
  rounds,
  succeeded,  \* the last click did not throw
  early       \* history: tabs opened before the click stopped listening

tabsVars == <<enforced, phase, tabs, opened, closing, extras, rounds, succeeded, early>>

Listening == phase \in {"clicking", "waiting"}

TabsInit ==
  /\ enforced \in BOOLEAN
  /\ phase = "idle" /\ tabs = {} /\ opened = {} /\ closing = {} /\ extras = {}
  /\ rounds = 0 /\ succeeded = TRUE /\ early = {}

\* The listeners of the context: the one of the click and the ghost tab killer.
Popup(t) ==
  /\ t \in Popups \ opened
  /\ opened' = opened \cup {t}
  /\ tabs' = tabs \cup {t}
  /\ closing' = IF Listening \/ enforced THEN closing \cup {t} ELSE closing
  /\ early' = IF Listening THEN early \cup {t} ELSE early
  /\ UNCHANGED <<enforced, phase, extras, rounds, succeeded>>

Dies(t) ==
  /\ t \in closing
  /\ closing' = closing \ {t}
  /\ tabs' = tabs \ {t}
  /\ UNCHANGED <<enforced, phase, opened, extras, rounds, succeeded, early>>

Click ==
  /\ phase = "idle"
  /\ phase' = "clicking"
  /\ rounds' = 0
  /\ UNCHANGED <<enforced, tabs, opened, closing, extras, succeeded, early>>

Clicked ==
  /\ phase = "clicking"
  /\ phase' = "waiting"
  /\ succeeded' = TRUE
  /\ UNCHANGED <<enforced, tabs, opened, closing, extras, rounds, early>>

\* Where an action goes on to its finally block.
Finally == IF enforced THEN "sweeping" ELSE "idle"

\* Mutant of ClickThrows: the sweep is not in a finally block.
ClickThrowsOut ==
  /\ phase = "clicking"
  /\ phase' = "idle"
  /\ succeeded' = FALSE
  /\ UNCHANGED <<enforced, tabs, opened, closing, extras, rounds, early>>

\* An error of the click skips the rounds of closing.
ClickThrows ==
  /\ phase = "clicking"
  /\ phase' = Finally
  /\ succeeded' = FALSE
  /\ UNCHANGED <<enforced, tabs, opened, closing, extras, rounds, early>>

\* The race of the handler with 150 ms.
Waited ==
  /\ phase = "waiting"
  /\ phase' = "enforcing"
  /\ UNCHANGED <<enforced, tabs, opened, closing, extras, rounds, succeeded, early>>

\* closeExtraPages and sweepGhostTabs look first and close then.
Look ==
  /\ phase \in {"enforcing", "sweeping"}
  /\ extras' = tabs
  /\ phase' = IF phase = "enforcing" THEN "closingExtras" ELSE "swept"
  /\ UNCHANGED <<enforced, tabs, opened, closing, rounds, succeeded, early>>

CloseExtras ==
  /\ phase \in {"closingExtras", "swept"}
  /\ tabs' = tabs \ extras
  /\ closing' = closing \ extras
  /\ extras' = {}
  /\ IF phase = "swept"
     THEN phase' = "idle" /\ UNCHANGED rounds
     ELSE /\ rounds' = rounds + 1
          /\ phase' = IF tabs' # {} /\ rounds' < MaxRounds THEN "enforcing" ELSE Finally
  /\ UNCHANGED <<enforced, opened, succeeded, early>>

TabsNext ==
  \/ \E t \in Popups : Popup(t) \/ Dies(t)
  \/ Click \/ Clicked \/ ClickThrows \/ Waited \/ Look \/ CloseExtras

TabsSpec == TabsInit /\ [][TabsNext]_tabsVars

---------------------------------------------------------------------------
\* Each tab that opened while a click was under way is gone when the action
\* has ended: by its handler, a round or the sweep, and when the click threw
\* by the sweep alone, without which such tabs stay (PlaywrightHarness.execute).
ClickLeavesNoTab == phase = "idle" /\ (succeeded \/ enforced) => tabs \cap early = {}

=============================================================================
