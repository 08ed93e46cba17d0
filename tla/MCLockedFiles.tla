---------------------------- MODULE MCLockedFiles ----------------------------
(***************************************************************************)
(* PIDLock, ClaudeSettings and Preferences for TLC.  The three share no    *)
(* state: the settings and the preferences have locks of their own, each   *)
(* taken by the steps of SlotLock, which PIDLock is checked to implement.  *)
(* So no behaviour of one depends on another, and they are checked one at  *)
(* a time: machine says which of them takes its steps.                     *)
(***************************************************************************)
EXTENDS PIDLock, ClaudeSettings, Preferences, TLC

VARIABLE machine

lockedVars == <<machine, vars, mutateVars, overlayVars>>

LockedInit ==
    /\ machine \in {"lock", "settings", "preferences"}
    /\ Init
    /\ machine # "lock" => lock = {}
    /\ MutateInit
    /\ OverlayInit

LockedNext ==
    /\ UNCHANGED machine
    /\ \/ /\ machine = "lock"
          /\ Next
          /\ UNCHANGED <<mutateVars, overlayVars>>
       \/ /\ machine = "settings"
          /\ MutateNext
          /\ UNCHANGED <<vars, overlayVars>>
       \/ /\ machine = "preferences"
          /\ OverlayNext
          /\ UNCHANGED <<vars, mutateVars>>

LockedSpec ==
    /\ LockedInit
    /\ [][LockedNext]_lockedVars
    /\ machine = "lock" => Fairness

\* Sound for the liveness of the lock too: no pid is exchanged, and while the
\* lock takes steps the preferences stay at their initial state, which every
\* exchange leaves as it is.
LockedSymmetry ==
    Permutations(Procs) \cup Permutations(Targets) \cup Permutations(Contents)
=============================================================================
