-------------------------- MODULE ThreadLifecycle --------------------------
(***************************************************************************)
(* What a thread controller promises its owner, without locks, messages,   *)
(* retries or waits: it owns at most one thread; a thread it begins is the *)
(* only one that runs; it lets go of a thread only after the thread ended; *)
(* and it gives the process up only while it owns a thread.                *)
(***************************************************************************)
CONSTANTS ThreadIds, None

VARIABLES
  owned,  \* the thread the controller owns, or None
  live,   \* the threads that run
  over    \* "no", "destroyed" or "gaveUp"

lifecycleVars == <<owned, live, over>>

LifecycleInit == /\ owned = None
                 /\ live = {}
                 /\ over = "no"

Begin(t) == /\ owned = None
            /\ live = {}
            /\ owned' = t
            /\ live' = {t}
            /\ UNCHANGED over

End(t) == /\ t \in live
          /\ live' = live \ {t}
          /\ UNCHANGED <<owned, over>>

LetGo == /\ owned # None
         /\ owned \notin live
         /\ owned' = None
         /\ UNCHANGED <<live, over>>

Finish == /\ \/ over' = "destroyed" /\ owned = None
             \/ over' = "gaveUp" /\ owned # None
          /\ UNCHANGED <<owned, live>>

LifecycleNext == /\ over = "no"
                 /\ \/ \E t \in ThreadIds : Begin(t) \/ End(t)
                    \/ LetGo
                    \/ Finish

LifecycleSpec == LifecycleInit /\ [][LifecycleNext]_lifecycleVars

=============================================================================
