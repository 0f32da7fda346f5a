------------------------- MODULE PerformanceWarning -------------------------
(***************************************************************************)
(* Warnings that are shown once, and the objects that disable them while   *)
(* they live (src/lib/utils/performance_warning.hpp).  The flag belongs to *)
(* the process and is read and written without a lock.  saved has, for     *)
(* each thread, what its disablers found, the innermost one last.          *)
(***************************************************************************)
EXTENDS Naturals, Sequences, SequencesExt

CONSTANT Threads

VARIABLES
    disabled,       \* the flag
    warning,        \* the static object of the warning: not constructed, or it was "shown" or "lost"
    saved,          \* thread |-> the _previously_disabled of its disablers
    disabling,      \* threads that have read the flag and not yet set it
    overlapped      \* history: disablers of two threads have been alive at the same time

warningVars == <<disabled, warning, saved, disabling, overlapped>>

InitWarning ==
    /\ disabled = FALSE /\ warning = "none" /\ saved = [t \in Threads |-> <<>>]
    /\ disabling = {} /\ overlapped = FALSE

HasDisabler(thread) == saved[thread] # <<>>

\* disable(): the flag is read ...
BeginDisable(thread) ==
    /\ saved' = [saved EXCEPT ![thread] = Append(@, disabled)]
    /\ disabling' = disabling \cup {thread}
    /\ overlapped' = (overlapped \/ \E other \in Threads \ {thread} : HasDisabler(other))
    /\ UNCHANGED <<disabled, warning>>

\* ... and set.
EndDisable(thread) ==
    /\ thread \in disabling
    /\ disabled' = TRUE
    /\ disabling' = disabling \ {thread}
    /\ UNCHANGED <<warning, saved, overlapped>>

\* Variant: the warnings are enabled whatever they were before.
Mutant_Restore(thread) == disabled' = FALSE

\* Warnings that were already disabled stay so.
Restore(thread) == disabled' = (disabled /\ Last(saved[thread]))

\* ~PerformanceWarningDisabler
Destroy(thread) ==
    /\ HasDisabler(thread) /\ thread \notin disabling
    /\ Restore(thread)
    /\ saved' = [saved EXCEPT ![thread] = Front(@)]
    /\ UNCHANGED <<warning, disabling, overlapped>>

\* Variant: the flag is not asked.
Mutant_Warn ==
    /\ warning' = IF warning # "none" THEN warning ELSE "shown"
    /\ UNCHANGED <<disabled, saved, disabling, overlapped>>

\* PerformanceWarning: the static object is constructed the first time only, and prints
\* unless warnings are disabled at that moment.
Warn ==
    /\ warning' = IF warning # "none" THEN warning ELSE IF disabled THEN "lost" ELSE "shown"
    /\ UNCHANGED <<disabled, saved, disabling, overlapped>>

(***************************************************************************)
(* Properties                                                              *)
(***************************************************************************)
\* The disablers of a thread without the one that is being constructed.
Complete(thread) == IF thread \in disabling THEN Front(saved[thread]) ELSE saved[thread]

\* As long as no two threads had disablers at the same time, warnings are off while a thread
\* has one, also after an inner one is gone ("this does not cause a warning"), and on when
\* none is left ("warnings are enabled again").
DisablerWorksAlone ==
    ~overlapped => (disabled <=> \E t \in Threads : Complete(t) # <<>>)

\* "warnings are enabled again": when no disabler is left, the flag is clear.
WarningsEnabledAgain == (\A t \in Threads : ~HasDisabler(t)) => ~disabled
=============================================================================
