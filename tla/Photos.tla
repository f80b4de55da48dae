------------------------------- MODULE Photos -------------------------------
(***************************************************************************)
(* The photographs of paper plans that an account has converted in a day   *)
(* (apps/planner/views.py, photo_conversion.py).  The limit is looked at   *)
(* before a call of many seconds to the service that reads them, and the   *)
(* row that counts is written after it.                                    *)
(***************************************************************************)
EXTENDS Integers, FiniteSets

CONSTANTS
    Asker,      \* conversions that may be under way at once
    Limit       \* PHOTO_PLAN_DAILY_LIMIT

ASSUME PhotosAssumption == IsFiniteSet(Asker) /\ Asker # {} /\ Limit \in Nat

VARIABLES
    taken,      \* conversions of the day, committed
    reading     \* those being read

photoVars == <<taken, reading>>

PhotosOK == taken \in Nat /\ reading \subseteq Asker

PhotosInit == taken = 0 /\ reading = {}

LeftOrLast == taken <= Limit
\* conversions_today, in photo_conversions: with the limit reached, 429.
LeftToday == taken < Limit
StartReading(r) ==
    /\ r \notin reading /\ LeftToday
    /\ reading' = reading \cup {r}
    /\ UNCHANGED taken

\* convert_photo: without legible measures it asks for them, and if the service
\* fails it answers 503.  Neither counts.
EndUncounted(r) ==
    /\ r \in reading
    /\ reading' = reading \ {r}
    /\ UNCHANGED taken

\* The reading counts, whether it was a plan or not.
EndCounted(r) ==
    /\ r \in reading
    /\ reading' = reading \ {r}
    /\ taken' = taken + 1

\* business_day_start: midnight in Mexico; what is being read counts afterwards.
NewDay ==
    /\ taken # 0
    /\ taken' = 0
    /\ UNCHANGED reading

PhotosNext ==
    \/ \E r \in Asker : StartReading(r) \/ EndUncounted(r) \/ EndCounted(r)
    \/ NewDay

PhotosSpec == PhotosInit /\ [][PhotosNext]_photoVars

-----------------------------------------------------------------------------
\* The limit may be passed, by those that were being read when the last was
\* allowed and by no more, whenever each of them ends.
LimitNearlyKept == taken + Cardinality(reading) <= Limit + Cardinality(Asker) - 1
=============================================================================
