------------------------------- MODULE TzTime -------------------------------
(***************************************************************************)
(* The clock of the runtime, os_time_get_boot_microsecond                  *)
(* (linux-trustzone/tz_time.c), as the runtime uses it: the difference of  *)
(* two readings is the time a piece of code took.                          *)
(*                                                                         *)
(* TEE_Time holds 32-bit seconds and milliseconds, the conversions compute *)
(* in 32 bits, and only the result is widened to 64 bits.                  *)
(***************************************************************************)
EXTENDS Integers

CONSTANTS
    TimeWord,         \* 2^32
    Kilo,         \* 1000
    MaxMillis     \* bound on the time that passes in a run

ASSUME TimeAssumption ==
    /\ TimeWord \in Nat \ {0}
    /\ Kilo \in Nat \ {0}
    /\ MaxMillis \in Nat

VARIABLES
    now,        \* the time of the normal world, in milliseconds
    began,      \* when the measured code started; -1 before
    start,      \* what the clock read then
    measured    \* the difference of the two readings

timeVars == <<now, began, start, measured>>

(* Mutant: the milliseconds of TEE_Time are left out.                      *)
tee_time_to_ms_seconds(seconds, millis) == (seconds * Kilo) % TimeWord

tee_time_to_ms(seconds, millis) == (seconds * Kilo + millis) % TimeWord

os_time_get_boot_microsecond ==
    (tee_time_to_ms(now \div Kilo, now % Kilo) * Kilo) % TimeWord

TimeInit == now \in 0..MaxMillis /\ began = -1 /\ start = 0 /\ measured = 0

TimePasses ==
    /\ now < MaxMillis /\ now' = now + 1
    /\ UNCHANGED <<began, start, measured>>

(* The second reading is subtracted from the first in 64 bits; a negative  *)
(* number stands for the huge one that comes out.                          *)
StartMeasure ==
    /\ began = -1 /\ began' = now
    /\ start' = os_time_get_boot_microsecond
    /\ UNCHANGED <<now, measured>>

EndMeasure ==
    /\ began # -1
    /\ measured' = os_time_get_boot_microsecond - start
    /\ UNCHANGED <<now, began, start>>

TimeNext == TimePasses \/ StartMeasure \/ EndMeasure

TimeSpec == TimeInit /\ [][TimeNext]_timeVars

(* A measurement that begins and ends in the same 2^32 microseconds is     *)
(* exact, wherever in the epoch the clock stands.                          *)
ExactWithinOneWrap ==
    [][EndMeasure /\ (began * Kilo) \div TimeWord = (now * Kilo) \div TimeWord
         => measured' = (now - began) * Kilo]_timeVars
=============================================================================
