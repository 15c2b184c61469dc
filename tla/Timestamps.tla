----------------------------- MODULE Timestamps -----------------------------
(***************************************************************************)
(* Time as the modules of this project see it.  A stored timestamp is      *)
(* represented by its AGE, the number of clock units since it was taken:   *)
(* "now" is 0, time passing adds one to every stored timestamp, and every  *)
(* comparison the code makes between a timestamp and "now minus a          *)
(* duration" is a comparison of the age with that duration.  Ages stop     *)
(* growing at MaxAge, so that a process that runs for ever has finitely    *)
(* many states.  A missing timestamp (SQL NULL, a nil *time.Time, Go's     *)
(* zero time, a missing map key) is older than every real one.             *)
(***************************************************************************)
EXTENDS Integers

CONSTANT MaxAge   \* the age at which timestamps stop ageing

ASSUME MaxAgeAssumption == MaxAge \in Nat \ {0}

Never == MaxAge + 1     \* the missing timestamp

Ages == 0 .. MaxAge     \* ages of real timestamps

Stamps == 0 .. Never    \* ages of timestamps that may be missing

\* The age of a timestamp one clock unit later.
Older(a) == IF a >= MaxAge THEN a ELSE a + 1
=============================================================================
