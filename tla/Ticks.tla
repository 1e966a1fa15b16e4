--------------------------------- MODULE Ticks ---------------------------------
(***************************************************************************)
(* Time for the components that wait: no clock that grows for ever, but    *)
(* the age of something that happened, up to the age at which nothing      *)
(* compares it any more, and the time left until something is due.         *)
(***************************************************************************)
EXTENDS Naturals

Older(age, n, limit) == IF age + n < limit THEN age + n ELSE limit
Left(rest, n) == IF n < rest THEN rest - n ELSE 0
Larger(a, b) == IF a < b THEN b ELSE a
=============================================================================
