-------------------------------- MODULE Millis --------------------------------
(***************************************************************************)
(* The millisecond counter the drivers' timers read (Arduino's millis(), a *)
(* uint32_t that wraps) and the unsigned subtraction they measure time     *)
(* with.  ClockSize is 2^32 in the program.                                *)
(***************************************************************************)
EXTENDS Naturals

CONSTANT ClockSize

ASSUME ClockSizeAssumption == ClockSize \in Nat \ {0}

Time == 0 .. ClockSize - 1

\* Mutant: a counter wider than the subtraction.
LaterUnwrapped(now) == now + 1

\* One step of the counter, which wraps to 0.
Later(now) == IF now + 1 = ClockSize THEN 0 ELSE now + 1

\* Mutant: the subtraction does not wrap.
ElapsedUnwrapped(now, since) == IF now >= since THEN now - since ELSE 0

\* millis() - since, in unsigned arithmetic.
Elapsed(now, since) ==
  IF now >= since THEN now - since ELSE (ClockSize - since) + now
===============================================================================
