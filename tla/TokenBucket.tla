---------------------------- MODULE TokenBucket -----------------------------
(***************************************************************************)
(* A token bucket of a VRCStreamer publisher (TokenBucket of limits.rs):   *)
(* its units are refilled when it is asked, at the rate of the selected    *)
(* video quality, which may have changed since it was asked last.          *)
(*                                                                         *)
(* A second is a tick and the code's f64 exact. Rates and bursts are not   *)
(* zero, with which the code refuses everything.                           *)
(***************************************************************************)
EXTENDS Naturals

CONSTANTS
  Rates, Low, High,     \* units a second of the qualities, least and greatest
  Burst,                \* burst_seconds
  Sizes,                \* units asked for at a time
  MaxTime               \* bound of the model

(* What the theorems assume of the constants.                              *)
Configured ==
  /\ Rates \subseteq Nat \ {0} /\ {Low, High} \subseteq Rates
  /\ \A r \in Rates : Low <= r /\ r <= High
  /\ Burst \in Nat \ {0} /\ Sizes \subseteq Nat \ {0} /\ MaxTime \in Nat

VARIABLES
  now, rate,            \* the time, the rate of the selected quality
  available, updated, initialized,
  windows,              \* history: per time of a call, the units granted since
  refused               \* history: the units the last call asked for in vain

vars == <<now, rate, available, updated, initialized, windows, refused>>

Init ==
  /\ now = 0 /\ rate \in Rates
  /\ available = 0 /\ updated = 0 /\ initialized = FALSE
  /\ windows = {} /\ refused = 0

Tick ==
  /\ now < MaxTime
  /\ now' = now + 1
  /\ UNCHANGED <<rate, available, updated, initialized, windows, refused>>

SelectQuality(r) ==
  /\ rate' = r
  /\ UNCHANGED <<now, available, updated, initialized, windows, refused>>

Least(a, b) == IF a <= b THEN a ELSE b

Refilled ==
  IF initialized THEN Least(available + (now - updated) * rate, rate * Burst)
  ELSE rate * Burst

(* The first call of an instant opens a window, which later ones are in.   *)
Grown(granted) == {[w EXCEPT !.granted = @ + granted] : w \in windows}

Asked(granted) ==
  windows' = IF \E w \in windows : w.from = now THEN Grown(granted)
             ELSE Grown(granted) \cup {[from |-> now, granted |-> granted]}

Affordable(units) == units <= Refilled

(* allow_at                                                                *)
Allow(units) ==
  /\ updated' = now /\ initialized' = TRUE
  /\ IF Affordable(units)
       THEN available' = Refilled - units /\ Asked(units) /\ refused' = 0
       ELSE available' = Refilled /\ Asked(0) /\ refused' = units
  /\ UNCHANGED <<now, rate>>

Next ==
  \/ Tick
  \/ \E r \in Rates : SelectQuality(r)
  \/ \E units \in Sizes : Allow(units)

Spec == Init /\ [][Next]_vars
-----------------------------------------------------------------------------
TypeOK ==
  /\ now \in Nat /\ rate \in Rates
  /\ available \in Nat /\ updated \in Nat /\ updated <= now
  /\ initialized \in BOOLEAN
  /\ windows \subseteq [from : Nat, granted : Nat]
  /\ \A w \in windows : w.from <= updated
  /\ refused \in Nat

(* However the quality is switched, no stretch of time is granted more     *)
(* than the greatest burst and the greatest rate times its length.         *)
NeverOverRate ==
  \A w \in windows : w.granted <= High * Burst + High * (now - w.from)

(* A publisher within the least burst and the least rate of the qualities  *)
(* over every stretch of time is never refused, whatever it selects.       *)
PacedIsServed ==
  refused > 0 =>
    \E w \in windows : w.granted + refused > Low * Burst + Low * (updated - w.from)
=============================================================================
