------------------------------ MODULE Events ------------------------------
(* The events of sim/eventq.hh and the order in which they are serviced.   *)
EXTENDS Integers, Sequences

CONSTANTS Event,      \* storage for Event objects
          Priority,   \* Event::_priority, fixed when an event is constructed
          MaxTick     \* bound on the ticks events are scheduled at

ASSUME PriorityAssumption == Priority \in [Event -> Int]
ASSUME MaxTickAssumption == MaxTick \in Nat

Tick == 0..MaxTick

(* operator<(Event, Event) for the time stamps w *)
Less(w, e, f) ==
    \/ w[e] < w[f]
    \/ w[e] = w[f] /\ Priority[e] < Priority[f]
===========================================================================
