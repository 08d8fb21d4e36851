---------------------------- MODULE AmapRateGate ----------------------------
(***************************************************************************)
(* The pace of the calls that leave the process with the shared AMap key   *)
(* (amap_rate_limiter.py): a sliding window with a minimum interval, and   *)
(* the gate in front of place captures that closes for a cooldown when the *)
(* provider says it is called too often.                                   *)
(*                                                                         *)
(* Time is kept relative, in ticks: of a call how long ago it was admitted,*)
(* of a cooldown how long it still lasts.  What is as old as the window    *)
(* does not grow older.                                                    *)
(***************************************************************************)
EXTENDS Naturals, Sequences

CONSTANTS
  MaxCalls, Window, MinInterval, Cooldown,
  Nobody         \* the gate's mutex is free

ASSUME RateConstants ==
  /\ MaxCalls \in Nat \ {0} /\ Window \in Nat \ {0} /\ MinInterval \in Nat
  /\ Cooldown \in Nat \ {0}

VARIABLES
  calls,         \* _calls: ages, oldest first
  gate,          \* holder of the gate's lock
  cooling,       \* what is left of _cooldown_until
  admitted,      \* history: ages of the calls admitted within the window
  refusedAgo     \* history: time since the provider last refused a capture

rateVars == <<calls, gate, cooling, admitted, refusedAgo>>

RateInit ==
  /\ calls = <<>> /\ gate = Nobody /\ cooling = 0
  /\ admitted = <<>> /\ refusedAgo = Cooldown

Capped(n, cap) == IF n < cap THEN n ELSE cap

(* The ages s, oldest first, without those that have reached age w: they   *)
(* are dropped from the front up to the first that has not.                *)
Since(s, w) ==
  LET n == CHOOSE n \in 0..Len(s) : /\ \A i \in 1..n : s[i] >= w
                                    /\ n < Len(s) => s[n + 1] < w
  IN  SubSeq(s, n + 1, Len(s))

(* Slips for the mutation runs. *)
LiveTooShort == Since(calls, Window - 1)

(* acquire drops the calls that have left the window. *)
Live == Since(calls, Window)

(* The loop of acquire comes back until it may append the call; its sleeps *)
(* may be cut short or last longer.                                        *)
AcquireLimiter ==
  /\ Live # <<>> /\ MinInterval > 0 => Live[Len(Live)] >= MinInterval
  /\ Len(Live) < MaxCalls
  /\ calls' = Append(Live, 0)
  /\ admitted' = Append(admitted, 0)
  /\ UNCHANGED <<gate, cooling, refusedAgo>>

TakeGate(c) ==
  /\ gate = Nobody /\ gate' = c
  /\ UNCHANGED <<calls, cooling, admitted, refusedAgo>>

LeaveGate(c) ==
  /\ gate = c /\ gate' = Nobody
  /\ UNCHANGED <<calls, cooling, admitted, refusedAgo>>

(* The answer 10021 comes while the call still holds the gate ... *)
SeeRefusal == refusedAgo' = 0 /\ UNCHANGED <<calls, gate, cooling, admitted>>

(* ... and mark_provider_rate_limited is called before it leaves. *)
MarkRateLimited(c) ==
  /\ gate' = (IF gate = c THEN Nobody ELSE gate)
  /\ cooling' = Cooldown
  /\ UNCHANGED <<calls, admitted, refusedAgo>>

Tick ==
  /\ calls' = [i \in DOMAIN calls |-> Capped(calls[i] + 1, Window)]
  /\ cooling' = IF cooling = 0 THEN 0 ELSE cooling - 1
  /\ admitted' = Since([i \in DOMAIN admitted |-> admitted[i] + 1], Window)
  /\ refusedAgo' = Capped(refusedAgo + 1, Cooldown)
  /\ UNCHANGED gate

----------------------------------------------------------------------------
(* However many callers wait, whenever they wake up and however the window *)
(* and the minimum interval meet: never more than MaxCalls in any window,  *)
(* never two within the minimum interval.                                  *)
Paced ==
  /\ Len(admitted) <= MaxCalls
  /\ \A i \in 1..Len(admitted) - 1 : admitted[i] - admitted[i + 1] >= MinInterval
=============================================================================
