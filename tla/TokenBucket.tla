---------------------------- MODULE TokenBucket ----------------------------
(***************************************************************************)
(* What a dual token bucket promises: both buckets gain their tokens at    *)
(* every multiple of their period and never hold more than their size; a   *)
(* packet is GREEN when both can pay for it, YELLOW when only the peak     *)
(* bucket can, and it never leaves better than it came.                    *)
(***************************************************************************)
EXTENDS Integers, FiniteSetsExt

CONSTANTS Lens,      \* the lengths a packet may have
          MaxTime

VARIABLES config,    \* what the control plane has set the meter to
          last,      \* when the latest packet came
          peak, committed,
          sent       \* what has been let through, by colour

vars == <<config, last, peak, committed, sent>>

Colors == {"RED", "YELLOW", "GREEN"}

\* What a bucket that held `tokens` at `from` holds at `to`, tick by tick.
Refilled(tokens, size, unit, period, from, to) ==
  LET Level[t \in from..to] ==
        IF t = from THEN tokens
        ELSE IF period # 0 /\ t % period = 0
             THEN Min({size, Level[t - 1] + unit})
             ELSE Level[t - 1]
  IN  Level[to]

Init ==
  /\ last = 0
  /\ peak = config.pbs
  /\ committed = config.cbs
  /\ sent = [c \in {"YELLOW", "GREEN"} |-> 0]

\* A colour-blind meter treats every packet as one that came GREEN.
Packet(t, len, color) ==
  LET p == Refilled(peak, config.pbs, config.pir_unit_per_period,
                    config.pir_period, last, t)
      c == Refilled(committed, config.cbs, config.cir_unit_per_period,
                    config.cir_period, last, t)
      passes == color # "RED" /\ len <= p
      green == passes /\ color = "GREEN" /\ len <= c
  IN  /\ UNCHANGED config
      /\ last' = t
      /\ peak' = IF passes THEN p - len ELSE p
      /\ committed' = IF green THEN c - len ELSE c
      /\ sent' = [k \in {"YELLOW", "GREEN"} |->
                    IF passes /\ (k = "GREEN" <=> green)
                      THEN sent[k] + len ELSE sent[k]]

Next ==
  \E t \in last..MaxTime, len \in Lens, color \in Colors : Packet(t, len, color)

Spec == Init /\ [][Next]_vars
=============================================================================
