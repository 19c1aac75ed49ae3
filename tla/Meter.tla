------------------------------- MODULE Meter -------------------------------
(***************************************************************************)
(* The meter of the PSA back end for eBPF, as the code it emits runs: a    *)
(* CPU takes the time when it starts on a packet, and later, under the     *)
(* spin lock of the entry, the packet is charged to the two buckets of the *)
(* meter and gets its colour.  All fields are unsigned and W bits wide.    *)
(***************************************************************************)
EXTENDS Integers, FiniteSetsExt

CONSTANTS Cpu,       \* each works on one packet at a time
          W,         \* bits of a field
          MaxTime,   \* bound on the clock
          Sizes,     \* packet lengths
          Configs    \* the meters: "PACKETS" or "BYTES", the colours execute is
                     \* called with, and the entry as the control plane wrote it

ASSUME ConfigAssumption ==
  /\ W \in Nat /\ 2^W \in Nat \ {0} /\ MaxTime \in 0..(2^W - 1)
  /\ Sizes \subseteq Nat \ {0}
  /\ Configs \subseteq
       [type : {"PACKETS", "BYTES"}, colors : SUBSET {"RED", "YELLOW", "GREEN", "BLIND"},
        pir_period : 0..(2^W - 1), pir_unit_per_period : 0..(2^W - 1), pbs : 0..(2^W - 1),
        cir_period : 0..(2^W - 1), cir_unit_per_period : 0..(2^W - 1), cbs : 0..(2^W - 1)]

VARIABLES config,    \* the meter at hand
          now,       \* bpf_ktime_get_ns()
          packet,    \* what each CPU works on
          value,     \* the fields of the entry that packets change
          last,      \* timestamp of the packet charged last
          sent,      \* what the entry has let through, by colour, while ordered
          ordered    \* history: packets were charged in the order of their times

vars == <<config, now, packet, value, last, sent, ordered>>

Idle == [state |-> "idle"]
Colors == {"RED", "YELLOW", "GREEN"}
u(n) == n % 2^W

\* Division by zero gives zero on eBPF.
Div(a, b) == IF b = 0 THEN 0 ELSE a \div b

\* What the wrappers pass as the length.
Length(len) == IF config.type = "PACKETS" THEN 1 ELSE len

Init ==
  /\ config \in Configs
  /\ now = 0
  /\ packet = [c \in Cpu |-> Idle]
  /\ value = [pbs_left |-> config.pbs, cbs_left |-> config.cbs,
              time_p |-> 0, time_c |-> 0]
  /\ last = 0
  /\ sent = [c \in {"YELLOW", "GREEN"} |-> 0]
  /\ ordered = TRUE

Tick ==
  /\ now < MaxTime
  /\ now' = now + 1
  /\ UNCHANGED <<config, packet, value, last, sent, ordered>>

\* A pipeline starts: length and timestamp are taken.  `color` is the second
\* argument of execute, or "BLIND" when there is none.
Arrive(c, len, color) ==
  /\ packet[c] = Idle
  /\ packet' = [packet EXCEPT ![c] =
                  [state |-> "running", len |-> Length(len), color |-> color,
                   time |-> now]]
  /\ UNCHANGED <<config, now, value, last, sent, ordered>>

Periods(time, from, period) == Div(u(time - from), period)

\* The tokens of a bucket after n periods.
Tokens(left, n, unit, size) ==
  LET t == u(left + u(n * unit)) IN IF t > size THEN size ELSE t

Mark(color, len, tokens_pbs, tokens_cbs) ==
  IF color = "RED" \/ len > tokens_pbs THEN "RED"
  ELSE IF color = "YELLOW" \/ len > tokens_cbs THEN "YELLOW"
  ELSE "GREEN"

\* Mutant: the periods stay to be counted again.
NotAdvanced(from, n, period, time) == from
\* Mutant: the part of a period that is not over is lost.
AdvancedToPacket(from, n, period, time) == time

\* The start of the current period, from which the next packet counts.
Advanced(from, n, period, time) == u(from + u(n * period))

\* The colour of a packet of length len and time t, and the entry after it.
Charge(v, len, color, t) ==
  LET n_p == Periods(t, v.time_p, config.pir_period)
      n_c == Periods(t, v.time_c, config.cir_period)
      tokens_pbs == Tokens(v.pbs_left, n_p, config.pir_unit_per_period, config.pbs)
      tokens_cbs == Tokens(v.cbs_left, n_c, config.cir_unit_per_period, config.cbs)
      m == Mark(color, len, tokens_pbs, tokens_cbs)
  IN  [mark |-> m,
       value |-> [pbs_left |-> IF m = "RED" THEN tokens_pbs ELSE tokens_pbs - len,
                  cbs_left |-> IF m = "GREEN" THEN tokens_cbs - len ELSE tokens_cbs,
                  time_p |-> Advanced(v.time_p, n_p, config.pir_period, t),
                  time_c |-> Advanced(v.time_c, n_c, config.cir_period, t)]]

\* meter_execute and meter_execute_color_aware, under the lock.
Execute(c) ==
  LET p == packet[c]
      r == Charge(value, p.len, p.color, p.time)
  IN  /\ p # Idle
      /\ config.pir_period # 0
      /\ value' = r.value
      /\ last' = p.time
      /\ ordered' = (ordered /\ last <= p.time)
      /\ sent' = IF r.mark = "RED" \/ ~ ordered' THEN sent
                 ELSE [sent EXCEPT ![r.mark] = @ + p.len]
      /\ packet' = [packet EXCEPT ![c] = Idle]
      /\ UNCHANGED <<config, now>>

\* No entry for the packet's index, or one without a peak rate: GREEN, and
\* nothing is charged.
ExecuteDefault(c) ==
  /\ packet[c] # Idle
  /\ packet' = [packet EXCEPT ![c] = Idle]
  /\ UNCHANGED <<config, now, value, last, sent, ordered>>

Next ==
  \/ Tick
  \/ \E c \in Cpu :
       \/ \E len \in Sizes, color \in config.colors : Arrive(c, len, color)
       \/ Execute(c)
       \/ ExecuteDefault(c)

Spec == Init /\ [][Next]_vars

-----------------------------------------------------------------------------
\* The fields keep their width and a bucket never holds more than its size.
TypeOK ==
  /\ config \in Configs
  /\ now \in 0..MaxTime
  /\ packet \in [Cpu -> {Idle} \cup
       [state : {"running"}, len : {Length(n) : n \in Sizes},
        color : config.colors, time : 0..now]]
  /\ value \in [pbs_left : 0..config.pbs, cbs_left : 0..config.cbs,
                time_p : 0..(2^W - 1), time_c : 0..(2^W - 1)]
  /\ last \in 0..now
  /\ sent \in [{"YELLOW", "GREEN"} -> Nat]
  /\ ordered \in BOOLEAN

(***************************************************************************)
(* Traffic marked GREEN never exceeds the committed burst and rate up to   *)
(* now, and traffic let through at all never exceeds the peak burst and    *)
(* rate: what is above the average rate is marked (meter_execute).  This   *)
(* holds while the CPUs get the lock in the order of their timestamps; a   *)
(* packet charged after a later one makes the difference to time_p wrap,   *)
(* which fills the buckets, and turns time_p back.                         *)
(***************************************************************************)
RateKept ==
  ordered =>
    /\ sent.GREEN <= config.cbs
                     + Div(now, config.cir_period) * config.cir_unit_per_period
    /\ sent.GREEN + sent.YELLOW
         <= config.pbs + Div(now, config.pir_period) * config.pir_unit_per_period

(***************************************************************************)
(* No bucket overflows its size or its W bits, whatever order the CPUs get *)
(* the lock in, and while that is the order of the timestamps the rates    *)
(* are kept (meter_execute).                                               *)
(***************************************************************************)
MeterRates == TypeOK /\ RateKept

(***************************************************************************)
(* What meter_execute does with lazily counted periods and W-bit           *)
(* arithmetic is what two buckets do that are refilled at every period,    *)
(* as long as packets are charged in the order of their timestamps.        *)
(***************************************************************************)
Bucket == INSTANCE TokenBucket WITH
            Lens <- Sizes \cup {1},
            peak <- value.pbs_left, committed <- value.cbs_left
IsTokenBucket == Bucket!Init /\ [][ordered' => Bucket!Next]_<<Bucket!vars>>
=============================================================================
