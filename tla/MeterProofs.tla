---------------------------- MODULE MeterProofs ----------------------------
(***************************************************************************)
(* The eBPF meter keeps its rates, for every number of CPUs, every field   *)
(* width, every packet size and every entry the control plane may write.   *)
(***************************************************************************)
EXTENDS Meter, NumberLemmas, TLAPS

-----------------------------------------------------------------------------
(***************************************************************************)
(* The inductive invariant.  A bucket's time is q whole periods, none of   *)
(* them in the future of the packet charged last, and what has gone        *)
(* through and what is left are no more than the bucket's size and what q  *)
(* periods bring.                                                          *)
(***************************************************************************)
Earned(q, gone, left, size, from, to, period, unit) ==
  /\ from = q * period /\ from <= to
  /\ period = 0 => q = 0
  /\ gone + left <= size + q * unit

PeakOK ==
  \E q \in Nat : Earned(q, sent.GREEN + sent.YELLOW, value.pbs_left, config.pbs,
                        value.time_p, last, config.pir_period,
                        config.pir_unit_per_period)
CommittedOK ==
  \E q \in Nat : Earned(q, sent.GREEN, value.cbs_left, config.cbs,
                        value.time_c, last, config.cir_period,
                        config.cir_unit_per_period)

IInv == TypeOK /\ (ordered => PeakOK /\ CommittedOK)

-----------------------------------------------------------------------------
(***************************************************************************)
(* Arithmetic.                                                             *)
(***************************************************************************)

\* W-bit arithmetic, on integers of any size.
LEMMA Unsigned ==
  ASSUME NEW a \in Int
  PROVE  /\ u(a) \in 0..(2^W - 1)
         /\ a \in 0..(2^W - 1) => u(a) = a
         /\ a \in Nat => u(a) <= a
  <1>1. 2^W \in Nat \ {0} BY ConfigAssumption
  <1> DEFINE b == 2^W
  <1>2. b \in Nat \ {0} BY <1>1
  <1>3. u(a) = a % b BY DEF u
  <1> HIDE DEF b
  <1>4. /\ u(a) \in 0..(b - 1)
        /\ a \in 0..(b - 1) => u(a) = a
        /\ a \in Nat => u(a) <= a
    <2>1. /\ a % b \in 0..(b - 1)
          /\ a \in 0..(b - 1) => a % b = a
          /\ a \in Nat => a % b <= a
      BY <1>2, Remainder, Zenon
    <2> QED BY <1>3, <2>1, Zenon
  <1> QED BY <1>4 DEF b

\* The whole periods in a time, and that there are no more of them.
LEMMA WholePeriods ==
  ASSUME NEW a \in Nat, NEW b \in Nat
  PROVE  /\ Div(a, b) \in Nat /\ Div(a, b) * b <= a
         /\ \A q \in Nat : q * b <= a /\ (b = 0 => q = 0) => q <= Div(a, b)
  <1>1. CASE b = 0 BY <1>1 DEF Div
  <1>2. CASE b # 0
    <2>1. Div(a, b) = a \div b /\ b \in Nat \ {0} BY <1>2 DEF Div
    <2>2. PICK d : d = a \div b OBVIOUS
    <2>3. d \in Int /\ a = b * d + (a % b) /\ a % b \in 0..(b - 1)
      BY <2>1, <2>2
    <2>4. d \in Nat
      <3>1. CASE d <= -1
        <4>1. b * d <= -b BY <2>1, <2>3, <3>1
        <4>2. PICK r \in 0..(b - 1), bd \in Int : a = bd + r /\ bd <= -b
          BY <2>3, <4>1
        <4> QED BY <2>1, <4>2
      <3>2. CASE d >= 0 BY <2>3, <3>2
      <3> QED BY <2>3, <3>1, <3>2
    <2>5. d * b <= a
      <3>1. PICK r \in 0..(b - 1), bd \in Int : a = bd + r /\ bd = b * d
        BY <2>3
      <3>2. d * b = b * d BY <2>1, <2>3
      <3> QED BY <3>1, <3>2
    <2>6. ASSUME NEW q \in Nat, q * b <= a PROVE q <= d
      <3> SUFFICES ASSUME q >= d + 1 PROVE FALSE BY <2>3
      <3>1. q * b >= (d + 1) * b BY <2>1, <2>3
      <3>2. (d + 1) * b = b * d + b BY <2>1, <2>3
      <3>3. PICK r \in 0..(b - 1), bd \in Int : a = bd + r /\ bd = b * d
        BY <2>3
      <3>4. PICK qb \in Int : qb = q * b /\ qb <= a /\ qb >= bd + b
        BY <2>6, <3>1, <3>2, <3>3
      <3> QED BY <2>1, <3>3, <3>4
    <2> QED BY <2>1, <2>2, <2>4, <2>5, <2>6
  <1> QED BY <1>1, <1>2

-----------------------------------------------------------------------------
(***************************************************************************)
(* A bucket.                                                               *)
(***************************************************************************)

\* It never holds more than its size, whatever wraps.
LEMMA TokensRange ==
  ASSUME NEW left \in Nat, NEW n \in Nat, NEW unit \in Nat, NEW size \in Nat
  PROVE  /\ Tokens(left, n, unit, size) \in 0..size
         /\ Tokens(left, n, unit, size) <= left + n * unit
  <1>1. n * unit \in Nat OBVIOUS
  <1>2. u(n * unit) \in Nat /\ u(n * unit) <= n * unit
    <2>1. u(n * unit) \in 0..(2^W - 1) /\ u(n * unit) <= n * unit
      BY <1>1, Unsigned
    <2> QED BY <2>1, ConfigAssumption
  <1> DEFINE a == left + u(n * unit)
  <1>3. a \in Nat /\ a <= left + n * unit BY <1>1, <1>2
  <1>4. u(a) \in Nat /\ u(a) <= a
    <2> HIDE DEF a
    <2>1. u(a) \in 0..(2^W - 1) /\ u(a) <= a BY <1>3, Unsigned
    <2> QED BY <2>1, ConfigAssumption
  <1>5. Tokens(left, n, unit, size) = IF u(a) > size THEN size ELSE u(a)
    BY DEF Tokens
  <1> HIDE DEF a
  <1>6. u(a) <= left + n * unit
    <2>1. PICK b \in Nat : b = left + n * unit BY <1>1
    <2> QED BY <1>3, <1>4, <2>1
  <1> QED BY <1>4, <1>5, <1>6

(***************************************************************************)
(* Counting the periods lazily, up to the time t of a packet that is not   *)
(* older than the one before: the bucket's time moves on by whole periods, *)
(* nothing wraps in it, and the tokens gained are those of the periods.    *)
(***************************************************************************)
LEMMA Refill ==
  ASSUME NEW q \in Nat, NEW gone \in Nat, NEW left \in Nat, NEW size \in Nat,
         NEW from \in Nat, NEW to \in Nat, NEW period \in Nat,
         NEW unit \in Nat, NEW t \in 0..(2^W - 1), to <= t,
         Earned(q, gone, left, size, from, to, period, unit),
         NEW n, n = Periods(t, from, period)
  PROVE  /\ n \in Nat
         /\ \E r \in Nat :
              Earned(r, gone, Tokens(left, n, unit, size), size,
                     Advanced(from, n, period, t), t, period, unit)
  <1>1. t \in Nat /\ 2^W \in Nat /\ from <= t /\ t <= 2^W - 1
    BY ConfigAssumption DEF Earned
  <1> DEFINE b == 2^W
  <1>2. b \in Nat /\ t <= b - 1 BY <1>1
  <1> HIDE DEF b
  <1>3. t - from \in Nat /\ t - from \in 0..(b - 1) BY <1>1, <1>2
  <1>4. u(t - from) = t - from BY <1>3, Unsigned DEF b
  <1>5. n = Div(t - from, period) BY <1>4 DEF Periods
  <1>6. n \in Nat /\ n * period <= t - from
    BY <1>3, <1>5, WholePeriods
  <1> DEFINE np == n * period
             qp == q * period
             nu == n * unit
             qu == q * unit
  <1>7. /\ np \in Nat /\ qp \in Nat /\ nu \in Nat /\ qu \in Nat
        /\ (q + n) * period = qp + np /\ (q + n) * unit = qu + nu
    BY <1>6
  <1>8. /\ np <= t - from /\ from = qp /\ gone + left <= size + qu
    BY <1>6 DEF Earned
  <1>9. /\ Tokens(left, n, unit, size) \in Nat
        /\ Tokens(left, n, unit, size) <= left + nu
    <2>1. /\ Tokens(left, n, unit, size) \in 0..size
          /\ Tokens(left, n, unit, size) <= left + nu
      BY <1>6, TokensRange, Zenon
    <2> QED BY <2>1
  <1>10. Advanced(from, n, period, t) = u(from + u(np)) BY DEF Advanced
  <1> HIDE DEF np, qp, nu, qu
  <1>11. u(np) = np
    <2>1. np \in 0..(b - 1) BY <1>1, <1>2, <1>7, <1>8
    <2> QED BY <1>7, <2>1, Unsigned DEF b
  <1>12. u(from + np) = from + np
    <2>1. from + np \in 0..(b - 1) BY <1>1, <1>2, <1>7, <1>8
    <2> QED BY <1>7, <2>1, Unsigned DEF b
  <1>13. Advanced(from, n, period, t) = (q + n) * period
    BY <1>7, <1>8, <1>10, <1>11, <1>12
  <1>14. (q + n) * period <= t BY <1>1, <1>7, <1>8
  <1>15. gone + Tokens(left, n, unit, size) <= size + (q + n) * unit
    <2>1. PICK tok \in Nat : /\ tok = Tokens(left, n, unit, size)
                             /\ tok <= left + nu
      BY <1>9
    <2> QED BY <1>7, <1>8, <2>1
  <1>16. period = 0 => q + n = 0 BY <1>5 DEF Earned, Div
  <1>17. q + n \in Nat BY <1>6
  <1>18. Earned(q + n, gone, Tokens(left, n, unit, size), size,
                Advanced(from, n, period, t), t, period, unit)
    BY <1>13, <1>14, <1>15, <1>16 DEF Earned
  <1> QED BY <1>6, <1>17, <1>18

\* What the invariant says of the rate.
LEMMA Kept ==
  ASSUME NEW gone \in Nat, NEW left \in Nat, NEW size \in Nat, NEW from \in Nat,
         NEW to \in Nat, NEW period \in Nat, NEW unit \in Nat,
         NEW time \in Nat, to <= time,
         \E q \in Nat : Earned(q, gone, left, size, from, to, period, unit)
  PROVE  gone <= size + Div(time, period) * unit
  <1>1. PICK q \in Nat : Earned(q, gone, left, size, from, to, period, unit)
    OBVIOUS
  <1>2. Div(time, period) \in Nat /\ q <= Div(time, period)
    <2>1. q * period <= time
      <3>1. PICK qp \in Nat : qp = q * period OBVIOUS
      <3> QED BY <1>1, <3>1 DEF Earned
    <2>2. period = 0 => q = 0 BY <1>1 DEF Earned
    <2> QED BY <2>1, <2>2, WholePeriods
  <1>3. q * unit <= Div(time, period) * unit
    <2>1. PICK d \in Nat : d = Div(time, period) BY <1>2
    <2>2. q * unit <= d * unit BY <1>2, <2>1
    <2> QED BY <2>1, <2>2
  <1>4. PICK qu \in Nat, du \in Nat :
          qu = q * unit /\ du = Div(time, period) * unit
    BY <1>2
  <1>5. gone + left <= size + qu /\ qu <= du
    BY <1>1, <1>3, <1>4 DEF Earned
  <1>6. gone <= size + du BY <1>4, <1>5
  <1> QED BY <1>4, <1>6

-----------------------------------------------------------------------------
(***************************************************************************)
(* The invariant holds at first, and each step keeps it.                   *)
(***************************************************************************)

\* The fields of an entry are numbers.
LEMMA ConfigTyped ==
  ASSUME config \in Configs
  PROVE  /\ config.pbs \in Nat /\ config.cbs \in Nat
         /\ config.pir_period \in Nat /\ config.cir_period \in Nat
         /\ config.pir_unit_per_period \in Nat
         /\ config.cir_unit_per_period \in Nat
         /\ config.type \in {"PACKETS", "BYTES"}
  BY ConfigAssumption

LEMMA InitOK == Init => IInv
  <1> SUFFICES ASSUME Init PROVE IInv OBVIOUS
  <1>1. /\ config.pbs \in Nat /\ config.cbs \in Nat
        /\ config.pir_period \in Nat /\ config.cir_period \in Nat
        /\ config.pir_unit_per_period \in Nat
        /\ config.cir_unit_per_period \in Nat
    BY ConfigTyped DEF Init
  <1>2. TypeOK
    <2>1. 0 \in 0..(2^W - 1) /\ MaxTime \in Nat BY ConfigAssumption
    <2>2. value \in [pbs_left : 0..config.pbs, cbs_left : 0..config.cbs,
                     time_p : 0..(2^W - 1), time_c : 0..(2^W - 1)]
      BY <1>1, <2>1 DEF Init
    <2> QED BY <2>1, <2>2 DEF Init, TypeOK
  <1>3. Earned(0, sent.GREEN + sent.YELLOW, value.pbs_left, config.pbs,
               value.time_p, last, config.pir_period,
               config.pir_unit_per_period)
    BY <1>1 DEF Init, Earned
  <1>4. Earned(0, sent.GREEN, value.cbs_left, config.cbs,
               value.time_c, last, config.cir_period,
               config.cir_unit_per_period)
    BY <1>1 DEF Init, Earned
  <1> QED BY <1>2, <1>3, <1>4 DEF IInv, PeakOK, CommittedOK

\* A step that leaves the entry and what it has counted alone.
LEMMA SameEntry ==
  ASSUME IInv, TypeOK', UNCHANGED <<config, value, last, sent, ordered>>
  PROVE  IInv'
  BY DEF IInv, PeakOK, CommittedOK, Earned

LEMMA TickOK == ASSUME IInv, Tick PROVE IInv'
  <1>1. TypeOK /\ now \in Nat /\ MaxTime \in Nat /\ now' \in 0..MaxTime
    BY ConfigAssumption DEF IInv, TypeOK, Tick
  <1>2. 0..now \subseteq 0..now' BY <1>1 DEF Tick
  <1>3. packet' \in [Cpu -> {Idle} \cup
          [state : {"running"}, len : {Length(m) : m \in Sizes},
           color : config.colors, time : 0..now']]
    BY <1>1, <1>2 DEF TypeOK, Tick
  <1>4. TypeOK' BY <1>1, <1>2, <1>3 DEF TypeOK, Tick, Length
  <1> QED BY <1>4, SameEntry DEF Tick

LEMMA ArriveOK ==
  ASSUME IInv, NEW c \in Cpu, NEW len \in Sizes, NEW color \in config.colors,
         Arrive(c, len, color)
  PROVE  IInv'
  <1>1. TypeOK BY DEF IInv
  <1>2. now \in 0..now BY <1>1, ConfigAssumption DEF TypeOK
  <1>3. [state |-> "running", len |-> Length(len), color |-> color,
         time |-> now]
          \in [state : {"running"}, len : {Length(m) : m \in Sizes},
               color : config.colors, time : 0..now]
    BY <1>2
  <1>4. packet' \in [Cpu -> {Idle} \cup
          [state : {"running"}, len : {Length(m) : m \in Sizes},
           color : config.colors, time : 0..now]]
    BY <1>1, <1>3 DEF TypeOK, Arrive
  <1>5. TypeOK' BY <1>1, <1>4 DEF TypeOK, Arrive, Length
  <1> QED BY <1>5, SameEntry DEF Arrive

LEMMA DefaultOK == ASSUME IInv, NEW c \in Cpu, ExecuteDefault(c) PROVE IInv'
  <1>1. TypeOK BY DEF IInv
  <1>2. TypeOK' BY <1>1 DEF TypeOK, ExecuteDefault, Length
  <1> QED BY <1>2, SameEntry DEF ExecuteDefault

(***************************************************************************)
(* A packet is charged.  Both buckets gain what the time since the last    *)
(* packet brings, and pay for the packet if it is let through.             *)
(***************************************************************************)
LEMMA ExecuteOK == ASSUME IInv, NEW c \in Cpu, Execute(c) PROVE IInv'
  <1>1. PICK p, v, g, len, t, pbs, cbs, pp, pu, cp, cu :
          /\ p = packet[c] /\ v = value /\ len = p.len /\ t = p.time
          /\ g = config /\ pbs = config.pbs /\ cbs = config.cbs
          /\ pp = config.pir_period /\ pu = config.pir_unit_per_period
          /\ cp = config.cir_period /\ cu = config.cir_unit_per_period
    OBVIOUS
  <1>2. PICK np, nc, tp, tc :
          /\ np = Periods(t, v.time_p, pp) /\ nc = Periods(t, v.time_c, cp)
          /\ tp = Tokens(v.pbs_left, np, pu, pbs)
          /\ tc = Tokens(v.cbs_left, nc, cu, cbs)
    OBVIOUS
  <1>3. PICK m, ap, ac : /\ m = Mark(p.color, len, tp, tc)
                         /\ ap = Advanced(v.time_p, np, pp, t)
                         /\ ac = Advanced(v.time_c, nc, cp, t)
    OBVIOUS
  <1>4. /\ p # Idle
        /\ value' = [pbs_left |-> IF m = "RED" THEN tp ELSE tp - len,
                     cbs_left |-> IF m = "GREEN" THEN tc - len ELSE tc,
                     time_p |-> ap, time_c |-> ac]
        /\ last' = t /\ ordered' = (ordered /\ last <= t)
        /\ sent' = IF m = "RED" \/ ~ ordered' THEN sent
                   ELSE [sent EXCEPT ![m] = @ + len]
        /\ packet' = [packet EXCEPT ![c] = Idle]
        /\ config' = config /\ now' = now
    BY <1>1, <1>2, <1>3 DEF Execute, Charge
  <1>5. TypeOK BY DEF IInv
  <1>6. /\ pbs \in Nat /\ cbs \in Nat /\ pp \in Nat /\ cp \in Nat
        /\ pu \in Nat /\ cu \in Nat
    <2>1. config \in Configs BY <1>5 DEF TypeOK
    <2> QED BY <1>1, <2>1, ConfigTyped
  <1>7. /\ len \in Nat /\ t \in 0..now /\ t \in Nat /\ now \in Nat
        /\ t \in 0..(2^W - 1)
    <2>1. p \in [state : {"running"}, len : {Length(n) : n \in Sizes},
                 color : config.colors, time : 0..now]
      BY <1>1, <1>4, <1>5 DEF TypeOK
    <2>2. PICK n \in Sizes : len = Length(n) BY <1>1, <2>1
    <2>3. len \in Nat BY <2>2, ConfigAssumption DEF Length
    <2>4. t \in 0..now /\ now \in 0..MaxTime BY <1>1, <1>5, <2>1 DEF TypeOK
    <2>5. MaxTime \in Nat /\ 2^W \in Nat /\ MaxTime <= 2^W - 1
      BY ConfigAssumption
    <2>6. PICK b \in Nat : b = 2^W BY <2>5
    <2>7. t \in Nat /\ now \in Nat /\ t \in 0..(b - 1)
      BY <2>4, <2>5, <2>6
    <2> QED BY <2>3, <2>4, <2>6, <2>7
  <1>8. /\ v.pbs_left \in 0..pbs /\ v.cbs_left \in 0..cbs
        /\ v.pbs_left \in Nat /\ v.cbs_left \in Nat
        /\ v.time_p \in Nat /\ v.time_c \in Nat
    <2>1. v \in [pbs_left : 0..pbs, cbs_left : 0..cbs,
                 time_p : 0..(2^W - 1), time_c : 0..(2^W - 1)]
      BY <1>1, <1>5 DEF TypeOK
    <2> QED BY <1>6, <2>1, ConfigAssumption
  <1>9. np \in Nat /\ nc \in Nat
    <2>1. t - v.time_p \in Int /\ t - v.time_c \in Int BY <1>7, <1>8
    <2>2. u(t - v.time_p) \in Nat /\ u(t - v.time_c) \in Nat
      <3>1. /\ u(t - v.time_p) \in 0..(2^W - 1)
            /\ u(t - v.time_c) \in 0..(2^W - 1)
        BY <2>1, Unsigned
      <3> QED BY <3>1, ConfigAssumption
    <2> QED BY <1>2, <1>6, <2>2, WholePeriods DEF Periods
  <1>10. tp \in 0..pbs /\ tc \in 0..cbs
    BY <1>2, <1>6, <1>8, <1>9, TokensRange
  <1>11. /\ m \in Colors
         /\ m # "RED" => len <= tp
         /\ m = "GREEN" => len <= tc
    BY <1>3, <1>6, <1>7, <1>10 DEF Mark, Colors
  <1>12. TypeOK'
    <2>1. /\ (IF m = "RED" THEN tp ELSE tp - len) \in 0..pbs
          /\ (IF m = "GREEN" THEN tc - len ELSE tc) \in 0..cbs
      BY <1>6, <1>7, <1>10, <1>11
    <2>2. ap \in 0..(2^W - 1) /\ ac \in 0..(2^W - 1)
      <3>1. /\ np * pp \in Int /\ nc * cp \in Int
        BY <1>6, <1>9
      <3>2. u(np * pp) \in Int /\ u(nc * cp) \in Int
        <4>1. u(np * pp) \in 0..(2^W - 1) /\ u(nc * cp) \in 0..(2^W - 1)
          BY <3>1, Unsigned
        <4> QED BY <4>1, ConfigAssumption
      <3>3. v.time_p + u(np * pp) \in Int /\ v.time_c + u(nc * cp) \in Int
        BY <1>8, <3>2
      <3> QED BY <1>3, <3>3, Unsigned DEF Advanced
    <2>3. value' \in [pbs_left : 0..config.pbs, cbs_left : 0..config.cbs,
                      time_p : 0..(2^W - 1), time_c : 0..(2^W - 1)]
      BY <1>1, <1>4, <2>1, <2>2
    <2>4. sent' \in [{"YELLOW", "GREEN"} -> Nat]
      <3>1. sent \in [{"YELLOW", "GREEN"} -> Nat] BY <1>5 DEF TypeOK
      <3>2. CASE m = "RED" \/ ~ ordered' BY <1>4, <3>1, <3>2
      <3>3. CASE ~ (m = "RED" \/ ~ ordered')
        BY <1>4, <1>7, <1>11, <3>1, <3>3 DEF Colors
      <3> QED BY <3>2, <3>3
    <2>5. last' \in 0..now' /\ ordered' \in BOOLEAN
      BY <1>4, <1>5, <1>7 DEF TypeOK
    <2>6. packet' \in [Cpu -> {Idle} \cup
            [state : {"running"}, len : {Length(n) : n \in Sizes},
             color : config.colors, time : 0..now]]
      BY <1>4, <1>5 DEF TypeOK
    <2> QED
      BY <1>4, <1>5, <2>3, <2>4, <2>5, <2>6 DEF TypeOK, Length
  <1>13. ASSUME ordered' PROVE PeakOK' /\ CommittedOK'
    <2>1. PICK to, green, yellow :
            to = last /\ green = sent.GREEN /\ yellow = sent.YELLOW
      OBVIOUS
    <2>2. /\ to \in Nat /\ green \in Nat /\ yellow \in Nat /\ to <= t
          /\ ordered /\ sent \in [{"YELLOW", "GREEN"} -> Nat]
      <3>1. last \in 0..now /\ sent \in [{"YELLOW", "GREEN"} -> Nat]
        BY <1>5 DEF TypeOK
      <3>2. ordered /\ last <= t BY <1>4, <1>13
      <3> QED BY <1>7, <2>1, <3>1, <3>2
    <2>3. PICK q \in Nat : Earned(q, green + yellow, v.pbs_left, pbs,
                                  v.time_p, to, pp, pu)
      BY <1>1, <2>1, <2>2 DEF IInv, PeakOK
    <2>4. PICK r \in Nat : Earned(r, green + yellow, tp, pbs, ap, t, pp, pu)
      <3>1. PICK gone \in Nat : gone = green + yellow BY <2>2
      <3>2. Earned(q, gone, v.pbs_left, pbs, v.time_p, to, pp, pu)
        BY <2>3, <3>1
      <3>3. \E r \in Nat :
              Earned(r, gone, Tokens(v.pbs_left, np, pu, pbs), pbs,
                     Advanced(v.time_p, np, pp, t), t, pp, pu)
        <4>1. np = Periods(t, v.time_p, pp) BY <1>2
        <4>2. /\ v.pbs_left \in Nat /\ pbs \in Nat /\ v.time_p \in Nat
              /\ to \in Nat /\ pp \in Nat /\ pu \in Nat
              /\ t \in 0..(2^W - 1) /\ to <= t
          BY <1>6, <1>7, <1>8, <2>2
        <4> QED BY <3>2, <4>1, <4>2, Refill, ZenonT(30)
      <3> QED BY <1>2, <1>3, <3>1, <3>3
    <2>5. PICK qc \in Nat : Earned(qc, green, v.cbs_left, cbs,
                                   v.time_c, to, cp, cu)
      BY <1>1, <2>1, <2>2 DEF IInv, CommittedOK
    <2>6. PICK rc \in Nat : Earned(rc, green, tc, cbs, ac, t, cp, cu)
      <3>1. nc = Periods(t, v.time_c, cp) BY <1>2
      <3>2. \E rc \in Nat :
              Earned(rc, green, Tokens(v.cbs_left, nc, cu, cbs), cbs,
                     Advanced(v.time_c, nc, cp, t), t, cp, cu)
        <4>1. PICK left \in Nat, from \in Nat : left = v.cbs_left /\ from = v.time_c
          BY <1>8
        <4>2. /\ cbs \in Nat /\ to \in Nat /\ cp \in Nat /\ cu \in Nat
              /\ green \in Nat /\ t \in 0..(2^W - 1) /\ to <= t
          BY <1>6, <1>7, <2>2
        <4>3. Earned(qc, green, left, cbs, from, to, cp, cu) /\ nc = Periods(t, from, cp)
          BY <2>5, <3>1, <4>1
        <4>4. \E rc \in Nat : Earned(rc, green, Tokens(left, nc, cu, cbs), cbs,
                                     Advanced(from, nc, cp, t), t, cp, cu)
          BY <4>2, <4>3, Refill, ZenonT(30)
        <4> QED BY <4>1, <4>4
      <3> QED BY <1>2, <1>3, <3>2
    <2>7. /\ m = "RED" => sent'.GREEN = green /\ sent'.YELLOW = yellow
          /\ m = "YELLOW" => sent'.GREEN = green /\ sent'.YELLOW = yellow + len
          /\ m = "GREEN" => sent'.GREEN = green + len /\ sent'.YELLOW = yellow
      BY <1>4, <1>13, <2>1, <2>2
    <2>8. /\ value'.pbs_left = IF m = "RED" THEN tp ELSE tp - len
          /\ value'.cbs_left = IF m = "GREEN" THEN tc - len ELSE tc
          /\ value'.time_p = ap /\ value'.time_c = ac
      BY <1>4
    <2>9. /\ sent'.GREEN + sent'.YELLOW + value'.pbs_left = green + yellow + tp
          /\ sent'.GREEN + value'.cbs_left = green + tc
      BY <1>6, <1>7, <1>10, <1>11, <2>2, <2>7, <2>8 DEF Colors
    <2>10. PeakOK'
      BY <1>1, <1>4, <2>4, <2>8, <2>9 DEF PeakOK, Earned
    <2>11. CommittedOK'
      BY <1>1, <1>4, <2>6, <2>8, <2>9 DEF CommittedOK, Earned
    <2> QED BY <2>10, <2>11
  <1> QED BY <1>12, <1>13 DEF IInv

-----------------------------------------------------------------------------
(***************************************************************************)
(* The inductive invariant of the meter's entry, for any interleaving of   *)
(* the CPUs: what is let through was earned by whole periods.              *)
(***************************************************************************)
THEOREM MeterInductive == Spec => []IInv
  <1>1. Init => IInv BY InitOK
  <1>2. IInv /\ [Next]_vars => IInv'
    <2> SUFFICES ASSUME IInv, [Next]_vars PROVE IInv' OBVIOUS
    <2>1. CASE Tick BY <2>1, TickOK
    <2>2. ASSUME NEW c \in Cpu, NEW len \in Sizes,
                 NEW color \in config.colors, Arrive(c, len, color)
          PROVE  IInv'
      BY <2>2, ArriveOK
    <2>3. ASSUME NEW c \in Cpu, Execute(c) PROVE IInv'
      BY <2>3, ExecuteOK
    <2>4. ASSUME NEW c \in Cpu, ExecuteDefault(c) PROVE IInv'
      BY <2>4, DefaultOK
    <2>5. CASE UNCHANGED vars
      <3>1. TypeOK' BY <2>5 DEF IInv, TypeOK, vars, Length
      <3> QED BY <2>5, <3>1, SameEntry DEF vars
    <2> QED BY <2>1, <2>2, <2>3, <2>4, <2>5 DEF Next
  <1> QED BY <1>1, <1>2, PTL DEF Spec

(***************************************************************************)
(* Neither rate is exceeded while packets are charged in the order of      *)
(* their timestamps, and no field leaves its range in whatever order.      *)
(***************************************************************************)
THEOREM RatesKept == Spec => []MeterRates
  <1>1. IInv => MeterRates
    <2> SUFFICES ASSUME IInv PROVE TypeOK /\ RateKept BY DEF MeterRates
    <2>1. TypeOK BY DEF IInv
    <2>2. /\ config.pbs \in Nat /\ config.cbs \in Nat
          /\ config.pir_period \in Nat /\ config.cir_period \in Nat
          /\ config.pir_unit_per_period \in Nat
          /\ config.cir_unit_per_period \in Nat
      BY <2>1, ConfigTyped DEF TypeOK
    <2>3. /\ now \in Nat /\ last \in Nat /\ last <= now
          /\ sent.GREEN \in Nat /\ sent.YELLOW \in Nat
          /\ value.pbs_left \in Nat /\ value.cbs_left \in Nat
          /\ value.time_p \in Nat /\ value.time_c \in Nat
      <3>1. MaxTime \in Nat /\ 2^W \in Nat BY ConfigAssumption
      <3>2. now \in Nat /\ last \in Nat /\ last <= now BY <2>1, <3>1 DEF TypeOK
      <3>3. sent.GREEN \in Nat /\ sent.YELLOW \in Nat BY <2>1 DEF TypeOK
      <3>4. value \in [pbs_left : Nat, cbs_left : Nat, time_p : Nat, time_c : Nat]
        BY <2>1, <2>2, <3>1 DEF TypeOK
      <3> QED BY <3>2, <3>3, <3>4
    <2>4. ASSUME ordered
          PROVE  /\ sent.GREEN <= config.cbs + Div(now, config.cir_period)
                                                 * config.cir_unit_per_period
                 /\ sent.GREEN + sent.YELLOW
                      <= config.pbs + Div(now, config.pir_period)
                                        * config.pir_unit_per_period
      <3>1. PeakOK /\ CommittedOK BY <2>4 DEF IInv
      <3>2. sent.GREEN + sent.YELLOW \in Nat BY <2>3
      <3>3. sent.GREEN <= config.cbs + Div(now, config.cir_period)
                                         * config.cir_unit_per_period
        BY <2>2, <2>3, <3>1, Kept DEF CommittedOK
      <3>4. sent.GREEN + sent.YELLOW
              <= config.pbs + Div(now, config.pir_period)
                                * config.pir_unit_per_period
        BY <2>2, <2>3, <3>1, <3>2, Kept DEF PeakOK
      <3> QED BY <3>3, <3>4
    <2> QED BY <2>1, <2>4 DEF RateKept
  <1> QED BY <1>1, MeterInductive, PTL
=============================================================================
