------------------------------ MODULE MCMeter ------------------------------
EXTENDS Meter, TLC

CONSTANTS c1, c2

\* One token every 2 and every 3 ticks, as for rates below 10^7 per second.
TwoRates == [type |-> "PACKETS", colors |-> {"RED", "BLIND"},
             pir_period |-> 2, pir_unit_per_period |-> 1, pbs |-> 4,
             cir_period |-> 3, cir_unit_per_period |-> 1, cbs |-> 2]

\* Rates for which a period brings several tokens.
Bulk == [type |-> "BYTES", colors |-> {"YELLOW", "BLIND"},
         pir_period |-> 4, pir_unit_per_period |-> 3, pbs |-> 5,
         cir_period |-> 3, cir_unit_per_period |-> 2, cbs |-> 3]

\* No committed rate: convert_rate(0) gives a period of 0.
NoCommitted == [TwoRates EXCEPT !.cir_period = 0, !.cir_unit_per_period = 0]
BothMeters == {Bulk, NoCommitted}
Interchangeable == Permutations(Cpu)
=============================================================================
