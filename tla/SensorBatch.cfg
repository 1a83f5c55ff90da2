\* The accelerometer of the default table: 20 ms to 10 s.  The arguments are 20 ms,
\* 0.2 s, 1 s, 2 s, 5 s, 10 s and 20 s.
CONSTANTS
    IntModulus = 268435456
    MinPeriod = 1250000
    MaxPeriod = 625000000
    Periods = {1250000, 12500000, 62500000, 125000000, 312500000, 625000000, 1250000000}
SPECIFICATION Spec
INVARIANT PeriodIsClamped
