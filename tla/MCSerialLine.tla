---------------------------- MODULE MCSerialLine ----------------------------
(* Clocks, bauds and line settings for TLC. *)
EXTENDS SerialLine

MCClocks == {1843200, 3072000, 4233600, 8000000, 14745600}

\* Ordinary bauds, some at the limit of one percent, special cases, those too fast for
\* a clock, and those whose denominator wraps to zero, to a negative LONG, to a small
\* value or to a large one.
MCBauds == {-1, 0, 2, 16, 110, 300, 8900, 9600, 14400, 19200, 38400, 50000, 56000, 57600,
            110000, 112000, 114100, 115200, 128000, 150000, 268000, 500000, 134217728,
            268435456, 268435457, 268635456, 286331154, 2147483647}

MCSettings == {
    [word |-> 4, parity |-> "none", stop |-> "1"],
    [word |-> 5, parity |-> "none", stop |-> "1.5"],
    [word |-> 5, parity |-> "none", stop |-> "2"],
    [word |-> 8, parity |-> "none", stop |-> "1"],
    [word |-> 8, parity |-> "mark", stop |-> "2"],
    [word |-> 8, parity |-> "mark", stop |-> "1.5"]}
=============================================================================
