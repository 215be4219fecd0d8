------------------------------- MODULE PyTime -------------------------------
(* genpy's Time and Duration: pairs of seconds and nanoseconds with the    *)
(* arithmetic of integers, which has no bound in Python. What goes through *)
(* floating point (from_sec, to_sec, division, products with a float) is   *)
(* left out. An operator that may raise gives NoTime.                      *)
EXTENDS Integers

CONSTANTS Second,   \* the nanoseconds of a second (10^9 in the code)
          NoTime    \* an exception

TVal(secs, nsecs) == [secs |-> secs, nsecs |-> nsecs]

_canon(secs, nsecs) ==
    LET secs_over == nsecs \div Second
    IN  TVal(secs + secs_over, nsecs - secs_over * Second)

canon(t) == _canon(t.secs, t.nsecs)
is_zero(t) == t.secs = 0 /\ t.nsecs = 0
to_nsec(t) == t.secs * Second + t.nsecs
hash(t) == <<t.secs, t.nsecs>>

(* The constructors; a time before the epoch is refused.                   *)
Duration(secs, nsecs) == _canon(secs, nsecs)
Time(secs, nsecs) == IF _canon(secs, nsecs).secs < 0 THEN NoTime ELSE _canon(secs, nsecs)

time_add(t, d) == Time(t.secs + d.secs, t.nsecs + d.nsecs)
time_sub_time(t, u) == Duration(t.secs - u.secs, t.nsecs - u.nsecs)
time_sub_duration(t, d) == Time(t.secs - d.secs, t.nsecs - d.nsecs)

neg(d) == Duration(-d.secs, -d.nsecs)
abs(d) == IF d.secs >= 0 THEN d ELSE neg(d)
add(d, e) == Duration(d.secs + e.secs, d.nsecs + e.nsecs)
sub(d, e) == Duration(d.secs - e.secs, d.nsecs - e.nsecs)
mul(d, n) == Duration(d.secs * n, d.nsecs * n)

(* __cmp__, on which <, <=, > and >= rest, compares nanoseconds; __eq__    *)
(* compares the fields.                                                    *)
cmp(a, b) ==
    IF to_nsec(a) > to_nsec(b) THEN 1 ELSE IF to_nsec(a) < to_nsec(b) THEN -1 ELSE 0
lt(a, b) == cmp(a, b) < 0
le(a, b) == cmp(a, b) <= 0
eq(a, b) == a.secs = b.secs /\ a.nsecs = b.nsecs
=============================================================================
