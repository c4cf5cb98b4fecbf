--------------------------- MODULE MCThrottleRate ---------------------------
(* A second of four ticks, slices of two.                                  *)
EXTENDS ThrottleRate

Only(kind, value) == [k \in Kinds |-> IF k = kind THEN value ELSE 0]
Unlimited == [k \in Kinds |-> 0]

(* Limits in bytes, in operations, both at once, for one direction, two    *)
(* settings that are refused, and none.                                    *)
MCLimitSettings ==
    { [bps |-> Only("total", 2), iops |-> Unlimited],
      [bps |-> Only("total", 3), iops |-> Only("write", 2)],
      [bps |-> Only("read", 1), iops |-> Only("total", 3)],
      [bps |-> [k \in Kinds |-> 1], iops |-> Unlimited],
      [bps |-> Only("write", -1), iops |-> Unlimited],
      [bps |-> Unlimited, iops |-> Unlimited] }

=============================================================================
