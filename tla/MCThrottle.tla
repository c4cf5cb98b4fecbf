----------------------------- MODULE MCThrottle -----------------------------
(* A second of four ticks, slices of two, sectors of two bytes.            *)
EXTENDS Throttle

Only(kind, value) == [k \in Kinds |-> IF k = kind THEN value ELSE 0]
Unlimited == [k \in Kinds |-> 0]

(* A byte limit, an operation limit, none, and one that is refused.        *)
MCLimitSettings ==
    { [bps |-> Only("total", 4), iops |-> Unlimited],
      [bps |-> Unlimited, iops |-> Only("total", 2)],
      [bps |-> Unlimited, iops |-> Unlimited],
      [bps |-> Only("read", -1), iops |-> Unlimited] }

(* A write of two sectors, a read that is not whole sectors, and a write   *)
(* of one sector.                                                          *)
MCWorkloads ==
    { [c \in Co |-> CASE c = 1 -> [dir |-> "write", bytes |-> 4]
                      [] c = 2 -> [dir |-> "read", bytes |-> 3]
                      [] c > 2 -> [dir |-> "write", bytes |-> 2]] }

=============================================================================
