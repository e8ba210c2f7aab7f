---------------------------- MODULE MCIdleClock ----------------------------
(* Options for idle_clock.cfg: each limit alone, both by default with one   *)
(* slot and a floor above it, and none.                                     *)
EXTENDS IdleClock

IdleOnly == [PoolSize |-> 0, MinIdle |-> 0, IdleTimeout |-> 1, MaxConnAge |-> -1]
AgeOnly  == [PoolSize |-> 2, MinIdle |-> 1, IdleTimeout |-> -1, MaxConnAge |-> 1]
OneSlot  == [PoolSize |-> 1, MinIdle |-> 2, IdleTimeout |-> 0, MaxConnAge |-> 0]
NoLimits == [PoolSize |-> 2, MinIdle |-> -1, IdleTimeout |-> -1, MaxConnAge |-> -1]

SomeOptions == {IdleOnly, AgeOnly, OneSlot, NoLimits}

=============================================================================
