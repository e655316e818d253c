----------------------------- MODULE MCWtDcache -----------------------------
(***************************************************************************)
(* Instances of the write-through data cache for TLC: a set of two ways    *)
(* for which two lines compete.                                            *)
(***************************************************************************)
EXTENDS WtDcache

W(l, o) == [line |-> l, off |-> o]
A  == W("a", 0)
A1 == W("a", 1)
B  == W("b", 0)
IO == W("io", 0)
IO1 == W("io", 1)

MCWord == {A, A1, B, IO, IO1}
MCCacheable == {"a", "b"}
MCNonIdempotent == {IO, IO1}
MCWay == {0, 1}

Does(ports, loads, stores, be, what) ==
  [ports |-> ports, loads |-> loads, stores |-> stores, be |-> be,
   amo |-> IF "amo" \in what THEN A ELSE None,
   kill |-> "kill" \in what, inv |-> "inv" \in what,
   flush |-> "flush" \in what, switch |-> "switch" \in what]

Both == ReadPort

Partial   == Does({0}, {A}, {A}, {{0}, {1}, Byte}, {})       \* stores of parts of a word
Neighbour == Does({0}, {A}, {A, A1}, {Byte}, {})             \* words of one line
Evictions == Does(Both, {A, B}, {A}, {Byte}, {})              \* lines compete for a way
Withdrawn == Does(Both, {A}, {A}, {Byte}, {"kill", "inv"})
Switched  == Does(Both, {A}, {A}, {Byte}, {"flush", "switch"})
Atomics   == Does(Both, {A}, {A}, {Byte}, {"amo", "flush"})
Devices   == Does(Both, {IO}, {IO, IO1}, {{0}, Byte}, {})      \* neither cacheable nor idempotent

MCPrograms == {Partial, Neighbour, Evictions, Withdrawn, Switched, Atomics, Devices}
=============================================================================
