------------------------------- MODULE EzConfig -------------------------------
(* src/src/config.rs: the timeouts derived from one interval, in milliseconds of a fixed width.
   What overflows wraps, as in a release build; a debug build stops there, which starts no node. *)
EXTENDS Integers

CONSTANTS
    MaxMs,      \* the largest number of milliseconds, u64::MAX in the code
    Intervals   \* the values EzConfig::heartbeat_interval may be given, in milliseconds

ASSUME WidthAssumption == MaxMs \in Nat
ASSUME IntervalsAssumption == Intervals \subseteq 0 .. MaxMs

Wrapped(x) == x % (MaxMs + 1)

(* Mutant of RaftConfig: the upper bound of the election timeout is ten intervals. *)
RaftConfigWide(ms) == [heartbeat |-> ms, electionMin |-> Wrapped(3 * ms), electionMax |-> Wrapped(10 * ms)]

(* EzConfig::to_raft_config, before it is validated. *)
RaftConfig(ms) == [heartbeat |-> ms, electionMin |-> Wrapped(3 * ms), electionMax |-> Wrapped(6 * ms)]

(* openraft's Config::validate, as far as it looks at the timeouts. *)
Validated(c) == c.heartbeat < c.electionMin /\ c.electionMin < c.electionMax

Accepted(ms) == Validated(RaftConfig(ms))
=============================================================================
