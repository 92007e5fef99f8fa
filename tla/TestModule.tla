----------------------------- MODULE TestModule -----------------------------
(***************************************************************************)
(* The configuration side of ngx_http_test_module.c across the start and   *)
(* the reloads of the nginx master: which location's configuration the     *)
(* static pointer TEST_LOC_CONF leads to, and which get their test_data.   *)
(*                                                                         *)
(* nginx is vendored and modelled by what ngx_init_cycle does around the   *)
(* module's callbacks: every cycle has a pool of its own that holds its    *)
(* location configurations; they are merged from the outside in; a cycle   *)
(* that fails is destroyed with its pool and the old one stays; init_module*)
(* runs before the old cycle's pool is destroyed.                          *)
(*                                                                         *)
(* Abstraction.  A configuration is the sequence of its locations in merge *)
(* order, each with the index of the location around it (0: none) and its  *)
(* conf_file directive ("unset", "" or a file).  A location configuration  *)
(* is the pair <<cycle, index>>.                                           *)
(***************************************************************************)
EXTENDS Naturals, Sequences, FiniteSetsExt

CONSTANTS
  Files,     \* names that conf_file may give, "" not among them
  Configs,   \* the configurations an administrator installs
  MaxCycles  \* bound on the cycles a behaviour goes through

Values == Files \cup {"unset", ""}
Locations == [parent : Nat, conf_file : Values]

ASSUME FilesAssumption == Files \cap {"unset", ""} = {}
ASSUME ConfigsAssumption ==
  /\ Configs \subseteq Seq(Locations)
  /\ \A c \in Configs : \A k \in 1 .. Len(c) : c[k].parent < k
ASSUME MaxCyclesAssumption == MaxCycles \in Nat

VARIABLES
  config,         \* the configuration of every cycle begun so far
  pools,          \* the cycles whose pool exists
  current,        \* the cycle the workers run with, 0 before the first
  merged,         \* test_conf_file of the newest cycle's merged locations
  TEST_LOC_CONF,
  test_data,      \* the location configurations that hold a test_data
  phase           \* of ngx_init_cycle: "idle", "merge", "init", "cleanup";
                  \* "exited"; "undefined" after a dangling pointer was read

vars == <<config, pools, current, merged, TEST_LOC_CONF, test_data, phase>>

-----------------------------------------------------------------------------
NoConf == <<0, 0>>
Newest == Len(config)

Init ==
  /\ config = <<>>
  /\ pools = {}
  /\ current = 0
  /\ merged = <<>>
  /\ TEST_LOC_CONF = NoConf
  /\ test_data = {}
  /\ phase = "idle"

\* ngx_init_cycle parses a configuration: every location's configuration is
\* created, zeroed, in the pool of the new cycle.
Configure ==
  /\ phase = "idle"
  /\ Newest < MaxCycles
  /\ \E c \in Configs : config' = Append(config, c)
  /\ pools' = pools \cup {Newest + 1}
  /\ merged' = <<>>
  /\ phase' = "merge"
  /\ UNCHANGED <<current, TEST_LOC_CONF, test_data>>

\* ngx_conf_merge_str_value: an unset value is taken from the location
\* around it, whose own has been merged before, else it is "".
Inherited(loc) ==
  IF loc.conf_file # "unset" THEN loc.conf_file
  ELSE IF loc.parent = 0 THEN ""
  ELSE merged[loc.parent]

\* Mutant: TEST_LOC_CONF = prev.
PointsAtPrev(value) ==
  IF value # "" THEN <<Newest, config[Newest][Len(merged) + 1].parent>> ELSE TEST_LOC_CONF
\* Mutant: only the first location that has a file is remembered.
PointsAtFirst(value) ==
  IF value # "" /\ TEST_LOC_CONF = NoConf THEN <<Newest, Len(merged) + 1>>
  ELSE TEST_LOC_CONF
\* Mutant: the pointer is set from the directive, before it is inherited.
PointsAtOwn(value) ==
  IF config[Newest][Len(merged) + 1].conf_file \in Files
  THEN <<Newest, Len(merged) + 1>> ELSE TEST_LOC_CONF
PointsAt(value) ==
  IF value # "" THEN <<Newest, Len(merged) + 1>> ELSE TEST_LOC_CONF

\* ngx_http_test_merge_loc_conf, for the next location.
MergeLocConf ==
  /\ phase = "merge"
  /\ Len(merged) < Len(config[Newest])
  /\ LET value == Inherited(config[Newest][Len(merged) + 1]) IN
       /\ TEST_LOC_CONF' = PointsAt(value)
       /\ merged' = Append(merged, value)
  /\ UNCHANGED <<config, pools, current, test_data, phase>>

\* The rest of ngx_init_cycle up to init_module (files, sockets) succeeds.
CycleAccepted ==
  /\ phase = "merge"
  /\ Len(merged) = Len(config[Newest])
  /\ phase' = "init"
  /\ UNCHANGED <<config, pools, current, merged, TEST_LOC_CONF, test_data>>

\* It fails, at any moment since parsing began: the new pool is destroyed.
\* Nothing resets TEST_LOC_CONF.  At the start nginx gives up.
CycleRejected ==
  /\ phase = "merge"
  /\ pools' = pools \ {Newest}
  /\ test_data' = {d \in test_data : d[1] # Newest}
  /\ phase' = IF current = 0 THEN "exited" ELSE "idle"
  /\ UNCHANGED <<config, current, merged, TEST_LOC_CONF>>

\* init_module, with ngx_http_test_init and test_init: a test_data for the
\* location configuration that TEST_LOC_CONF leads to, if any.
InitModule ==
  /\ phase = "init"
  /\ \/ /\ TEST_LOC_CONF = NoConf
        /\ phase' = "cleanup"
        /\ UNCHANGED test_data
     \/ /\ TEST_LOC_CONF # NoConf
        /\ TEST_LOC_CONF[1] \in pools
        /\ test_data' = test_data \cup {TEST_LOC_CONF}
        /\ phase' = "cleanup"
     \/ /\ TEST_LOC_CONF # NoConf
        /\ TEST_LOC_CONF[1] \notin pools
        /\ phase' = "undefined"
        /\ UNCHANGED test_data
  /\ UNCHANGED <<config, pools, current, merged, TEST_LOC_CONF>>

\* The old cycle's pool is destroyed, and workers start with the new one.
NewCycleRuns ==
  /\ phase = "cleanup"
  /\ pools' = pools \ {current}
  /\ test_data' = {d \in test_data : d[1] # current}
  /\ current' = Newest
  /\ phase' = "idle"
  /\ UNCHANGED <<config, merged, TEST_LOC_CONF>>

Stopped ==
  /\ phase \in {"exited", "undefined"} \/ (phase = "idle" /\ Newest = MaxCycles)
  /\ UNCHANGED vars

Next ==
  \/ Configure \/ MergeLocConf \/ CycleAccepted \/ CycleRejected
  \/ InitModule \/ NewCycleRuns \/ Stopped

Spec == Init /\ [][Next]_vars

-----------------------------------------------------------------------------
(* What the module promises.                                               *)

\* Reference: the locations around location k of configuration c, and the
\* file that applies to it: that of the closest one with a directive.
Around(c, k) ==
  LET up[j \in 0 .. k] == IF j = 0 THEN {} ELSE {j} \cup up[c[j].parent] IN up[k]
FileOf(c, k) ==
  LET set == {j \in Around(c, k) : c[j].conf_file # "unset"} IN
  IF set = {} THEN "" ELSE c[Max(set)].conf_file
WithFile(c) == {k \in 1 .. Len(c) : FileOf(c, k) # ""}

\* init_module reads a dangling TEST_LOC_CONF only for a configuration with
\* no conf_file in force: whatever was installed, rejected or removed before,
\* one with a conf_file resets the pointer to the new cycle.
DanglingOnlyWithoutFile ==
  phase = "undefined" => WithFile(config[Newest]) = {}

\* In the cycle the workers run with, the last location that a conf_file is
\* in force for has its test_data, and no other: a configuration with one
\* such location, as the deployed nginx.conf is, is served.
LastLocationServed ==
  phase = "idle" /\ current # 0 =>
    {d[2] : d \in {e \in test_data : e[1] = current}} =
      IF WithFile(config[current]) = {} THEN {} ELSE {Max(WithFile(config[current]))}
=============================================================================
