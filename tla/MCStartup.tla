----------------------------- MODULE MCStartup ------------------------------
(* An instance of Startup for TLC: three programs, gangs of one, so that    *)
(* two gangs do not cover all of them; two programs under linux, which      *)
(* thaws both; and configurations that are rejected at a line, at the       *)
(* policy and at the file of targets.                                       *)
EXTENDS Startup

CONSTANTS p1, p2, p3

File(lines, policy, targets) == [lines |-> lines, policy |-> policy, targets |-> targets]
MCConfigs ==
    {File(<<"comment", p1, p2, "comment", p3>>, "fair", TRUE),
     File(<<p1, p2>>, "linux", TRUE),
     File(<<p1, p2, "malformed", p3>>, "fair", TRUE),
     File(<<p1, p2>>, "fare", TRUE),
     File(<<p1, p2>>, "fair", FALSE)}
MCLinux == {File(<<p1, p2>>, "linux", TRUE)}
MCRegistered == {"linux", "perf", "fair", "perf_fair", "fair_bw_cache"}
=============================================================================
