----------------------------- MODULE MCStartup -----------------------------
(* Startup for TLC: two addresses, three connections to each, and more        *)
(* goroutines than one address has connections; three files on their way,     *)
(* two of them to one target.                                               *)
EXTENDS Startup, TLC

CONSTANTS ip1, ip2, a, b, t1, t2
MCIPs == {ip1, ip2}
MCRemoteIPs == <<ip1, ip2>>
MCSources == {a, b}
MCTargets == {t1, t2}
MCJobs == <<[src |-> a, target |-> t1], [src |-> b, target |-> t1],
            [src |-> a, target |-> t2]>>
MCSymmetry == Permutations(Callers)
=============================================================================
