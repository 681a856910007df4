---------------------------- MODULE MCBipFetch ----------------------------
(* Instances of BipFetch for TLC. *)
EXTENDS BipFetch, TLC

CONSTANTS c1, c2, c3, c4, w1, w2, k1, k2

(* One worker; three calls, all for one report. *)
SameWorker == [c \in Callers |-> w1]
SameKey == [c \in Callers |-> k1]

(* Calls that differ in nothing but their name.  For safety properties only. *)
Interchangeable == Permutations(Callers)

(* Two calls of one worker want the same report, the third call there wants
   another, and the fourth is handled by the other worker, which shares Redis
   with the first. *)
OneShared == [c \in Callers |-> IF c = c3 THEN k2 ELSE k1]
TwoWorkers == [c \in Callers |-> IF c = c4 THEN w2 ELSE w1]
FirstTwo == Permutations({c1, c2})
===========================================================================
