----------------------------- MODULE MCDispatch -----------------------------
(***************************************************************************)
(* Instances of Dispatch for TLC.                                          *)
(***************************************************************************)
EXTENDS Dispatch

CONSTANTS t1, t2, s1, s2, s3, r1

NoDependencies == [t \in Tasks |-> {}]

Chain == [t \in Tasks |-> IF t = t2 THEN {t1} ELSE {}]

InOrder == SelectSeq(<<t1, t2>>, LAMBDA t : t \in Tasks)

BothWrite == {{t1, t2}}

(* either an operator asks for something or a step fails *)
OneDisturbance == faults + calls <= 1
=============================================================================
