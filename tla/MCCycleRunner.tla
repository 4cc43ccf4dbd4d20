---------------------------- MODULE MCCycleRunner ----------------------------
(* Conditions for the instances of CycleRunner.                              *)
EXTENDS CycleRunner

CONSTANTS B, C, CPrime, x

TreatedAndPlacebo == <<C, CPrime>>
MemoryOnly == <<B>>
ArmGrants == [unit \in {B, C, CPrime} |->
                CASE unit = B -> [memory |-> "genuine", reflection |-> "none"]
                  [] unit = C -> [memory |-> "genuine", reflection |-> "genuine"]
                  [] unit = CPrime -> [memory |-> "placebo", reflection |-> "placebo"]]
=============================================================================
