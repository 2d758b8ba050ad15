------------------------------ MODULE MCAccount ------------------------------
EXTENDS Account, TLC

CONSTANTS s1, s2

MCEdit == {[type |-> "prestartup"], [stage |-> "early"], [industry |-> "lodging"],
           [revenue |-> 500, type |-> "prestartup", stage |-> "early"], [revenue |-> 500],
           [type |-> "corporation", region |-> "seoul"]}

MCSays == {[type |-> "prestartup", founded |-> None, region |-> "seoul"],
           [type |-> "corporation", founded |-> 2020, region |-> None]}

SlotsAlike == Permutations(Slot)
=============================================================================
