------------------------------ MODULE MCCanBus ------------------------------
EXTENDS CanBus

Small == [out |-> 1, in |-> 1]
Large == [out |-> 2, in |-> 2]
MCPlans == {<<Small>>, <<Large, Small>>}
=============================================================================
