------------------------------ MODULE Household ------------------------------
(* What the modules about one household and its box have in common.          *)
CONSTANTS
    Gadgets,        \* devices of the household
    None            \* no entry, no limit, no route: the value of what is not there
=============================================================================
