------------------------------ MODULE MCCombat ------------------------------
EXTENDS Spammer
WritersDef == {"loop", "cycle1", "cycle2", "gear1", "gear2", "autopot"}
CycleOfDef == <<"cycle1", "cycle2">>
GearOfDef == <<"gear1", "gear2">>
AtkDef == <<"F9">>
DefDef == <<>>
Scenario(p, c, t, n, f, g) ==
    [presses |-> p, cycles |-> c, pots |-> t, sessions |-> n, faults |-> f, gear |-> g]
\* two sessions and a failure; a potion and a gear switch; a failure with both keys' cycles
ScenariosDef == {Scenario(2, 1, 0, 2, 1, FALSE),
                 Scenario(2, 2, 1, 1, 0, TRUE),
                 Scenario(2, 2, 0, 1, 1, TRUE)}
=============================================================================
