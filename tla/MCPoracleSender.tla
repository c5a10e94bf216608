-------------------------- MODULE MCPoracleSender --------------------------
(***************************************************************************)
(* PoracleSender on small instances.                                       *)
(***************************************************************************)
EXTENDS PoracleSender

CONSTANTS dest, f1, f2, f3

OneDestination == {dest}
TwoFlushers == {f1, f2, Final}
ThreeFlushers == {f1, f2, f3, Final}

\* The nest of the first message is outside of the areas of the destination.
NestAreas == [m \in Message |-> IF m = 1 THEN <<"Paris", "Chelsea">>
                                ELSE IF m = 2 THEN <<"London", "Chelsea">>
                                ELSE <<"Paris", "Harrow">>]
WebhookAreas == [d \in OneDestination |->
                    {<<"London", "*">>, <<"Harrow">>, <<"Rome", "Chelsea">>}]

=============================================================================
