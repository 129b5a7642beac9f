----------------------------- MODULE MCGpioPage -----------------------------
(* Two operators, six pins: one of SIO4, one of the keypad, one with an    *)
(* enable field, one of the ADC, one of the reset line, and C24, and one   *)
(* digital line.                                                           *)
EXTENDS GpioPage, TLC

MCPins == {<<"B", 10>>, <<"B", 21>>, <<"A", 22>>, <<"C", 0>>,
           <<"C", 16>>, <<"C", 24>>}

MCSymmetry == Permutations(Operators)

MCProducts == {"S4M", "other"}

=============================================================================
