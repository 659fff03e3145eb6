--------------------------- MODULE MCTestnetFiles ---------------------------
(***************************************************************************)
(* Testnets of one to three validators, made one after the other in the    *)
(* same directory.                                                         *)
(***************************************************************************)
EXTENDS TestnetFiles

Arg(validators, stakes, ports) ==
    [numValidators |-> validators, stakes |-> stakes, ports |-> ports,
     startingIPAddress |-> 1, minGasPrices |-> "0.0001stake"]

\* More and fewer amounts than validators, amounts that are too large, no
\* number, or negative, and a list of ports that is too short.
MCArgs ==
    {Arg(3, <<1, 2, 1>>, << >>), Arg(2, <<3>>, << >>), Arg(1, <<1, 1>>, <<7000>>),
     Arg(2, <<None, 6>>, <<7000>>), Arg(3, <<1, -1>>, << >>)}

\* Addresses are numbers; another gas price than the default.
MCTwoNodes == {[Arg(2, <<1, 1>>, << >>) EXCEPT !.minGasPrices = "0.01stake"]}

=============================================================================
