---------------------------- MODULE MCPortfolio ----------------------------
(***************************************************************************)
(* Two cards of one country, and a bank transfer that costs nothing.       *)
(***************************************************************************)
EXTENDS Portfolio

Visa == <<"VISA_CREDIT", "BR">>
Master == <<"MC_CREDIT", "BR">>
Pix == <<"PIX", "BR">>

MCCells == {Visa, Master, Pix}
MCPeers == [c \in MCCells |-> IF c = Pix THEN {Pix} ELSE {Visa, Master}]
MCCosts == [c \in {Visa, Master} |->
               IF c = Visa THEN [fixed |-> 80, perTxn |-> 10, fee |-> 2]
                           ELSE [fixed |-> 3, perTxn |-> 0, fee |-> 0]]

L(n, ok, price) == [n |-> n, ok |-> ok, price |-> price]
At(d, lot) == [n |-> lot.n, ok |-> lot.ok, price |-> lot.price, day |-> d]

(* A method whose best days are over and peers without any, or all three.  *)
MCHistories ==
    {[c \in MCCells |-> IF c = Visa THEN <<At(-100, L(270, 270, 1)), At(0, L(20, 20, 1))>> ELSE <<>>],
     [c \in MCCells |-> CASE c = Visa -> <<At(-30, L(20, 19, 5)), At(0, L(20, 18, 5))>>
                          [] c = Master -> <<At(0, L(15, 15, 1))>>
                          [] c = Pix -> <<At(0, L(6, 6, 3))>>]}

(* Today, outside the 90 days, and next month.                             *)
MCBack == {0, 100, -30}

(* Some, many but mostly declined, and a few large ones.                   *)
MCLots == {L(6, 6, 1), L(20, 8, 2), L(3, 3, 9)}
=============================================================================
