------------------------------- MODULE MCFdLink -------------------------------
(* Budgets for checking FdLink.                                            *)
EXTENDS FdLink

OneWay2 == [n \in Node |-> IF n = Primary THEN 2 ELSE 0]
OneWay4 == [n \in Node |-> IF n = Primary THEN 4 ELSE 0]
ThreeAndTwo == [n \in Node |-> IF n = Primary THEN 3 ELSE 2]
FourAndOne == [n \in Node |-> IF n = Primary THEN 4 ELSE 1]
===============================================================================
