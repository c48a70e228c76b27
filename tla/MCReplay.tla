------------------------------ MODULE MCReplay -------------------------------
(* Four addresses, rows for a cycle and a chord, one pair with a row of a  *)
(* transaction and one without: chains, stars, cycles and repeated         *)
(* evidence, in every order.  Three units are a thousandth; of the         *)
(* confidences asked for, float64 puts one below and one above itself.     *)
EXTENDS Replay

MCAddress == 1..4
R(x, y, s, c) == [a |-> x, b |-> y, source |-> s, conf |-> c]
MCRow == {R(1, 2, "t1", 3), R(3, 2, "t1", 6), R(3, 4, "t1", 3), R(4, 1, "t2", 9),
          R(2, 4, "t1", 6), R(4, 3, "manual", 3)}
MCCertain == 27
MCFloat == [c \in 1..MCCertain |-> CASE c = 6 -> 5 [] c = 9 -> 10 [] OTHER -> c]
MCNumeric == [c \in 1..MCCertain |-> 3 * ((c + 1) \div 3)]
=============================================================================
