---------------------------------- MODULE MCQos ----------------------------------
(* Finite instances of Qos: one interface, two policy ids, cake and htb, class *)
(* lists the agent takes and one that it refuses.                              *)
EXTENDS Qos

Malformed == {shape \in Shape : shape.classes = "bad"}
=================================================================================
