----------------------------- MODULE MCTopology -----------------------------
(***************************************************************************)
(* TLC instances of Topology: up to two boards with up to three ports, and *)
(* parameter trees with every mistake that loading, validation, opening    *)
(* and building look for.                                                  *)
(***************************************************************************)
EXTENDS Topology

Permuted == Permutations(Lines)

M(id, num) == [id |-> id, num |-> num, known |-> TRUE]
P(serial, ms) == [serial |-> serial, count |-> Len(ms), motors |-> ms]

One == <<M(2, 1)>>
Two == <<M(2, 1), M(1, 2)>>
Good == {P(s, ms) : s \in 1..3, ms \in {One, Two}}

\* What may be wrong with a port.
Bad ==
  {P(0, One), P(2, One), P(1, <<>>), P(1, <<M(0, 1)>>), P(1, <<M(1, 2)>>),
   P(1, <<M(1, 1), M(1, 2)>>), P(1, <<M(3, 1)>>), P(1, <<[M(1, 1) EXCEPT !.known = FALSE]>>),
   [P(1, One) EXCEPT !.count = 2], [P(1, Two) EXCEPT !.count = 1]}

Trees ==
  {<<>>, <<<<>>>>, <<<<P(1, One), P(2, One), P(3, One)>>, <<P(1, One)>>>>}
    \cup {<<<<P(2, Two), p>>>> : p \in Good \cup Bad}
    \cup {<<<<p>>, <<P(2, Two)>>>> : p \in Good \cup Bad}
    \cup {<<<<P(s[1], Two), P(s[2], One)>>, <<P(s[3], Two)>>>> : s \in SetToSeqs(1..3)}
    \cup {<<<<>>, <<p>>>> : p \in Good}
=============================================================================
