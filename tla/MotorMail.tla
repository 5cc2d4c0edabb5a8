----------------------------- MODULE MotorMail -----------------------------
(***************************************************************************)
(* What the transmit frame of a CAN port promises: a command kind, and for *)
(* each motor the last command of that kind it was given, or none.         *)
(***************************************************************************)
EXTENDS Naturals

CONSTANTS Ids, Kinds

VARIABLES
  kind,  \* the kind of the frame
  mail,  \* the last command of each motor since the frame is of this kind, 0 if none
  n      \* commands so far

vars == <<kind, mail, n>>

NoMail == [m \in Ids |-> 0]

Init == kind = "NONE" /\ mail = NoMail /\ n = 0

\* Some motors, S, get command n + 1; the others keep theirs if the kind stays.
Give(k) ==
  /\ n' = n + 1
  /\ kind' = k
  /\ \E S \in SUBSET Ids :
       mail' = [m \in Ids |->
                   IF m \in S THEN n + 1 ELSE IF k = kind THEN mail[m] ELSE 0]

\* A command for the whole port.
GiveAll(k) ==
  /\ kind' = k /\ mail' = NoMail /\ n' = n

\* A command that no motor takes.
Refuse == n' = n + 1 /\ UNCHANGED <<kind, mail>>

\* Some motors, R, get command n + 1, and then some, S, command n + 2, or none when
\* the second command is refused.
GiveTwice(k, l) ==
  /\ n' = n + 2
  /\ kind' = l
  /\ \E R, S \in SUBSET Ids :
       mail' = [m \in Ids |->
                   IF m \in S THEN n + 2
                   ELSE IF k # l THEN 0
                   ELSE IF m \in R THEN n + 1
                   ELSE IF k = kind THEN mail[m] ELSE 0]

Next ==
  \/ Refuse
  \/ \E k \in Kinds : GiveAll(k) \/ Give(k)
  \/ \E k, l \in Kinds : GiveTwice(k, l)

Spec == Init /\ [][Next]_vars
=============================================================================
