---------------------------- MODULE PortContract ----------------------------
(***************************************************************************)
(* What the rest of the driver relies on in one lively_serial, whoever     *)
(* closes it and whatever breaks: the life of its object, of its receive   *)
(* thread and of its two flags.                                            *)
(***************************************************************************)

VARIABLES
  made,      \* the object exists
  receiver,  \* its thread: "none", "running" or "ended" (and not yet joined)
  init, err, \* init_flag, error_flag
  ok         \* rclcpp::ok()

vars == <<made, receiver, init, err, ok>>

Init ==
  /\ made = FALSE /\ receiver = "none" /\ init = FALSE /\ err = FALSE /\ ok = TRUE

\* A device that cannot be opened is in error from the start.
Make ==
  /\ ~made
  /\ made' = TRUE
  /\ init' \in BOOLEAN /\ err' = ~init'
  /\ UNCHANGED <<receiver, ok>>

Start ==
  /\ made /\ receiver = "none"
  /\ receiver' = "running"
  /\ UNCHANGED <<made, init, err, ok>>

\* In use, init_flag only falls and error_flag only rises, never without the
\* other having fallen, and the thread ends by itself only when it may.
Use ==
  /\ made
  /\ init' => init
  /\ err => err'
  /\ err' # err => ~init'
  /\ \/ UNCHANGED receiver
     \/ receiver = "running" /\ receiver' = "ended" /\ (~init' \/ ~ok)
  /\ init' \in BOOLEAN /\ err' \in BOOLEAN
  /\ UNCHANGED <<made, ok>>

Join ==
  /\ receiver = "ended" /\ ~init
  /\ receiver' = "none"
  /\ UNCHANGED <<made, init, err, ok>>

\* Never under a thread, nor with init_flag set.
Destroy ==
  /\ made /\ ~init /\ receiver # "running"
  /\ made' = FALSE /\ receiver' = "none" /\ init' = FALSE /\ err' = FALSE
  /\ UNCHANGED ok

Interrupt == ok' = FALSE /\ UNCHANGED <<made, receiver, init, err>>

Next == Make \/ Start \/ Use \/ Join \/ Destroy \/ Interrupt

Spec == Init /\ [][Next]_vars
=============================================================================
