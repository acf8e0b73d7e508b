--------------------------- MODULE RunnerContract ---------------------------
(***************************************************************************)
(* What the supervisor may rely on when it holds a modeRunner: the         *)
(* contract ModeRunner implements.  A runner owns processes or not         *)
(* (owned), has decided on a launch or not (launching), was asked to stop  *)
(* or not (asked), and is over or not.                                     *)
(***************************************************************************)
VARIABLES owned, launching, asked, over

vars == <<owned, launching, asked, over>>

Init == ~owned /\ launching = TRUE /\ ~asked /\ ~over

\* A restart is decided only before anybody asked for a stop, and only when
\* nothing of the previous child is left.
Decide == /\ ~asked /\ ~over /\ ~owned
          /\ launching' = TRUE
          /\ UNCHANGED <<owned, asked, over>>

Launch == /\ launching /\ ~owned
          /\ launching' = FALSE /\ owned' = TRUE
          /\ UNCHANGED <<asked, over>>

LaunchFails == /\ launching
               /\ launching' = FALSE
               /\ UNCHANGED <<owned, asked, over>>

Vanish == /\ owned
          /\ owned' = FALSE
          /\ UNCHANGED <<launching, asked, over>>

Ask == /\ asked' = TRUE
       /\ UNCHANGED <<owned, launching, over>>

\* The end, with or without having been asked, leaves no process behind and
\* is final.
End == /\ ~owned /\ ~over
       /\ over' = TRUE /\ launching' = FALSE
       /\ UNCHANGED <<owned, asked>>

Next == Decide \/ Launch \/ LaunchFails \/ Vanish \/ Ask \/ End

\* Once asked, the runner ends, however its child behaves.
Fairness == /\ WF_vars(asked /\ (Launch \/ LaunchFails))
            /\ WF_vars(asked /\ Vanish)
            /\ WF_vars(asked /\ End)

Spec == Init /\ [][Next]_vars /\ Fairness
=============================================================================
