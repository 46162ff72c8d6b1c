--------------------------- MODULE RequestService ---------------------------
(***************************************************************************)
(* What the tabs rely on when they hand a request to the worker thread:    *)
(* requests are served in the order they were made, each is answered once, *)
(* and every answer is seen once, in that order.                           *)
(***************************************************************************)
EXTENDS Sequences

CONSTANTS Request, Initial   \* Initial: what is asked before the window opens
VARIABLES waiting,    \* requests made and not answered yet, oldest first
          answered,   \* requests answered, their answers not seen yet
          gone        \* no worker: nothing is accepted any more

vars == <<waiting, answered, gone>>

Init == waiting = Initial /\ answered = <<>> /\ gone = FALSE

Accepted == ~ gone /\ \E r \in Request : waiting' = Append(waiting, r)

Accept == Accepted /\ UNCHANGED <<answered, gone>>
Answer == /\ waiting # <<>>
          /\ waiting' = Tail(waiting)
          /\ answered' = Append(answered, Head(waiting))
          /\ UNCHANGED gone

\* The answer is seen, and may be the reason to ask for more.
See    == /\ answered # <<>> /\ answered' = Tail(answered)
          /\ Accepted \/ UNCHANGED waiting
          /\ UNCHANGED gone

\* The worker thread never came up: what was asked is lost.
Vanish == /\ ~ gone /\ answered = <<>>
          /\ gone' = TRUE /\ waiting' = <<>> /\ UNCHANGED answered

Next == Accept \/ Answer \/ See \/ Vanish
Spec == Init /\ [][Next]_vars
=============================================================================
