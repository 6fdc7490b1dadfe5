------------------------------- MODULE Knowledge -------------------------------
(***************************************************************************)
(* What a caller may think the reference provider is, with its records,    *)
(* claims and cache put aside: a body of knowledge that has one answer to  *)
(* every question at every moment, and the answers it has told.  A step    *)
(* may tell answers of the moment and may improve any answer; it never     *)
(* takes one back and never tells what was not the answer.                 *)
(***************************************************************************)
CONSTANTS
    Questions,        \* what can be asked: a scope, a proposition, an instant
    AtLeast(_, _)     \* does one answer say at least what another says

VARIABLES
    known,    \* the answer to each question at this moment
    told      \* the pairs <<question, answer>> told so far

\* Nothing is known at first: every answer is an Unknown.
Init == told = {} /\ \A q \in Questions : known[q].kind = "unknown"

Improve == \A q \in Questions : AtLeast(known'[q], known[q])

Tell ==
    /\ told \subseteq told'
    /\ \A t \in told' \ told : t[1] \in Questions /\ t[2] = known[t[1]]

Next == Improve /\ Tell

Spec == Init /\ [][Next]_<<known, told>>

\* An answer once told stands: asked again at any later moment, the question
\* gets an answer that says at least as much.
ToldStands == \A t \in told : AtLeast(known[t[1]], t[2])
=============================================================================
