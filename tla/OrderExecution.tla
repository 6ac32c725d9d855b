--------------------------- MODULE OrderExecution ---------------------------
(***************************************************************************)
(* What the main loop may rely on when it hands a request to the order     *)
(* executor: the request is answered once.  An answer other than an error  *)
(* says what became of the order (Known, where a fill may be one in part), *)
(* and an error says nothing (Lost), except that an order may have been    *)
(* posted again because the error of its first post was misread (Misread): *)
(* it may then have been taken although it is reported refused, or have    *)
(* been taken twice.                                                       *)
(*                                                                         *)
(* Known and Lost are the steps Fill, Rest and Refuse of TwoLegBot.        *)
(***************************************************************************)
CONSTANT Requests    \* requests that may be worked on at the same time

VARIABLES book,      \* what the exchange did with the order, once answered
          reply      \* "None": no request; "Pending": not answered yet

vars == <<book, reply>>

Known   == {<<"Filled", "Filled">>, <<"Part", "Filled">>, <<"Resting", "Live">>,
            <<"Refused", "Rejected">>}
Lost    == {"Filled", "Part", "Resting", "Refused"} \X {"Err"}
Misread == ({"Filled", "Part", "Resting"} \X {"Rejected"})
             \cup ({"Twice"} \X {"Filled", "Live", "Err"})

Outcomes == Known \cup Lost \cup Misread

Init == /\ book  = [r \in Requests |-> "Unsent"]
        /\ reply = [r \in Requests |-> "None"]

Place(r) == /\ reply[r] = "None"
            /\ reply' = [reply EXCEPT ![r] = "Pending"]
            /\ UNCHANGED book

Answer(r) == /\ reply[r] = "Pending"
             /\ \E o \in Outcomes : /\ book'  = [book EXCEPT ![r] = o[1]]
                                    /\ reply' = [reply EXCEPT ![r] = o[2]]

\* The loop has taken the result in; the next request may use the name.
TakeIn(r) == /\ reply[r] \notin {"None", "Pending"}
             /\ book'  = [book EXCEPT ![r] = "Unsent"]
             /\ reply' = [reply EXCEPT ![r] = "None"]

Next == \E r \in Requests : Place(r) \/ Answer(r) \/ TakeIn(r)

Spec == Init /\ [][Next]_vars
=============================================================================
