------------------------------ MODULE BestObject ------------------------------
(***************************************************************************)
(* What looking up an object promises: a request learns the files to look  *)
(* at, each of them gets a result, in any order, and the answer is the     *)
(* most suitable file, the one listed first among equals.  An error is the *)
(* answer only if no file is suitable.                                     *)
(***************************************************************************)
EXTENDS Integers, Sequences

CONSTANTS Requests, Files

VARIABLES order,     \* per request, the files it looks at
          outcome,   \* per request and file, how suitable the file turned out
          answer

\* Lower is better, Useless is never taken.
Useless == 4
Pending == -1
NoFile  == "nothing"
Unanswered == "unanswered"

Init ==
    /\ order = [r \in Requests |-> <<>>]
    /\ outcome = [r \in Requests |-> [f \in {} |-> Pending]]
    /\ answer = [r \in Requests |-> Unanswered]

\* The files a request looks at, each at most once.
List(r) ==
    /\ order[r] = <<>> /\ outcome[r] = <<>> /\ answer[r] = Unanswered
    /\ \A i \in DOMAIN order'[r] : order'[r][i] \in Files
    /\ \A i, j \in DOMAIN order'[r] : order'[r][i] = order'[r][j] => i = j
    /\ order' = [order EXCEPT ![r] = order'[r]]
    /\ outcome' = [outcome EXCEPT ![r] = [f \in {order'[r][i] : i \in DOMAIN order'[r]} |-> Pending]]
    /\ UNCHANGED answer

Resolve(r, f) ==
    /\ outcome[r][f] = Pending
    /\ outcome'[r][f] \in 0 .. Useless
    /\ outcome' = [outcome EXCEPT ![r][f] = outcome'[r][f]]
    /\ UNCHANGED <<order, answer>>

\* i is a better choice than j
Better(r, i, j) ==
    LET q(k) == outcome[r][order[r][k]]
    IN  q(i) < q(j) \/ (q(i) = q(j) /\ i < j)

Answer(r) ==
    /\ answer[r] = Unanswered
    /\ \A f \in DOMAIN outcome[r] : outcome[r][f] # Pending
    /\ LET suitable == {i \in DOMAIN order[r] : outcome[r][order[r][i]] # Useless}
       IN  \/ suitable = {} /\ answer' = [answer EXCEPT ![r] = NoFile]
           \/ \E i \in suitable : /\ \A j \in suitable \ {i} : Better(r, i, j)
                                  /\ answer' = [answer EXCEPT ![r] = order[r][i]]
    /\ UNCHANGED <<order, outcome>>

Next == \E r \in Requests : List(r) \/ Answer(r) \/ \E f \in DOMAIN outcome[r] : Resolve(r, f)

Spec == Init /\ [][Next]_<<order, outcome, answer>>
=============================================================================
