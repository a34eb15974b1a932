---------------------------- MODULE AtomicIngest ----------------------------
(***************************************************************************)
(* What the two ingestion endpoints promise, with no handler, no           *)
(* connection and no transaction in sight.  A request is received, its     *)
(* rows reach the transactions table in one step or never, and the answer  *)
(* agrees with what happened: created only after the rows are in, invalid  *)
(* only if they never will be.  An error answer, or no answer, promises    *)
(* nothing: the rows may be in already, or arrive later.                   *)
(***************************************************************************)
EXTENDS Naturals

CONSTANTS Request,       \* HTTP requests, a client's retry being one of its own
          RowsOf         \* the set of rows each request stands for

VARIABLES received,      \* requests the server has begun to handle
          answer,        \* how each request ended, as its client may see it
          table          \* the rows of the transactions table

vars == <<received, answer, table>>

Outcome == {"none", "created", "invalid", "error", "lost"}

Init == /\ received = {}
        /\ answer = [r \in Request |-> "none"]
        /\ table = {}

Receive(r) == /\ r \notin received
              /\ received' = received \cup {r}
              /\ \/ answer' = answer
                 \/ answer' = [answer EXCEPT ![r] = "invalid"]
              /\ UNCHANGED table

Store(r) == /\ r \in received
            /\ answer[r] \in {"none", "error", "lost"}
            /\ RowsOf[r] \cap table = {}
            /\ table' = table \cup RowsOf[r]
            /\ UNCHANGED <<received, answer>>

\* A crash takes the answers of several requests away at once.
Reply(R, how) == /\ R \subseteq {r \in received : answer[r] = "none"}
                 /\ how = "created" => \A r \in R : RowsOf[r] \subseteq table
                 /\ how = "invalid" => \A r \in R : RowsOf[r] \cap table = {}
                 /\ answer' = [r \in Request |-> IF r \in R THEN how ELSE answer[r]]
                 /\ UNCHANGED <<received, table>>

Next == \/ \E r \in Request : Receive(r) \/ Store(r)
        \/ \E R \in SUBSET Request, how \in Outcome \ {"none"} : Reply(R, how)

Spec == Init /\ [][Next]_vars
=============================================================================
