------------------------------ MODULE Requests ------------------------------
(***************************************************************************)
(* The HTTP requests of the back end's plainer services.  Every request is *)
(* a process that answers one body; between two awaits of its handler any  *)
(* other request may run.  A handler's step is one database statement, or  *)
(* one commit when the handler runs a transaction.                         *)
(*                                                                         *)
(* A service keeps its tables in variables of its own.  A row that a       *)
(* request inserts is named after the request.                             *)
(***************************************************************************)
EXTENDS Integers, FiniteSets

CONSTANTS
    Request,
    Scenario,  \* the mixes of requests: what they ask for, and how many come
    Nothing

VARIABLES
    body,      \* what each request asks for
    pc,        \* where its handler is
    mem,       \* what it has read and still uses
    lock       \* the advisory locks and the row locks its transaction holds

requests == <<body, pc, mem, lock>>

NoBody == [op |-> "none"]

Mixes(s) ==
    {mix \in [Request -> s.bodies \cup {NoBody}] :
        Cardinality({r \in Request : mix[r] # NoBody}) <= s.atMost}

RequestsInit ==
    /\ body \in UNION {Mixes(s) : s \in Scenario}
    /\ pc = [r \in Request |-> IF body[r] = NoBody THEN "done" ELSE "start"]
    /\ mem = [r \in Request |-> Nothing]
    /\ lock = [r \in Request |-> {}]

At(r, op, l) == pc[r] = l /\ body[r].op = op

Goto(r, l) == pc' = [pc EXCEPT ![r] = l]

(* The fields of a row, or of what has been read, with some of them given  *)
(* anew or added.                                                          *)
Merged(row, given) ==
    [f \in DOMAIN row \cup DOMAIN given |-> IF f \in DOMAIN given THEN given[f] ELSE row[f]]

(* The handler goes on.                                                    *)
Await(r, l) == Goto(r, l) /\ UNCHANGED <<body, mem, lock>>

(* It goes on with what it has read.                                       *)
Keep(r, l, seen) ==
    /\ Goto(r, l)
    /\ mem' = [mem EXCEPT ![r] = seen]
    /\ UNCHANGED <<body, lock>>

Free(k) == \A r \in Request : k \notin lock[r]

Take(r, k, l) ==
    /\ Free(k)
    /\ lock' = [lock EXCEPT ![r] = @ \cup {k}]
    /\ Goto(r, l)
    /\ UNCHANGED <<body, mem>>

(* The request is answered, or refused; its locks are released.            *)
Finish(r) ==
    /\ Goto(r, "done")
    /\ mem' = [mem EXCEPT ![r] = Nothing]
    /\ lock' = [lock EXCEPT ![r] = {}]
    /\ UNCHANGED body

(* A crash, a lost connection or a transaction's time limit, between two   *)
(* statements: what was committed stays.                                   *)
Abort(r) ==
    /\ pc[r] \notin {"start", "done", "failed"}
    /\ Goto(r, "failed")
    /\ mem' = [mem EXCEPT ![r] = Nothing]
    /\ lock' = [lock EXCEPT ![r] = {}]
    /\ UNCHANGED body

AllAnswered == \A r \in Request : pc[r] \in {"done", "failed"}
=============================================================================
