---------------------------- MODULE RequestsProofs ----------------------------
(***************************************************************************)
(* What holds of every service's requests: a step moves its own request,   *)
(* and a lock is taken only when nobody holds it.                          *)
(***************************************************************************)
EXTENDS Requests, FiniteSetTheorems, TLAPS

Framed == DOMAIN pc = Request /\ DOMAIN mem = Request /\ DOMAIN lock = Request

(* Nobody holds what another holds.                                        *)
Apart == \A r, q \in Request : r # q => lock[r] \cap lock[q] = {}

Ended(r) == pc[r] \in {"done", "failed"}

(* What the request r does to the requests.                                *)
Moves(r) ==
    /\ body' = body
    /\ \E l : pc' = [pc EXCEPT ![r] = l]
    /\ mem' = mem \/ \E m : mem' = [mem EXCEPT ![r] = m]
    /\ \/ lock' = lock \/ lock' = [lock EXCEPT ![r] = {}]
       \/ \E k : Free(k) /\ lock' = [lock EXCEPT ![r] = @ \cup {k}]

LEMMA FinishMoves == ASSUME NEW r, Finish(r) PROVE Moves(r)
BY DEF Finish, Goto, Moves

LEMMA AwaitMoves == ASSUME NEW r, NEW l, Await(r, l) PROVE Moves(r)
BY DEF Await, Goto, Moves

LEMMA KeepMoves == ASSUME NEW r, NEW l, NEW seen, Keep(r, l, seen) PROVE Moves(r)
BY DEF Keep, Goto, Moves

LEMMA TakeMoves == ASSUME NEW r, NEW k, NEW l, Take(r, k, l) PROVE Moves(r)
BY DEF Take, Goto, Moves

LEMMA AbortMoves == ASSUME NEW r, Abort(r) PROVE Moves(r)
BY DEF Abort, Goto, Moves

(* The others are left alone, and locks stay apart.                        *)
LEMMA OthersStay ==
    ASSUME Framed, NEW r \in Request, Moves(r)
    PROVE  /\ Framed' /\ body' = body
           /\ \A q \in Request \ {r} :
                pc'[q] = pc[q] /\ mem'[q] = mem[q] /\ lock'[q] = lock[q]
           /\ Apart => Apart'
<1> USE DEF Framed
<1>1. DOMAIN pc' = Request /\ \A q \in Request \ {r} : pc'[q] = pc[q]
  BY DEF Moves
<1>2. DOMAIN mem' = Request /\ \A q \in Request \ {r} : mem'[q] = mem[q]
  <2>1. CASE mem' = mem
    BY <2>1
  <2>2. ASSUME NEW m, mem' = [mem EXCEPT ![r] = m]
        PROVE  DOMAIN mem' = Request /\ \A q \in Request \ {r} : mem'[q] = mem[q]
    BY <2>2
  <2> QED BY <2>1, <2>2 DEF Moves
<1>3. DOMAIN lock' = Request /\ \A q \in Request \ {r} : lock'[q] = lock[q]
  BY DEF Moves
<1>4. ASSUME Apart PROVE Apart'
  <2>1. CASE lock' = lock
    BY <2>1, <1>4 DEF Apart
  <2>2. CASE lock' = [lock EXCEPT ![r] = {}]
    BY <2>2, <1>4, <1>3 DEF Apart
  <2>3. ASSUME NEW k, Free(k), lock' = [lock EXCEPT ![r] = @ \cup {k}] PROVE Apart'
    <3>1. lock'[r] = lock[r] \cup {k} /\ \A q \in Request : k \notin lock[q]
      BY <2>3 DEF Free
    <3> QED BY <3>1, <1>3, <1>4 DEF Apart
  <2> QED BY <2>1, <2>2, <2>3 DEF Moves
<1> QED BY <1>1, <1>2, <1>3, <1>4 DEF Moves

(* At the start nobody has done anything.                                  *)
LEMMA RequestsStart ==
    ASSUME RequestsInit
    PROVE  /\ Framed /\ Apart
           /\ \A r \in Request : /\ pc[r] \in {"start", "done"} /\ lock[r] = {} /\ mem[r] = Nothing
                                 /\ body[r] = NoBody \/ \E s \in Scenario : body[r] \in s.bodies
<1> USE DEF RequestsInit
<1>1. PICK s \in Scenario : body \in Mixes(s)
  OBVIOUS
<1>2. \A r \in Request : body[r] \in s.bodies \cup {NoBody}
  BY <1>1 DEF Mixes
<1> QED BY <1>2 DEF Framed, Apart
(* Where a request is after it has moved.                                  *)
LEMMA FinishGoes ==
    ASSUME Framed, NEW r \in Request, Finish(r)
    PROVE  pc'[r] = "done" /\ mem'[r] = Nothing /\ lock'[r] = {} /\ body' = body
BY DEF Finish, Goto, Framed

LEMMA AwaitGoes ==
    ASSUME Framed, NEW r \in Request, NEW l, Await(r, l)
    PROVE  pc'[r] = l /\ mem' = mem /\ lock' = lock /\ body' = body
BY DEF Await, Goto, Framed

LEMMA KeepGoes ==
    ASSUME Framed, NEW r \in Request, NEW l, NEW seen, Keep(r, l, seen)
    PROVE  pc'[r] = l /\ mem'[r] = seen /\ lock' = lock /\ body' = body
BY DEF Keep, Goto, Framed

LEMMA TakeGoes ==
    ASSUME Framed, NEW r \in Request, NEW k, NEW l, Take(r, k, l)
    PROVE  /\ pc'[r] = l /\ mem' = mem /\ body' = body
           /\ lock'[r] = lock[r] \cup {k} /\ Free(k)
BY DEF Take, Goto, Framed

LEMMA AbortGoes ==
    ASSUME Framed, NEW r \in Request, Abort(r)
    PROVE  pc'[r] = "failed" /\ lock'[r] = {} /\ body' = body /\ ~Ended(r)
BY DEF Abort, Goto, Framed, Ended
=============================================================================
