----------------------------- MODULE IDLockSpec -----------------------------
(***************************************************************************)
(* What the IDLocker interface (src/ledger/storage/lock.go) promises: one  *)
(* read/write lock per record id.  A thread holds at most one id; a writer *)
(* excludes everybody else on that id, readers exclude writers.            *)
(***************************************************************************)
CONSTANTS Ids, Threads, Nil

Modes == {"W", "R"}

VARIABLE hold   \* thread -> <<id, mode>> it holds, or Nil

Holders(id, m) == {t \in Threads : hold[t] # Nil /\ hold[t] = <<id, m>>}

\* A writer gets the id when nobody holds it; a reader when no writer does.
Free(id, m) ==
    IF m = "W" THEN \A t \in Threads : hold[t] = Nil \/ hold[t][1] # id
    ELSE Holders(id, "W") = {}

Init == hold = [t \in Threads |-> Nil]

Acquire(t, id, m) ==
    /\ hold[t] = Nil /\ Free(id, m)
    /\ hold' = [hold EXCEPT ![t] = <<id, m>>]

Release(t) ==
    /\ hold[t] # Nil
    /\ hold' = [hold EXCEPT ![t] = Nil]

Next ==
    \E t \in Threads : Release(t) \/ \E id \in Ids, m \in Modes : Acquire(t, id, m)

Spec == Init /\ [][Next]_hold
=============================================================================
