----------------------------- MODULE Conditional -----------------------------
(***************************************************************************)
(* conditionalSync in src/conveyor/smachine/sync_conditional.go: a gate    *)
(* with an integer state that lets a slot through while state > 0 and      *)
(* otherwise queues it; an adjustment that opens the gate flushes the      *)
(* whole queue.  The queue (waitingQueueController, dependencyQueue) is    *)
(* not in this repository and is modelled from its contract: a FIFO of    *)
(* the waiting slots.  All calls run on the conveyor's worker, one at a   *)
(* time.                                                                   *)
(*                                                                         *)
(* Go's int is IntBits wide and wraps; the gate clamps to the range of a   *)
(* LimitBits-wide int (int32 inside Go's 64-bit int).  The model keeps the *)
(* ratio, not the widths: an int wider than the clamp range, so that a     *)
(* delta can both leave the range and overflow the int.                    *)
(***************************************************************************)
EXTENDS Integers, Sequences, SequencesExt

CONSTANTS Waiters, IntBits, LimitBits, Initials, Adjustments

ASSUME LimitBits < IntBits

GoInt == -(2^(IntBits - 1)) .. 2^(IntBits - 1) - 1
MinLimit == -(2^(LimitBits - 1))   \* math.MinInt32
MaxLimit == 2^(LimitBits - 1) - 1  \* math.MaxInt32

\* Two's-complement addition of Go's int.
Wrap(x) == ((x + 2^(IntBits - 1)) % 2^IntBits) - 2^(IntBits - 1)

VARIABLES
    state,  \* holdingQueueController.state
    waitq,  \* the controller's queue: the waiting slots, oldest first
    phase   \* slot -> "idle", "waiting" (queued), "woken" (flushed)

condVars == <<state, waitq, phase>>

\* holdingQueueController.isOpen
isOpen(s) == s > 0

\* Mutant: the overflow test of a negative delta is dropped.
WrappedDownUnchecked(current, sum, min) ==
    IF sum < min THEN <<TRUE, min>> ELSE <<TRUE, sum>>

\* A negative delta: below min, or wrapped past the top, gives min.
WrappedDown(current, sum, min) ==
    IF sum < min \/ sum > current THEN <<TRUE, min>> ELSE <<TRUE, sum>>

\* applyWrappedAdjustment: <<changed, new value>>.
applyWrappedAdjustment(current, adjustment, min, max, absolute) ==
    IF absolute
    THEN IF current = adjustment THEN <<FALSE, current>>
         ELSE IF adjustment < min THEN <<TRUE, min>>
         ELSE IF adjustment > max THEN <<TRUE, max>>
         ELSE <<TRUE, adjustment>>
    ELSE IF adjustment = 0 THEN <<FALSE, current>>
    ELSE LET sum == Wrap(adjustment + current) IN
         IF adjustment < 0 THEN WrappedDown(current, sum, min)
         ELSE IF sum > max \/ sum < current THEN <<TRUE, max>>
         ELSE <<TRUE, sum>>

\* NewConditional(initial): AdjustLimit(initial, false) from state 0, with
\* nobody waiting yet.
CondInit ==
    /\ \E initial \in Initials :
          state = applyWrappedAdjustment(0, initial, MinLimit, MaxLimit, FALSE)[2]
    /\ waitq = <<>>
    /\ phase = [w \in Waiters |-> "idle"]

\* Mutant: FlushAllAsLinks hands out only the oldest waiter.
FlushFirst ==
    /\ waitq' = Tail(waitq)
    /\ phase' = [w \in Waiters |-> IF w = Head(waitq) THEN "woken" ELSE phase[w]]

\* queue.FlushAllAsLinks: every waiter, in queue order, becomes ready.
FlushAll ==
    /\ waitq' = <<>>
    /\ phase' = [w \in Waiters |-> IF w \in ToSet(waitq) THEN "woken" ELSE phase[w]]

\* setLimit: store the new state; if that opens the gate, flush the queue.
setLimit(limit) ==
    /\ state' = limit
    /\ IF isOpen(limit) /\ waitq # <<>> THEN FlushAll ELSE UNCHANGED <<waitq, phase>>

\* CreateDependency from a slot: pass while open, else join the queue.
CreateDependency(w) ==
    /\ phase[w] = "idle"
    /\ IF isOpen(state) THEN UNCHANGED condVars
       ELSE /\ waitq' = Append(waitq, w)
            /\ phase' = [phase EXCEPT ![w] = "waiting"]
            /\ UNCHANGED state

\* AdjustLimit (from NewDelta / NewValue applied by a slot).
AdjustLimit(adjustment, absolute) ==
    LET r == applyWrappedAdjustment(state, adjustment, MinLimit, MaxLimit, absolute) IN
    /\ r[1]
    /\ setLimit(r[2])

\* holdingQueueController.Release: removeFn takes the slot's entry out of
\* the queue; the slot gives up its dependency.
Release(w) ==
    /\ phase[w] \in {"waiting", "woken"}
    /\ waitq' = Remove(waitq, w)
    /\ phase' = [phase EXCEPT ![w] = "idle"]
    /\ UNCHANGED state

CondNext ==
    \/ \E w \in Waiters : CreateDependency(w) \/ Release(w)
    \/ \E a \in Adjustments, absolute \in BOOLEAN : AdjustLimit(a, absolute)

CondSpec == CondInit /\ [][CondNext]_condVars

-----------------------------------------------------------------------------
(* Properties                                                              *)

CondTypeOK ==
    /\ state \in MinLimit..MaxLimit
    /\ waitq \in Seq(Waiters)
    /\ phase \in [Waiters -> {"idle", "waiting", "woken"}]

\* The reference: the adjusted value, clamped to [MinInt32, MaxInt32] as
\* if Go's int never wrapped; no change for an equal absolute value or a
\* zero delta.
Clamp(x) == IF x < MinLimit THEN MinLimit ELSE IF x > MaxLimit THEN MaxLimit ELSE x

RefAdjustment(current, adjustment, absolute) ==
    IF absolute
    THEN IF adjustment = current THEN <<FALSE, current>> ELSE <<TRUE, Clamp(adjustment)>>
    ELSE IF adjustment = 0 THEN <<FALSE, current>>
    ELSE <<TRUE, Clamp(current + adjustment)>>

\* applyWrappedAdjustment saturates instead of wrapping: from every state
\* the gate reaches, every delta or value Go's int can hold gives the
\* clamped exact result, the overflow tests included.
AdjustmentCorrect ==
    \A a \in GoInt, absolute \in BOOLEAN :
        applyWrappedAdjustment(state, a, MinLimit, MaxLimit, absolute)
            = RefAdjustment(state, a, absolute)

\* Nobody waits at an open gate: a slot is queued only while the gate is
\* closed, and every adjustment that opens it hands out the whole queue.
\* So the check in holdingQueueController.Release (open with a non-empty
\* queue panics) never fires, and no waiter sleeps behind an open gate.
GateOpenNoWaiters == isOpen(state) => waitq = <<>>
=============================================================================
