\* Three slots and two queues: enough for AppendAll of a two-slot queue
\* onto a non-empty one, for a queue appended to itself, and for removing
\* the middle slot of three.  A 5-bit int around a 3-bit clamp range
\* (-4..3) lets a delta of -16 from -4 wrap past the top.
CONSTANTS
    s1 = s1
    s2 = s2
    s3 = s3
    q1 = q1
    q2 = q2
    w1 = w1
    w2 = w2
    Nil = Nil
    Slots <- MCSlots
    Queues <- MCQueues
    Waiters <- MCWaiters
    IntBits = 5
    LimitBits = 3
    Initials <- MCInitials
    Adjustments <- MCAdjustments
SPECIFICATION ConveyorSpec
INVARIANT ConveyorTypeOK RingWellFormed GateOpenNoWaiters AdjustmentCorrect
PROPERTY ImplementsSlotQueueSpec
