\* Three slots and four structures: the table fills up, and a slot is used again.
CONSTANTS
    THREAD_NUM = 3
    NTHREAD_CHILD = 2
    MaxThreads = 4
SPECIFICATION Spec
INVARIANTS TypeOK KeepsItsSlot RunsInItsSlot ForkAnswers
