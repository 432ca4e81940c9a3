\* One slot, two threads, uploads on the event loop.
SPECIFICATION Spec
CONSTANTS
    s1 = s1
    t1 = t1
    t2 = t2
    ada = ada
    bob = bob
    x = x
    y = y
    Loop = Loop
    NoBytes = NoBytes
    NoSlot = NoSlot
    Slots = {s1}
    Bytes = {x, y}
    Threads = {t1, t2}
    Users = {ada, bob}
    Owner <- AdaOwns
SYMMETRY Symmetry
INVARIANTS
    TicketsWork
    AnswersStand
    IntactUnlessCrossed
CHECK_DEADLOCK FALSE
