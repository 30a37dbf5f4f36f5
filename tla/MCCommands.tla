------------------------------ MODULE MCCommands ------------------------------
\* Two instances of a command under one key, the key reused for another body,
\* a write-off, and two consumers of one event.
EXTENDS Commands

CONSTANTS c1, c2, c3, c4, e1, e2

Req(key, op, n) == [key |-> key, work |-> [op |-> op, n |-> n]]

MCRequest ==
  [c \in {c1, c2, c3, c4, e1, e2} |->
    CASE c \in {c1, c2} -> Req("K1", "adjust", 3)
      [] c = c3 -> Req("K1", "write-off", 1)
      [] c = c4 -> Req("K2", "write-off", 2)
      [] c \in {e1, e2} -> Req("E1", "reserve", 1)]

=============================================================================
