--------------------------- MODULE MCFlashEvents ---------------------------
(* Requests on both sides of every check: in the flash, before and behind  *)
(* it, with an end that wraps, of a wrong length and at a wrong address.   *)
EXTENDS FlashEvents, TLC

R(op, addr, length) == [op |-> op, addr |-> addr, length |-> length]

\* Callers and nodes are interchangeable.
Alike == Permutations(Callers) \cup Permutations(Nodes)

MCRequests == {R("write", 8, 4), R("erase", 8, 4), R("read", 14, 6),
               R("write", 2, 2), R("read", 10, 4), R("read", 4, 0),
               R("write", 4, 1), R("erase", 6, 2), R("read", 5, 2)}

C(page, sector, length) == [page |-> page, sector |-> sector, length |-> length]

\* Page 4 wraps to page 0; page 2 does not exist, nor does sector 2 of a page.
MCSectorCalls == {C(0, 0, 1), C(4, 0, 2), C(0, 1, 2), C(1, 0, 2),
                  C(0, 2, 2), C(2, 0, 2), C(1, 1, 0), C(1, 1, 3)}
=============================================================================
