--------------------------- MODULE ScriptProgram ----------------------------
(***************************************************************************)
(* What the writer of a script is promised by the comment at the head of   *)
(* HexCommand.c: lines are numbered from 1 and run one after the other; a  *)
(* call with condition 0 goes on to the next line, one with condition 1 to *)
(* line aa when the function answers true and to line bb otherwise.        *)
(***************************************************************************)
EXTENDS Naturals, Sequences

VARIABLES program,    \* the lines that are run
          at,         \* the number of the line that is run next
          answer      \* what the last function called has answered

IsCall(line) == line.kind = "call" /\ line.aa >= 1 /\ line.bb >= 1

Following(line, n, ok) == IF line.condition = 0 THEN n + 1
                          ELSE IF ok THEN line.aa ELSE line.bb

Init == at = 1 /\ answer = FALSE

Call == /\ at \in DOMAIN program /\ IsCall(program[at])
        /\ answer' \in BOOLEAN
        /\ at' = Following(program[at], at, answer')

Pass == /\ at \in DOMAIN program /\ ~IsCall(program[at])
        /\ at' = at + 1
        /\ UNCHANGED answer

Next == (Call \/ Pass) /\ UNCHANGED program

Spec == Init /\ [][Next]_<<program, at, answer>>
=============================================================================
