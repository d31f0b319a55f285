----------------------------- MODULE MCScripts ------------------------------
(* The two ways to run a script in one run: the reader of a file, with the *)
(* files of up to four lines over every kind of line, and the bench with   *)
(* its own script.  Each brings a CallFunction of its own, so that a       *)
(* program is built with one of them: a behaviour is of that one, while    *)
(* the other stays as it was initialised.                                  *)
EXTENDS PowerSaving

Plain(kind, time) == [kind |-> kind, time |-> time, function |-> "none",
                      condition |-> 0, aa |-> 1, bb |-> 1, param |-> 0]
CallOf(function, n) == [kind |-> "call", time |-> 0, function |-> function,
                        condition |-> 0, aa |-> 1, bb |-> 1, param |-> n]
JumpLine(function, aa, bb) == [kind |-> "call", time |-> 0, function |-> function,
                               condition |-> 1, aa |-> aa, bb |-> bb, param |-> 0]

Lines == {Plain("wait", 0), Plain("wait", 2), Plain("unknown", 0),
          Plain("other", 0), Plain("end", 0),
          CallOf("Initial", 0), CallOf("ForNow", 0), CallOf("ForNow", 3),
          JumpLine("Loop", 4, 2), JumpLine("Loop", 3, 1),
          JumpLine("Function4", 1, 3), JumpLine("Function4", 4, 0)}

FourLines == UNION {[1 .. n -> Lines] : n \in 0 .. 4}

CONSTANTS MaxCommandReadTimes, MaxParam

VARIABLES built,    \* what this program is built with
          CmdLine, isCommandReadFinished, rs, commandLineNum, command,
          wait_time, wait_time_counter, param, buf0, buf1, answer, asked

Reading == INSTANCE ReadScripts WITH Files <- FourLines

ASSUME ReadScriptsAssumption == Reading!ReadScriptsAssumption

readerVars == <<CmdLine, isCommandReadFinished, rs, commandLineNum, command,
                wait_time, wait_time_counter, param, buf0, buf1, answer, asked>>
scriptVars == <<built, vars, readerVars>>

ScriptInit == /\ built \in {"bench", "reader"}
              /\ Init
              /\ Reading!Init
              /\ built = "bench" => CmdLine = << >>

ScriptNext == \/ built = "bench" /\ Next /\ UNCHANGED <<built, readerVars>>
              \/ built = "reader" /\ Reading!Next /\ UNCHANGED <<built, vars>>

\* Both are called by timer1_callback, which the timer thread repeats.
ScriptSpec == ScriptInit /\ [][ScriptNext]_scriptVars /\ WF_scriptVars(ScriptNext)

ReaderTypeOK      == Reading!TypeOK
ImplementsProgram == Reading!ImplementsProgram
LoopRunsItsTimes  == Reading!LoopRunsItsTimes
ScriptEnds        == Reading!ScriptEnds

\* BenchGoesRound, in a program with the bench.
BenchRounds == built = "bench" => BenchGoesRound
=============================================================================
