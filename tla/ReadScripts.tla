---------------------------- MODULE ReadScripts -----------------------------
(***************************************************************************)
(* The script reader of FileOperation/read_scripts.c with the command      *)
(* interpreter of HexCommand.c and the functions of CalledByScripts.c.     *)
(* ReadScriptsInit loads the lines of a file; every tick of timer1 runs    *)
(* the reader's state machine once.  A line is kept as what CommandAnalysis*)
(* makes of it: a wait, a call with its conditions, some other command, or *)
(* nothing known; ":end" is nothing known too.                             *)
(***************************************************************************)
EXTENDS Naturals, Sequences

CONSTANTS Files,                \* the files there may be: sequences of lines
          MaxCommandReadTimes,
          MaxParam              \* bound: the largest number in a line

\* What is asked of the constants.
ReadScriptsAssumption == /\ MaxCommandReadTimes \in Nat \ {0, 1}
                         /\ MaxParam \in Nat

VARIABLES CmdLine, isCommandReadFinished,
          rs, commandLineNum, command, wait_time, wait_time_counter,
          param, buf0, buf1,    \* SFP: param_from_script, buf_8[0], buf_8[1]
          answer,               \* history: the answer of the last function
          asked                 \* history: LoopSpecificTimes calls of a loop

file   == <<CmdLine, isCommandReadFinished>>
reader == <<rs, commandLineNum, command, wait_time, wait_time_counter>>
SFP    == <<param, buf0, buf1>>
vars   == <<file, reader, SFP, answer, asked>>

MaxcommandLineNum == Len(CmdLine)

TypeOK == /\ MaxcommandLineNum <= MaxCommandReadTimes
          /\ isCommandReadFinished \in BOOLEAN
          /\ rs \in {"Idle", "Read", "Wait", "Stop"}
          /\ commandLineNum \in 0 .. MaxCommandReadTimes + MaxParam
          /\ command \in {"UnknowCommand", "KnowCommand", "Wait", "NoCommandAnyMore"}
          /\ wait_time \in 0 .. MaxParam
          /\ wait_time_counter \in 0 .. MaxParam + 1
          /\ {param, buf0, buf1} \subseteq 0 .. MaxParam
          /\ answer \in BOOLEAN
          /\ asked \in 0 .. MaxParam

(* ReadScriptsInit on one of the files: reading stops at ":end" or when    *)
(* the table is full, and has finished only then.                          *)
EndOf(f) == {n \in DOMAIN f : f[n].kind = "end" \/ n = MaxCommandReadTimes}
Loaded(f) == LET n == CHOOSE n \in EndOf(f) : \A m \in EndOf(f) : n <= m
             IN  IF EndOf(f) = {} THEN f ELSE SubSeq(f, 1, n)

Init == /\ \E f \in Files : /\ CmdLine = Loaded(f)
                            /\ isCommandReadFinished = (EndOf(f) # {})
        /\ rs = "Idle" /\ commandLineNum = 0
        /\ command = "UnknowCommand" /\ wait_time = 0 /\ wait_time_counter = 0
        /\ param = 0 /\ buf0 = 0 /\ buf1 = 0
        /\ answer = FALSE /\ asked = 0

-----------------------------------------------------------------------------
Line == CmdLine[commandLineNum + 1]

At(state) == isCommandReadFinished /\ rs = state

StateIdle == /\ At("Idle")
             /\ rs' = "Read"
             /\ UNCHANGED <<file, commandLineNum, command, wait_time,
                            wait_time_counter, SFP, answer, asked>>

\* GetCommandInfoFromCmdLine: the last line loaded is not a command.
NoLineAnyMore == \/ commandLineNum + 1 >= MaxCommandReadTimes
                 \/ commandLineNum + 1 >= MaxcommandLineNum

ReadEnd == /\ At("Read") /\ NoLineAnyMore
           /\ command' = "NoCommandAnyMore"
           /\ rs' = "Stop"
           /\ UNCHANGED <<file, commandLineNum, wait_time, wait_time_counter,
                          SFP, answer, asked>>

ReadLine == At("Read") /\ ~NoLineAnyMore /\ UNCHANGED file

ReadWait == /\ ReadLine /\ Line.kind = "wait"
            /\ command' = "Wait" /\ wait_time' = Line.time
            /\ wait_time_counter' = 0
            /\ commandLineNum' = commandLineNum + 1
            /\ rs' = "Wait"
            /\ UNCHANGED <<SFP, answer, asked>>

\* A slip: the reader does not move on from it.
StaysAtUnknown == /\ ReadLine /\ Line.kind = "unknown"
                  /\ command' = "UnknowCommand"
                  /\ rs' = "Idle"
                  /\ UNCHANGED <<commandLineNum, wait_time, wait_time_counter,
                                 SFP, answer, asked>>

\* Neither a wait nor a command.
ReadUnknown == /\ ReadLine /\ Line.kind = "unknown"
               /\ command' = "UnknowCommand"
               /\ commandLineNum' = commandLineNum + 1
               /\ rs' = "Idle"
               /\ UNCHANGED <<wait_time, wait_time_counter, SFP, answer, asked>>

ReadCommand == /\ ReadLine
               /\ command' = "KnowCommand"
               /\ UNCHANGED <<rs, wait_time, wait_time_counter>>

\* ConditionalDoAsCommand: another command, or one without proper lines.
ReadOther == /\ ReadCommand
             /\ Line.kind = "other" \/ (Line.kind = "call" /\ (Line.aa < 1 \/ Line.bb < 1))
             /\ commandLineNum' = commandLineNum + 1
             /\ UNCHANGED <<SFP, answer, asked>>

-----------------------------------------------------------------------------
\* CalledByScripts.c
ScriptsFunctionInitial == /\ param' = 0 /\ buf0' = 0 /\ buf1' = 0
                          /\ answer' = TRUE
                          /\ asked' = 0

ForNow == /\ param' = Line.param /\ buf0' = 0 /\ buf1' = Line.param
          /\ answer' = TRUE
          /\ asked' = 0

\* A slip: the counter is compared before it has counted this call.
LoopOnceMore == /\ param' = Line.param
                /\ answer' = (buf0 >= buf1)
                /\ buf0' = IF buf0 >= buf1 THEN 0 ELSE buf0 + 1
                /\ UNCHANGED buf1
                /\ asked' = IF answer' THEN 0 ELSE asked + 1

LoopSpecificTimes == /\ param' = Line.param
                     /\ answer' = (buf0 + 1 >= buf1)
                     /\ buf0' = IF buf0 + 1 >= buf1 THEN 0 ELSE buf0 + 1
                     /\ UNCHANGED buf1
                     /\ asked' = IF answer' THEN 0 ELSE asked + 1

\* A number that is in no line of the table answers false too.
Function4 == /\ param' = Line.param /\ answer' = FALSE
             /\ UNCHANGED <<buf0, buf1, asked>>

CallFunction == \/ Line.function = "Initial" /\ ScriptsFunctionInitial
                \/ Line.function = "ForNow" /\ ForNow
                \/ Line.function = "Loop" /\ LoopSpecificTimes
                \/ Line.function \notin {"Initial", "ForNow", "Loop"} /\ Function4

\* A slip: the lines of a jump are counted from 0.
JumpFromZero(ok) == IF ok THEN Line.aa ELSE Line.bb
JumpTo(ok)       == IF ok THEN Line.aa - 1 ELSE Line.bb - 1

\* The reader has already moved on when ConditionalDoAsCommand runs.
ReadCall == /\ ReadCommand
            /\ Line.kind = "call" /\ Line.aa >= 1 /\ Line.bb >= 1
            /\ CallFunction
            /\ commandLineNum' = IF Line.condition = 0 THEN commandLineNum + 1
                                                       ELSE JumpTo(answer')

\* A slip: a wait of 0 is never over.
WaitUntilEqual == /\ At("Wait")
                  /\ wait_time_counter' = wait_time_counter + 1
                  /\ rs' = IF wait_time_counter + 1 = wait_time THEN "Idle" ELSE "Wait"
                  /\ UNCHANGED <<file, commandLineNum, command, wait_time,
                                 SFP, answer, asked>>

StateWait == /\ At("Wait")
             /\ wait_time_counter' = wait_time_counter + 1
             /\ rs' = IF wait_time_counter + 1 >= wait_time THEN "Idle" ELSE "Wait"
             /\ UNCHANGED <<file, commandLineNum, command, wait_time,
                            SFP, answer, asked>>

StateStop == At("Stop") /\ UNCHANGED vars

NotReady == ~isCommandReadFinished /\ UNCHANGED vars

\* ConditionalScriptCommandHandle
Next == \/ NotReady
        \/ StateIdle
        \/ ReadEnd
        \/ ReadWait
        \/ ReadUnknown
        \/ ReadOther
        \/ ReadCall
        \/ StateWait
        \/ StateStop

Spec == Init /\ [][Next]_vars

\* Every tick of timer1 calls it.
FairSpec == Spec /\ WF_vars(Next)

-----------------------------------------------------------------------------
(* The program is what stands before ":end", as far as the table goes, and *)
(* it is run as HexCommand.c:17 says.                                      *)
Program == IF isCommandReadFinished
           THEN SubSeq(CmdLine, 1, MaxcommandLineNum - 1) ELSE << >>
Refinement == INSTANCE ScriptProgram WITH program <- Program,
                                          at <- commandLineNum + 1
ImplementsProgram == Refinement!Spec

(* A loop ends with the call its ForNow said, the first one for 0 and 1,   *)
(* wherever the script jumps in between and however it comes back to it.   *)
LoopCalled == At("Read") /\ ~NoLineAnyMore
              /\ Refinement!IsCall(Line) /\ Line.function = "Loop"
LoopRunsItsTimes ==
  [][LoopCalled => (answer' <=> asked + 1 = IF buf1 = 0 THEN 1 ELSE buf1)]_vars

(* A script comes to its end when its jumps lead forward, except for loops *)
(* of which none has another function of the loop counter in it: whatever  *)
(* its waits, unknown lines and wrong commands, and also without ForNow.   *)
Jump(n)      == Refinement!IsCall(Program[n]) /\ Program[n].condition # 0
Forward(n)   == Program[n].aa > n /\ Program[n].bb > n
ProperLoop(n) ==
  /\ Program[n].function = "Loop" /\ Program[n].aa > n
  /\ \A k \in Program[n].bb .. n - 1 :
       Refinement!IsCall(Program[k]) => Program[k].function = "Function4"
ScriptEnds ==
  isCommandReadFinished
    /\ (\A n \in DOMAIN Program : Jump(n) => Forward(n) \/ ProperLoop(n))
  ~> rs = "Stop"
=============================================================================
