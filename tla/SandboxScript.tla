---------------------------- MODULE SandboxScript ----------------------------
(***************************************************************************)
(* The scripts that exercise a package inside the sandbox                  *)
(* (sandboxes/dynamicanalysis/analyze-python.py, -rust.py, -java.py and    *)
(* -wolfi.py).  Each is told a phase and runs the steps of that phase in   *)
(* turn.  The Python script's execute step calls every function and class  *)
(* of every module, and the methods of what they return, each under an     *)
(* alarm of ten seconds.                                                   *)
(***************************************************************************)
EXTENDS Naturals, Sequences, FiniteSets

CONSTANTS
    PyModules,     \* modules of the package, in the order of its file list
    Unimportable,  \* modules that raise when they are imported
    MembersOf,     \* module -> its functions and classes, in order
    ModuleOf,      \* type -> the module that defines it
    MethodsOf,     \* type -> its methods but __init__, in order
    Returns,       \* function or method -> the types it may return
    NoneType,      \* the type of None
    Unbindable,    \* callables that cannot be given mock arguments
    Stubborn,      \* callables that catch the timeout and go on
    NoCall         \* no call is in progress

Scripts == {"python", "rust", "java", "wolfi"}
Types == DOMAIN MethodsOf

ASSUME ScriptAssumption ==
    /\ PyModules \in Seq(DOMAIN MembersOf \cup Unimportable)
    /\ \A m \in DOMAIN MembersOf : MembersOf[m] \in Seq(DOMAIN Returns \cup Types)
    /\ NoneType \notin Types
    /\ \A t \in Types : MethodsOf[t] \in Seq(DOMAIN Returns)
    /\ \A c \in DOMAIN Returns : Returns[c] \subseteq Types \cup {NoneType}
    /\ NoCall \notin DOMAIN Returns \cup Types
    /\ Types \cap DOMAIN Returns = {}
    /\ DOMAIN ModuleOf = Types

VARIABLES
    script, phase,   \* the script and the phase it was told
    sx,              \* "start", "steps", "modules", "module", "exited", "killed"
    todo,            \* steps of the phase that are left
    modulesLeft,     \* modules the execute step has not reached
    module,          \* the module at hand
    members,         \* its members do_execute has not reached
    stack,           \* methods left, a frame for every try_call_methods
    call,            \* the callable in progress; a class is its type
    seenTypes, instantiated,
    explored,        \* how often a type was investigated in this module
    alarm,           \* SIGALRM is pending
    handler,         \* what it does: "raise" TimeoutError, or "default"
    lastCall,        \* how the last call that set the alarm ended
    exitCodeOf       \* the script's exit code, 0 before it ends

callVars == <<members, stack, call, seenTypes, instantiated, explored>>
scriptVars == <<script, phase, sx, todo, modulesLeft, module, callVars, alarm, handler,
                lastCall, exitCodeOf>>

(* The table of phases of each script.  The Python script's "all" runs
   execute_module, on the description of the package. *)
Phases(s) ==
    CASE s = "python" -> [all |-> <<"install", "import", "describe">>,
                          install |-> <<"install">>, import |-> <<"import">>,
                          execute |-> <<"execute">>]
      [] s = "wolfi" -> [all |-> <<"install", "run">>, install |-> <<"install">>,
                         execute |-> <<"run">>]
      [] OTHER -> [all |-> <<"install", "build">>, install |-> <<"install">>,
                   import |-> <<"build">>]

ScriptInit ==
    /\ script \in Scripts
    /\ phase \in {"all", "install", "import", "execute", "other"}
    /\ sx = "start" /\ todo = <<>>
    /\ modulesLeft = <<>> /\ module = NoCall
    /\ members = <<>> /\ stack = <<>> /\ call = NoCall
    /\ seenTypes = {} /\ instantiated = {} /\ explored = [t \in Types |-> 0]
    /\ alarm = FALSE /\ handler = "default" /\ lastCall = "none"
    /\ exitCodeOf = 0

Exit(code) ==
    /\ sx' = "exited"
    /\ exitCodeOf' = code

-----------------------------------------------------------------------------
(* main(): the arguments are read, and the steps of the phase looked up.  The
   wolfi script looks for the package in the registry first, and downloads it. *)
ParseArguments ==
    /\ sx = "start"
    /\ IF phase \in DOMAIN Phases(script)
       THEN /\ sx' = "steps"
            /\ todo' = Phases(script)[phase]
            /\ UNCHANGED exitCodeOf
       ELSE Exit(1) /\ UNCHANGED todo
    /\ UNCHANGED <<script, phase, modulesLeft, module, callVars, alarm, handler, lastCall>>

SearchFails ==
    /\ sx = "start" /\ script = "wolfi"
    /\ Exit(1)
    /\ UNCHANGED <<script, phase, todo, modulesLeft, module, callVars, alarm, handler,
                   lastCall>>

(* The next step.  A failed import or build is logged, and import catches
   everything.  describe makes a Package and calls its __eq__, under alarms that
   are cleared; execute_module catches what the lookup of the description's
   __name__ then raises. *)
StepSucceeds ==
    /\ sx = "steps" /\ todo # <<>> /\ Head(todo) # "execute"
    /\ todo' = Tail(todo)
    /\ UNCHANGED <<script, phase, sx, modulesLeft, module, callVars, alarm, handler,
                   lastCall, exitCodeOf>>

(* A failed installation is raised again. *)
InstallFails ==
    /\ sx = "steps" /\ todo # <<>> /\ Head(todo) = "install"
    /\ Exit(1)
    /\ UNCHANGED <<script, phase, todo, modulesLeft, module, callVars, alarm, handler,
                   lastCall>>

(* So is a failed run of an apk; of the other steps only what they do not catch
   ends the script (no such package, no file list, no archive). *)
RunFails ==
    /\ sx = "steps" /\ todo # <<>> /\ Head(todo) \in {"run", "import", "build", "execute"}
    /\ Exit(1)
    /\ UNCHANGED <<script, phase, todo, modulesLeft, module, callVars, alarm, handler,
                   lastCall>>

StepsEnd ==
    /\ sx = "steps" /\ todo = <<>>
    /\ Exit(0)
    /\ UNCHANGED <<script, phase, todo, modulesLeft, module, callVars, alarm, handler,
                   lastCall>>

ExecutePackage ==
    /\ sx = "steps" /\ todo # <<>> /\ Head(todo) = "execute"
    /\ todo' = Tail(todo)
    /\ modulesLeft' = PyModules
    /\ sx' = "modules"
    /\ UNCHANGED <<script, phase, module, callVars, alarm, handler, lastCall, exitCodeOf>>

(* The next module is imported, which nothing guards here, and its alarm handler
   set. *)
ExecuteModule ==
    /\ sx = "modules" /\ modulesLeft # <<>>
    /\ module' = Head(modulesLeft)
    /\ modulesLeft' = Tail(modulesLeft)
    /\ IF module' \in Unimportable
       THEN Exit(1) /\ UNCHANGED <<callVars, handler>>
       ELSE /\ sx' = "module"
            /\ handler' = "raise"
            /\ members' = MembersOf[module']
            /\ stack' = <<>> /\ call' = NoCall
            /\ seenTypes' = {} /\ instantiated' = {} /\ explored' = [t \in Types |-> 0]
            /\ UNCHANGED exitCodeOf
    /\ UNCHANGED <<script, phase, todo, alarm, lastCall>>

ModulesEnd ==
    /\ sx = "modules" /\ modulesLeft = <<>>
    /\ sx' = "steps"
    /\ UNCHANGED <<script, phase, todo, modulesLeft, module, callVars, alarm, handler,
                   lastCall, exitCodeOf>>

(* do_execute is over, or an exception left it: execute_module catches it and
   restores the default handler; an alarm that is pending stays so. *)
LeaveModule ==
    /\ sx' = "modules"
    /\ handler' = "default"
    /\ members' = <<>> /\ stack' = <<>> /\ call' = NoCall

ModuleEnds ==
    /\ sx = "module" /\ call = NoCall /\ stack = <<>> /\ members = <<>>
    /\ LeaveModule
    /\ UNCHANGED <<script, phase, todo, modulesLeft, module, seenTypes, instantiated,
                   explored, alarm, lastCall, exitCodeOf>>

-----------------------------------------------------------------------------
(* invoke_function: the arguments are bound, then the alarm is set. *)
Invoke(c) ==
    /\ call' = c
    /\ alarm' = IF c \in Unbindable THEN alarm ELSE TRUE
    /\ UNCHANGED <<script, phase, sx, todo, modulesLeft, module, seenTypes, instantiated,
                   explored, handler, lastCall, exitCodeOf>>

NextMethod ==
    /\ sx = "module" /\ call = NoCall /\ stack # <<>>
    /\ IF Head(stack) = <<>>
       THEN /\ stack' = Tail(stack)
            /\ UNCHANGED <<script, phase, sx, todo, modulesLeft, module, members, call,
                           seenTypes, instantiated, explored, alarm, handler, lastCall,
                           exitCodeOf>>
       ELSE /\ stack' = <<Tail(Head(stack))>> \o Tail(stack)
            /\ Invoke(Head(Head(stack)))
            /\ UNCHANGED members

NextMember ==
    /\ sx = "module" /\ call = NoCall /\ stack = <<>> /\ members # <<>>
    /\ members' = Tail(members)
    /\ Invoke(Head(members))
    /\ UNCHANGED stack

\* Mutant: the alarm is not cleared when a call returns.
MutDisarm == UNCHANGED alarm

Disarm == alarm' = FALSE

\* Mutant: a type is marked seen when its methods have been called.
MutMarkSeen(t) == seenTypes' = IF stack = <<>> THEN seenTypes \cup {t} ELSE seenTypes

MarkSeen(t) == seenTypes' = seenTypes \cup {t}

(* A function or a method returns: the methods of a value of an unseen type of
   this module are called next. *)
FunctionReturns ==
    /\ call \in DOMAIN Returns /\ call \notin Unbindable
    /\ Disarm
    /\ lastCall' = "returned"
    /\ call' = NoCall
    /\ \E t \in Returns[call] :
        IF t # NoneType /\ ModuleOf[t] = module /\ t \notin seenTypes
        THEN /\ MarkSeen(t)
             /\ explored' = [explored EXCEPT ![t] = @ + 1]
             /\ stack' = <<MethodsOf[t]>> \o stack
        ELSE UNCHANGED <<seenTypes, explored, stack>>
    /\ UNCHANGED <<script, phase, sx, todo, modulesLeft, module, members, instantiated,
                   handler, exitCodeOf>>

(* An instance is made: its methods are called unless the class was met under
   another name. *)
ClassReturns ==
    /\ call \in Types /\ call \notin Unbindable
    /\ Disarm
    /\ lastCall' = "returned"
    /\ call' = NoCall
    /\ instantiated' = instantiated \cup {call}
    /\ stack' = IF call \in instantiated THEN stack ELSE <<MethodsOf[call]>> \o stack
    /\ UNCHANGED <<script, phase, sx, todo, modulesLeft, module, members, seenTypes,
                   explored, handler, exitCodeOf>>

(* The call returns, and do_execute raises over what it returned: its repr or its
   members cannot be had, or the instance is not one of the class. *)
ResultRaises ==
    /\ call # NoCall /\ call \notin Unbindable
    /\ call \in DOMAIN Returns => Returns[call] # {NoneType}
    /\ Disarm
    /\ lastCall' = "returned"
    /\ LeaveModule
    /\ UNCHANGED <<script, phase, todo, modulesLeft, module, seenTypes, instantiated,
                   explored, exitCodeOf>>

(* The call ended with an exception: a function has returned None then, and for a
   class the assertion on the instance fails, which ends the module. *)
AfterException ==
    IF call \in Types THEN LeaveModule
    ELSE call' = NoCall /\ UNCHANGED <<sx, handler, members, stack>>

(* The callable raises, or cannot be called: signal.alarm(0) is not reached. *)
CallRaises ==
    /\ call # NoCall
    /\ AfterException
    /\ lastCall' = IF call \in Unbindable THEN lastCall ELSE "raised"
    /\ UNCHANGED <<script, phase, todo, modulesLeft, module, seenTypes, instantiated,
                   explored, alarm, exitCodeOf>>

(* The alarm goes off during a call.  TimeoutError ends it, unless the callable
   catches that: the alarm is not set again. *)
CallTimesOut ==
    /\ call # NoCall /\ call \notin Unbindable /\ alarm
    /\ alarm' = FALSE
    /\ IF call \in Stubborn
       THEN UNCHANGED <<sx, handler, members, stack, call, lastCall>>
       ELSE AfterException /\ lastCall' = "timeout"
    /\ UNCHANGED <<script, phase, todo, modulesLeft, module, seenTypes, instantiated,
                   explored, exitCodeOf>>

(* The alarm of an earlier call goes off outside any: while arguments are bound it
   ends that attempt, elsewhere in do_execute the module; between two modules, and
   after the last, it ends the process. *)
StrayAlarm ==
    /\ sx \in {"steps", "modules", "module"} /\ alarm
    /\ call = NoCall \/ call \in Unbindable
    /\ alarm' = FALSE
    /\ IF handler = "raise"
       THEN /\ IF call = NoCall THEN LeaveModule ELSE AfterException
            /\ UNCHANGED exitCodeOf
       ELSE /\ sx' = "killed" /\ exitCodeOf' = 142
            /\ UNCHANGED <<handler, members, stack, call>>
    /\ UNCHANGED <<script, phase, todo, modulesLeft, module, seenTypes, instantiated,
                   explored, lastCall>>

ScriptNext ==
    \/ ParseArguments \/ SearchFails \/ StepSucceeds \/ InstallFails \/ RunFails \/ StepsEnd
    \/ ExecutePackage \/ ExecuteModule \/ ModulesEnd \/ ModuleEnds
    \/ NextMethod \/ NextMember \/ FunctionReturns \/ ClassReturns \/ ResultRaises
    \/ CallRaises \/ CallTimesOut \/ StrayAlarm

ScriptSpec == ScriptInit /\ [][ScriptNext]_scriptVars

-----------------------------------------------------------------------------
\* The exploration of return values ends: within a module the methods of a type
\* are called at most once for a value that was returned, however the types
\* return each other, so that the frames are never more than the types and the
\* one of an instance.
ExploredOnce ==
    /\ \A t \in Types : explored[t] <= 1
    /\ Len(stack) <= 1 + Cardinality(seenTypes)

\* An alarm outlives its call only when the call ended with an exception: the
\* script is killed, and a module cut short between two calls, never after a
\* call that returned or timed out.
AlarmIsCleared ==
    alarm /\ (call = NoCall \/ call \in Unbindable) => lastCall = "raised"
=============================================================================
