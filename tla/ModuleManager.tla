---------------------------- MODULE ModuleManager ----------------------------
(***************************************************************************)
(* The life of a node: the main thread loads the module libraries, starts  *)
(* and announces the modules, watches for changed libraries and for the    *)
(* signal, and stops and unloads everything; the threads of the modules    *)
(* meanwhile trigger events, whose handlers run in the libraries of other  *)
(* modules and trigger further events.                                     *)
(*                                                                         *)
(* A call is a stack of frames.  A frame is "found" between the lookup of  *)
(* its handler under the lock of the event service and the use of the      *)
(* service's singleton outside it, then "in" the handler, with the number  *)
(* of triggers already behind it.                                          *)
(***************************************************************************)
EXTENDS Naturals, FiniteSets, SequencesExt

CONSTANTS Library,      \* the libraries of the modules
          Start,        \* [Library -> the script of start, of <<what, whom>>]
          PostStart,    \* [Library -> the script of postStart]
          Stop,         \* [Library -> the script of stop]
          Handlers,     \* [Library -> [the events it handles -> its service]]
          Deregistered, \* [Library -> the handlers it takes out when it stops]
          Requests,     \* [Library -> the events its threads may trigger]
          WorksFor,     \* the service the threads of a module work for
          Triggers,     \* the events a handler may trigger, in their order
          Caught(_, _), \* does the first event's handler catch what the second throws?
          Uncaught,     \* the modules whose threads let an exception through
          LoadOrder,    \* the libraries in the modules' directory, sorted
          MayThrow,     \* those with a service whose constructor may throw
          MayChange,    \* the libraries that are replaced, once each
          MaxDepth,     \* how deep calls nest
          MaxCalls      \* how many threads are at work at a time

Present == Range(LoadOrder)
Place(l) == CHOOSE i \in DOMAIN LoadOrder : LoadOrder[i] = l

Event == UNION {DOMAIN Handlers[l] : l \in Library}
Handler(e) == CHOOSE l \in Library : e \in DOMAIN Handlers[l]

Kinds(script) == {script[i][1] : i \in DOMAIN script}
Runs(l) == "run" \in Kinds(Start[l]) \cup Kinds(PostStart[l])

(* Registered by start: all modules but the event service, which is not in *)
(* the maps of the manager before its own start is over.                   *)
Early(l) == "register" \in Kinds(Start[l])
Once(script, what) ==
    \E i \in DOMAIN script : \A j \in DOMAIN script : script[j][1] = what <=> j = i

ASSUME LoadOrderAssumption ==
    /\ LoadOrder \in Seq(Library) /\ IsInjective(LoadOrder) /\ "none" \notin Library
    /\ LoadOrder # << >> /\ Head(LoadOrder) = "event_service"

(* How every module manager is written: start makes, postStart uses, stop  *)
(* takes back; threads are told to end before they are waited for; and     *)
(* handlers are registered once.                                           *)
ASSUME ScriptsAssumption ==
    /\ Start \in [Library -> Seq(STRING \X STRING)]
    /\ PostStart \in [Library -> Seq(STRING \X STRING)]
    /\ Stop \in [Library -> Seq(STRING \X STRING)]
    /\ \A l \in Library :
        /\ Kinds(Start[l]) \subseteq {"init", "run", "register"}
        /\ Kinds(PostStart[l]) \subseteq {"need", "apply", "announce", "run", "register"}
        /\ Kinds(Stop[l]) \subseteq {"fin", "deregister", "halt", "join", "apply"}
        /\ Runs(l) => <<"run", "none">> \in Range(Start[l] \o PostStart[l])
        /\ Runs(l) => "join" \in Kinds(Stop[l])
        /\ \A k \in DOMAIN Stop[l] : Stop[l][k][1] = "join" =>
              \E i \in 1 .. (k - 1) : Stop[l][i][1] = "halt"
        /\ \/ Once(Start[l], "register") /\ "register" \notin Kinds(PostStart[l])
           \/ Once(PostStart[l], "register") /\ "register" \notin Kinds(Start[l])
        /\ <<"fin", "EventServiceModule">> \in Range(Stop[l]) <=> l = "event_service"

(* An event has one handler, in a module that makes the service it calls.  *)
ASSUME HandlersAssumption ==
    /\ \A l \in Library :
        /\ Deregistered[l] \subseteq DOMAIN Handlers[l]
        /\ \A e \in DOMAIN Handlers[l] : <<"init", Handlers[l][e]>> \in Range(Start[l])
    /\ \A l, o \in Library : l # o => DOMAIN Handlers[l] \cap DOMAIN Handlers[o] = {}
    /\ \A e \in Event : Triggers[e] \in Seq(STRING)

(* In the order of loading a module comes after those its postStart calls  *)
(* and those a thread of it cannot do without.                             *)
Needed(l) ==
    {PostStart[l][i][2] : i \in {k \in DOMAIN PostStart[l] : PostStart[l][k][1] = "apply"}}
        \cup {"REGISTER_SERVICE_MESSAGE" : i \in {k \in DOMAIN PostStart[l] :
                                                     PostStart[l][k][1] = "announce"}}

ASSUME OrderAssumption ==
    /\ \A l \in Present : \A e \in Needed(l) :
          \E o \in Present : Early(o) /\ e \in DOMAIN Handlers[o]
    /\ \A l \in Present \cap Uncaught : \A i \in DOMAIN Requests[l] :
          /\ Triggers[Requests[l][i]] = << >>
          /\ \E o \in Present : /\ Early(o) /\ Requests[l][i] \in DOMAIN Handlers[o]
                               /\ Place(o) < Place(l)

VARIABLES phase,      \* what the main thread does
          at,         \* which module, and which step of its script
          state,      \* ModuleManager::currentState, as far as it decides
          managed,    \* the modules in the maps of the ModuleManager
          mapped,     \* the libraries loaded
          alive,      \* the singletons that exist, <<library, service>>
          registered, \* the events with a handler
          running,    \* the modules whose threads take work
          calls,      \* the stack of each module's thread
          again,      \* this unload is followed by another load
          failed,     \* the module whose start threw, or "none"
          changed,    \* the libraries replaced since they were loaded
          replaced,   \* those replaced at some time
          crash       \* <<whose thread, whose service was gone>>

vars == <<phase, at, state, managed, mapped, alive, registered, running, calls,
          again, failed, changed, replaced, crash>>
mainVars == <<phase, at, state, managed, mapped, again, failed, changed, replaced>>

Current == LoadOrder[at[1]]
Idle == [l \in Present |-> << >>]

ModuleInit ==
    /\ phase = "load" /\ at = <<1, 0>> /\ state = "loading"
    /\ managed = {} /\ mapped = {} /\ alive = {} /\ registered = {}
    /\ running = {} /\ calls = Idle /\ again = FALSE /\ failed = "none"
    /\ changed = {} /\ replaced = {} /\ crash = << >>

(* The process runs: no thread died, main has not returned, and the signal  *)
(* handler does not wait for its own thread.                               *)
Live == crash = << >> /\ phase \notin {"ended", "stuck"}

------------------------------------------------------------------------------
(* The steps of the scripts.                                               *)

Has(l, s) == <<l, s>> \in alive

(* A handler can be reached while the directory of modules knows the event *)
(* service and the event is registered there.                              *)
Reachable(e) == e \in registered /\ "event_service" \in managed
Served(e) == Reachable(e) /\ Has(Handler(e), Handlers[Handler(e)][e])

Init_(l, s) ==
    /\ alive' = alive \cup {<<l, s>>}
    /\ UNCHANGED <<registered, running>>

\* (A slip: the directory of handlers outlives the event service.)
FinKeeping(l, s) ==
    /\ alive' = alive \ {<<l, s>>}
    /\ UNCHANGED <<registered, running>>

Fin(l, s) ==
    /\ alive' = alive \ {<<l, s>>}
    /\ registered' = IF s = "EventServiceModule" THEN {} ELSE registered
    /\ UNCHANGED running

Register(l) ==
    /\ DOMAIN Handlers[l] \cap registered = {}
    /\ registered' = registered \cup DOMAIN Handlers[l]
    /\ UNCHANGED <<alive, running>>

Deregister(l) ==
    /\ registered' = registered \ Deregistered[l]
    /\ UNCHANGED <<alive, running>>

Run(l) == running' = running \cup {l} /\ UNCHANGED <<alive, registered>>

(* The io context stops, or the loop sees that it is terminated.           *)
Halt(l, s) ==
    /\ s = "none" \/ Has(l, s)
    /\ running' = running \ {l}
    /\ UNCHANGED <<alive, registered>>

\* (A slip: the thread is detached.)
JoinAtOnce(l) == UNCHANGED <<alive, registered, running>>

(* join returns when the thread has come back from its call.               *)
Join(l) ==
    /\ calls[l] = << >>
    /\ UNCHANGED <<alive, registered, running>>

(* What a step of a script does when it does not throw.                    *)
Do(l, step) ==
    \/ step[1] = "init" /\ Init_(l, step[2])
    \/ step[1] = "fin" /\ Fin(l, step[2])
    \/ step[1] = "register" /\ Register(l)
    \/ step[1] = "deregister" /\ Deregister(l)
    \/ step[1] = "run" /\ Run(l)
    \/ step[1] = "halt" /\ Halt(l, step[2])
    \/ step[1] = "join" /\ Join(l)
    \/ step[1] = "need" /\ Has(l, step[2]) /\ UNCHANGED <<alive, registered, running>>
    \/ step[1] = "apply" /\ Served(step[2]) /\ UNCHANGED <<alive, registered, running>>
    \/ /\ step[1] = "announce" /\ Served("REGISTER_SERVICE_MESSAGE")
       /\ UNCHANGED <<alive, registered, running>>

(* A constructor or the loader of the genesis block throws, a handler is    *)
(* there already, or an event has none.                                     *)
Throws(l, step) ==
    \/ step[1] \in {"init", "apply"} /\ l \in MayThrow
    \/ step[1] = "register" /\ DOMAIN Handlers[l] \cap registered # {}
    \/ step[1] = "apply" /\ ~Reachable(step[2])
    \/ step[1] = "announce" /\ ~Reachable("REGISTER_SERVICE_MESSAGE")

(* The main thread calls a service that is not there.                      *)
Faults(l, step) ==
    \/ step[1] \in {"need", "halt"} /\ step[2] # "none" /\ ~Has(l, step[2])
    \/ step[1] = "apply" /\ Reachable(step[2]) /\ ~Served(step[2])
    \/ /\ step[1] = "announce" /\ Reachable("REGISTER_SERVICE_MESSAGE")
       /\ ~Served("REGISTER_SERVICE_MESSAGE")

Crash(owner, missing) == crash' = <<owner, missing>>

------------------------------------------------------------------------------
(* The main thread.                                                        *)

Script == CASE phase = "load" -> Start[Current]
            [] phase = "post" -> PostStart[Current]
            [] phase \in {"stop", "abort"} -> Stop[Current]
            [] OTHER -> << >>
Scripted == phase \in {"load", "post", "stop", "abort"} /\ at[1] > 0 /\ at[2] > 0
NextStep == Script[at[2]]

\* (A slip: the state is set whatever it is.)
SetStateAlways(s) == state' = s

(* setState leaves a terminated manager alone.                             *)
SetState(s) == state' = IF state = "terminated" THEN state ELSE s

(* A new wrapper copies the library as it is now, and load maps it.        *)
LoadLibrary ==
    /\ Live
    /\ phase = "load" /\ at[2] = 0
    /\ mapped' = mapped \cup {Current} /\ changed' = changed \ {Current}
    /\ at' = <<at[1], 1>>
    /\ UNCHANGED <<phase, state, managed, alive, registered, running, calls, again,
                   failed, replaced, crash>>

ScriptStep ==
    /\ Live
    /\ Scripted /\ at[2] <= Len(Script)
    /\ Do(Current, NextStep)
    /\ at' = <<at[1], at[2] + 1>>
    /\ UNCHANGED <<phase, state, managed, mapped, calls, again, failed, changed,
                   replaced, crash>>

(* start threw: the module is stopped, and its library goes.  postStart    *)
(* threw: the exception leaves load, and main unloads.                     *)
StartThrows ==
    /\ Live
    /\ Scripted /\ at[2] <= Len(Script) /\ phase \in {"load", "post"}
    /\ Throws(Current, NextStep)
    /\ failed' = Current /\ again' = FALSE
    /\ \/ phase = "load" /\ phase' = "abort" /\ at' = <<at[1], 1>> /\ UNCHANGED state
       \/ /\ phase = "post" /\ phase' = "stop" /\ at' = <<Cardinality(managed), 1>>
          /\ SetState("unloading")
    /\ UNCHANGED <<managed, mapped, alive, registered, running, calls, changed,
                   replaced, crash>>

MainFaults ==
    /\ Live
    /\ Scripted /\ at[2] <= Len(Script) /\ Faults(Current, NextStep)
    /\ Crash("main", Current)
    /\ UNCHANGED <<mainVars, alive, registered, running, calls>>

Started ==
    /\ Live
    /\ phase = "load" /\ at[2] > Len(Script)
    /\ managed' = managed \cup {Current}
    /\ \/ at[1] < Len(LoadOrder) /\ at' = <<at[1] + 1, 0>> /\ UNCHANGED phase
       \/ at[1] = Len(LoadOrder) /\ at' = <<1, 1>> /\ phase' = "post"
    /\ UNCHANGED <<state, mapped, alive, registered, running, calls, again, failed,
                   changed, replaced, crash>>

(* monitor follows load at once, and load follows the unload of a reload.  *)
Announced ==
    /\ Live
    /\ phase = "post" /\ at[2] > Len(Script)
    /\ \/ at[1] < Len(LoadOrder) /\ at' = <<at[1] + 1, 1>> /\ UNCHANGED <<phase, state>>
       \/ /\ at[1] = Len(LoadOrder) /\ at' = <<1, 1>> /\ phase' = "monitor"
          /\ SetState("monitoring")
    /\ UNCHANGED <<managed, mapped, alive, registered, running, calls, again, failed,
                   changed, replaced, crash>>

(* checkState waits up to a minute whatever the state is; a changed        *)
(* library is looked for only when the state is not terminated.            *)
Monitored ==
    /\ Live
    /\ phase = "monitor"
    /\ state = "terminated" \/ changed # {}
    /\ phase' = "stop" /\ at' = <<Cardinality(managed), 1>>
    /\ again' = (state # "terminated")
    /\ SetState("unloading")
    /\ UNCHANGED <<managed, mapped, alive, registered, running, calls, failed, changed,
                   replaced, crash>>

Stopped ==
    /\ Live
    /\ phase = "stop" /\ at[1] > 0 /\ at[2] > Len(Script)
    /\ at' = <<at[1] - 1, 1>>
    /\ UNCHANGED <<phase, state, managed, mapped, alive, registered, running, calls,
                   again, failed, changed, replaced, crash>>

(* The wrapper of the failed module goes with the frame of load.           *)
Aborted ==
    /\ Live
    /\ phase = "abort" /\ at[2] > Len(Script)
    /\ mapped' = mapped \ {Current}
    /\ alive' = {x \in alive : x[1] # Current}
    /\ phase' = "stop" /\ at' = <<Cardinality(managed), 1>>
    /\ SetState("unloading")
    /\ UNCHANGED <<managed, registered, running, calls, again, failed, changed,
                   replaced, crash>>

\* (A slip: the maps keep the modules while their libraries go.)
ClearModulesNot ==
    /\ Live
    /\ phase = "stop" /\ at[1] = 0 /\ phase' = "unload"
    /\ UNCHANGED <<at, state, managed, mapped, alive, registered, running, calls, again,
                   failed, changed, replaced, crash>>

(* The maps are cleared when all modules have stopped, and only then the   *)
(* libraries go, in reverse.                                               *)
ClearModules ==
    /\ Live
    /\ phase = "stop" /\ at[1] = 0
    /\ managed' = {} /\ phase' = "unload"
    /\ UNCHANGED <<at, state, mapped, alive, registered, running, calls, again,
                   failed, changed, replaced, crash>>

UnloadLibrary ==
    /\ Live
    /\ phase = "unload"
    /\ \E l \in mapped :
        /\ \A o \in mapped : Place(o) <= Place(l)
        /\ mapped' = mapped \ {l}
        /\ alive' = {x \in alive : x[1] # l}
    /\ UNCHANGED <<phase, at, state, managed, registered, running, calls, again,
                   failed, changed, replaced, crash>>

Unloaded ==
    /\ Live
    /\ phase = "unload" /\ mapped = {}
    /\ IF again THEN phase' = "load" /\ at' = <<1, 0>> /\ SetState("loading")
       ELSE phase' = "ended" /\ UNCHANGED at /\ SetState("unloaded")
    /\ again' = FALSE
    /\ UNCHANGED <<managed, mapped, alive, registered, running, calls, failed, changed,
                   replaced, crash>>

Main == \/ LoadLibrary \/ ScriptStep \/ StartThrows \/ MainFaults \/ Started \/ Announced
        \/ Monitored \/ Stopped \/ Aborted \/ ClearModules \/ UnloadLibrary \/ Unloaded

------------------------------------------------------------------------------
(* The threads of the modules.                                             *)

Top(l) == Last(calls[l])
Frame(e) == [e |-> e, in |-> FALSE, n |-> 0]
Keep(l, stack) == calls' = [calls EXCEPT ![l] = stack]

(* An exception goes down to the first handler that catches it.            *)
Unwound(stack) ==
    LET held == {i \in 1 .. Len(stack) - 1 : Caught(stack[i].e, stack[i + 1].e)}
    IN  SubSeq(stack, 1, IF held = {} THEN 0 ELSE Max(held))

(* The thread of l, with this stack, triggers e.  Without the event service *)
(* its helper has nobody to ask; an event without a handler is an exception. *)
Trigger(l, stack, e) ==
    LET left == IF stack # << >> /\ Caught(Last(stack).e, e) THEN stack ELSE Unwound(stack)
        gone == IF "event_service" \notin managed THEN {"event_service"}
                ELSE IF e \notin registered /\ left = << >> /\ l \in Uncaught THEN {Handler(e)}
                ELSE {}
    IN  IF gone = {}
        THEN /\ Keep(l, IF Reachable(e) THEN Append(stack, Frame(e)) ELSE left)
             /\ UNCHANGED crash
        ELSE \E h \in gone : Crash(l, h) /\ UNCHANGED calls

(* A connection, a timer or a request wakes a thread that works for a      *)
(* service of its module.                                                  *)
Wake(l) ==
    /\ Live
    /\ l \in running /\ calls[l] = << >>
    /\ Cardinality({o \in running : calls[o] # << >>}) < MaxCalls
    /\ IF Has(l, WorksFor[l])
       THEN \E i \in DOMAIN Requests[l] : Trigger(l, << >>, Requests[l][i])
       ELSE Crash(l, l) /\ UNCHANGED calls
    /\ UNCHANGED <<mainVars, alive, registered, running>>

Enter(l) ==
    /\ Live
    /\ calls[l] # << >> /\ ~Top(l).in
    /\ LET h == Handler(Top(l).e)
       IN  IF h \in mapped /\ Has(h, Handlers[h][Top(l).e])
           THEN /\ Keep(l, Front(calls[l]) \o <<[Top(l) EXCEPT !.in = TRUE]>>)
                /\ UNCHANGED crash
           ELSE Crash(l, h) /\ UNCHANGED calls
    /\ UNCHANGED <<mainVars, alive, registered, running>>

Nest(l) ==
    /\ Live
    /\ calls[l] # << >> /\ Top(l).in /\ Len(calls[l]) < MaxDepth
    /\ \E j \in DOMAIN Triggers[Top(l).e] :
        /\ j > Top(l).n
        /\ Trigger(l, Front(calls[l]) \o <<[Top(l) EXCEPT !.n = j]>>, Triggers[Top(l).e][j])
    /\ UNCHANGED <<mainVars, alive, registered, running>>

Leave(l) ==
    /\ Live
    /\ calls[l] # << >> /\ Top(l).in
    /\ Keep(l, Front(calls[l]))
    /\ UNCHANGED <<mainVars, alive, registered, running, crash>>

Proceed(l) == Enter(l) \/ Nest(l) \/ Leave(l)

------------------------------------------------------------------------------
(* The world: SIGINT, and new libraries.                                   *)

Signal ==
    /\ Live
    /\ state # "terminated" /\ state' = "terminated"
    /\ UNCHANGED <<phase, at, managed, mapped, alive, registered, running, calls, again,
                   failed, changed, replaced, crash>>

(* The handler locks the mutex its thread holds, in checkState or in the   *)
(* lookup of the event service.                                            *)
SignalInsideLock ==
    /\ Live
    /\ state # "terminated"
    /\ phase = "monitor" \/ \E l \in running : calls[l] # << >>
    /\ phase' = "stuck"
    /\ UNCHANGED <<at, state, managed, mapped, alive, registered, running, calls, again,
                   failed, changed, replaced, crash>>

Replace(l) ==
    /\ Live
    /\ l \in MayChange \cap (mapped \ replaced)
    /\ changed' = changed \cup {l} /\ replaced' = replaced \cup {l}
    /\ UNCHANGED <<phase, at, state, managed, mapped, alive, registered, running, calls,
                   again, failed, crash>>

Next == \/ Main \/ Signal \/ SignalInsideLock
        \/ \E l \in Present : Wake(l) \/ Proceed(l) \/ Replace(l)

Spec == ModuleInit /\ [][Next]_vars

(* The main thread and every thread inside a call go on.                   *)
FairSpec == /\ Spec
            /\ WF_vars(Main)
            /\ \A l \in Present : WF_vars(Proceed(l))

------------------------------------------------------------------------------
TypeOK ==
    /\ phase \in {"load", "post", "monitor", "stop", "abort", "unload", "ended", "stuck"}
    /\ managed \subseteq mapped /\ mapped \subseteq Present /\ running \subseteq Present
    /\ registered \subseteq Event /\ changed \subseteq Present
    /\ \A x \in alive : x[1] \in mapped /\ <<"init", x[2]>> \in Range(Start[x[1]])
    /\ \A l \in Present : calls[l] # << >> => <<"run", "none">> \in Range(Start[l] \o PostStart[l])

(* No thread has a frame, or its own loop, in a library that is gone,      *)
(* unless that is the library of the module whose start failed: its        *)
(* handlers were looked up before it was taken away.                       *)
CodeStaysLoaded ==
    /\ \A l \in running \cup {o \in Present : calls[o] # << >>} : l \in mapped
    /\ \A l \in Present : \A i \in DOMAIN calls[l] :
           Handler(calls[l][i].e) \in mapped \cup {failed}

(* A thread that finds a service gone finds one of its own module or of a  *)
(* module loaded later: what a module was loaded after is there for as     *)
(* long as it runs, through any start, stop, reload and failure.           *)
OnlyLaterModulesGone ==
    crash # << >> /\ crash[1] # "main" => Place(crash[1]) <= Place(crash[2])

(* A call finds the code and the services it was loaded after.             *)
CallsFindCode == CodeStaysLoaded /\ OnlyLaterModulesGone

(* While the node is monitored every module is served: its handlers are    *)
(* registered and the services behind them are there, after a reload too;  *)
(* when main has returned nothing of a module is left.                     *)
WholeOrNothing ==
    /\ phase = "monitor" /\ crash = << >> =>
           /\ managed = Present
           /\ \A l \in Present : \A e \in DOMAIN Handlers[l] : Served(e)
    /\ phase = "ended" => mapped = {} /\ alive = {} /\ running = {}

(* Only constructors and the genesis block make a start throw: a reload    *)
(* never meets a handler that the unload left behind (the router leaves    *)
(* one), nor an announcement without a router.                             *)
OnlyConstructorsThrow == failed \in MayThrow \cup {"none"}

(* Starts, reloads and ends are whole, whatever throws between them.       *)
LoadsWhole == WholeOrNothing /\ OnlyConstructorsThrow

(* A signal is answered: the node ends, unless a service was gone or the   *)
(* handler hung on the lock it interrupted.                                *)
SignalAnswered ==
    state = "terminated" ~> phase \in {"ended", "stuck"} \/ crash # << >>
==============================================================================
