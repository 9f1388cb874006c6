------------------------ MODULE ModuleManagerProofs ------------------------
(***************************************************************************)
(* Proofs about the life of a node, for every number of modules, whatever  *)
(* their scripts, handlers and calls, as long as the scripts are written   *)
(* the way ScriptsAssumption says and each module is loaded after those it *)
(* cannot do without.                                                      *)
(***************************************************************************)
EXTENDS ModuleManager, TLAPS, FiniteSetTheorems, SequenceTheorems

Size == Len(LoadOrder)
Before(i) == {LoadOrder[x] : x \in 1 .. (i - 1)}

(* The modules before this place have been started, and not yet stopped.   *)
Reached == IF phase \in {"post", "monitor"} THEN Size + 1
           ELSE IF phase = "unload" THEN 0 ELSE at[1]

(* This step of the script of the current module is behind the main thread. *)
Did(script, what) == \E k \in DOMAIN script : k < at[2] /\ script[k][1] = what

Callers == {l \in Present : calls[l] # << >>}
Frames == [e : Event, in : BOOLEAN, n : Nat]

(* The main thread's place in the order of loading, and what the maps hold *)
(* there.                                                                  *)
Places ==
    /\ at \in Nat \X Nat
    /\ phase \in {"load", "post", "abort"} => at[1] \in 1 .. Size
    /\ phase = "stop" => at[1] \in 0 .. Size
    /\ phase \in {"post", "stop", "abort"} => at[2] >= 1
    /\ phase \in {"load", "abort"} => managed = Before(at[1])
    /\ phase \in {"post", "monitor"} => managed = Present
    /\ phase = "stop" => Before(at[1] + 1) \subseteq managed
    /\ phase = "unload" => managed = {}
    /\ phase = "load" => mapped = Before(IF at[2] = 0 THEN at[1] ELSE at[1] + 1)
    /\ phase = "abort" => mapped = Before(at[1] + 1) /\ failed = Current
    /\ phase \in {"load", "post", "monitor"} => failed = "none"
    /\ failed # "none" => ~again /\ failed \in Present

(* A thread at work is one of a module that has not been stopped, and the  *)
(* module being stopped takes no work after halt and has none after join.  *)
Workers ==
    /\ \A l \in running \cup Callers : Runs(l)
    /\ phase = "stop" => running \cup Callers \subseteq Before(at[1] + 1)
    /\ phase = "unload" => running = {} /\ Callers = {}
    /\ phase \in {"stop", "abort"} /\ at[1] > 0 =>
          /\ Did(Stop[Current], "halt") => Current \notin running
          /\ Did(Stop[Current], "join") => Current \notin Callers

(* The stacks.  The thread of a module that lets exceptions through is at  *)
(* most one call deep.                                                     *)
Stacks ==
    /\ calls \in [Present -> Seq(Frames)]
    /\ \A l \in Present \cap Uncaught : \A i \in DOMAIN calls[l] :
           calls[l][i].e \in Range(Requests[l])

(* Has the register step of the module been taken in this load?            *)
Announces(l) ==
    IF Early(l)
    THEN \/ phase \in {"post", "monitor"}
         \/ l \in Before(at[1])
         \/ l = Current /\ Did(Start[l], "register")
    ELSE \/ phase = "monitor"
         \/ /\ phase = "post"
            /\ \/ l \in Before(at[1])
               \/ l = Current /\ Did(PostStart[l], "register")

Emptied == \/ phase = "unload"
           \/ phase = "stop" /\ at[1] = 0
           \/ /\ phase = "stop" /\ at[1] = 1
              /\ \E k \in DOMAIN Stop[Current] :
                    k < at[2] /\ Stop[Current][k] = <<"fin", "EventServiceModule">>

(* The directory of handlers.                                              *)
Directory ==
    /\ phase \in {"load", "post", "monitor"} =>
          \A l \in Present : \A e \in DOMAIN Handlers[l] :
             e \in registered <=> Announces(l)
    /\ phase # "unload" => \A e \in registered : Handler(e) \in mapped \cup {failed}
    /\ \A l \in Before(Reached) : Early(l) => DOMAIN Handlers[l] \subseteq registered
    /\ Emptied /\ failed = "none" => registered = {}

(* What start made is there until the module is stopped.                   *)
Made(l, k) == Start[l][k][1] = "init" => <<l, Start[l][k][2]>> \in alive
Services ==
    /\ \A l \in Before(Reached) : \A k \in DOMAIN Start[l] : Made(l, k)
    /\ phase = "load" /\ at[2] > 0 =>
          \A k \in DOMAIN Start[Current] : k < at[2] => Made(Current, k)

Details == Places /\ Workers /\ Stacks /\ Directory /\ Services
Props == TypeOK /\ CallsFindCode /\ LoadsWhole
ModulesInv == Props /\ (Live => Details)

------------------------------------------------------------------------------
(* The order of loading and the scripts.                                   *)

\* Every module has one place in the order, and the event service the first.
LEMMA OrderFacts ==
    /\ Size \in Nat /\ Size >= 1 /\ DOMAIN LoadOrder = 1 .. Size
    /\ Present \subseteq Library
    /\ \A i \in 1 .. Size : LoadOrder[i] \in Present /\ Place(LoadOrder[i]) = i
    /\ \A l \in Present : Place(l) \in 1 .. Size /\ LoadOrder[Place(l)] = l
    /\ LoadOrder[1] = "event_service"
    /\ "event_service" \in Present /\ Place("event_service") = 1
<1>1. LoadOrder \in Seq(Library) /\ LoadOrder # << >> /\ Head(LoadOrder) = "event_service"
  BY LoadOrderAssumption
<1>2. Size \in Nat /\ Size >= 1 /\ DOMAIN LoadOrder = 1 .. Size
  BY <1>1 DEF Size
<1>3. Present \subseteq Library
  BY <1>1 DEF Present, Range
<1>4. \A i \in 1 .. Size : LoadOrder[i] \in Present
  BY <1>2 DEF Present, Range
<1>5. \A i, j \in 1 .. Size : LoadOrder[i] = LoadOrder[j] => i = j
  BY <1>2, LoadOrderAssumption DEF IsInjective
<1>6. ASSUME NEW l \in Present PROVE Place(l) \in 1 .. Size /\ LoadOrder[Place(l)] = l
  <2>1. PICK i \in 1 .. Size : LoadOrder[i] = l
    BY <1>2 DEF Present, Range
  <2> QED BY <1>2, <2>1 DEF Place
<1>7. ASSUME NEW i \in 1 .. Size PROVE Place(LoadOrder[i]) = i
  BY <1>4, <1>5, <1>6
<1>8. LoadOrder[1] = "event_service"
  BY <1>1
<1>9. "event_service" \in Present /\ Place("event_service") = 1
  BY <1>2, <1>4, <1>7, <1>8
<1> QED BY <1>2, <1>3, <1>4, <1>6, <1>7, <1>8, <1>9

\* The modules before a place.
LEMMA BeforeFacts ==
    ASSUME NEW i \in 0 .. Size + 1
    PROVE  /\ Before(i) \subseteq Present
           /\ \A l \in Present : l \in Before(i) <=> Place(l) < i
<1>1. Before(i) \subseteq Present
  BY OrderFacts DEF Before
<1>2. ASSUME NEW l \in Present PROVE l \in Before(i) <=> Place(l) < i
  <2>1. ASSUME l \in Before(i) PROVE Place(l) < i
    <3>1. PICK x \in 1 .. (i - 1) : l = LoadOrder[x]
      BY <2>1 DEF Before
    <3> QED BY <3>1, OrderFacts
  <2>2. ASSUME Place(l) < i PROVE l \in Before(i)
    <3>1. Place(l) \in 1 .. (i - 1) /\ LoadOrder[Place(l)] = l
      BY <2>2, OrderFacts
    <3> QED BY <3>1 DEF Before
  <2> QED BY <2>1, <2>2
<1> QED BY <1>1, <1>2

\* One module more is before the next place.
LEMMA BeforeNext ==
    ASSUME NEW i \in 1 .. Size
    PROVE  /\ Before(i + 1) = Before(i) \cup {LoadOrder[i]}
           /\ LoadOrder[i] \notin Before(i)
           /\ Before(i) \subseteq Before(i + 1)
<1>1. i \in 0 .. Size + 1 /\ i + 1 \in 0 .. Size + 1
  BY OrderFacts
<1>2. LoadOrder[i] \in Present /\ Place(LoadOrder[i]) = i
  BY OrderFacts
<1>3. \A l \in Present : Place(l) \in 1 .. Size /\ LoadOrder[Place(l)] = l
  BY OrderFacts
<1>4. \A l \in Present : l \in Before(i + 1) <=> l \in Before(i) \/ l = LoadOrder[i]
  <2> TAKE l \in Present
  <2>1. l \in Before(i + 1) <=> Place(l) < i + 1
    BY <1>1, BeforeFacts
  <2>2. l \in Before(i) <=> Place(l) < i
    BY <1>1, BeforeFacts
  <2> QED BY <2>1, <2>2, <1>2, <1>3
<1>5. Before(i) \subseteq Present /\ Before(i + 1) \subseteq Present
  BY <1>1, BeforeFacts
<1>6. LoadOrder[i] \notin Before(i)
  BY <1>1, <1>2, BeforeFacts
<1> QED BY <1>2, <1>4, <1>5, <1>6

\* No module is before the first place, and all are before the end.
LEMMA BeforeEnds == Before(0) = {} /\ Before(1) = {} /\ Before(Size + 1) = Present
<1>1. Before(0) = {} /\ Before(1) = {}
  BY DEF Before
<1>2. Size + 1 \in 0 .. Size + 1
  BY OrderFacts
<1>3. \A l \in Present : Place(l) < Size + 1
  BY OrderFacts
<1> QED BY <1>1, <1>2, <1>3, BeforeFacts

\* The maps of the manager are as large as the place is far.
LEMMA BeforeCounted ==
    ASSUME NEW i \in 1 .. Size + 1
    PROVE  Cardinality(Before(i)) = i - 1
<1> DEFINE f == [x \in 1 .. (i - 1) |-> LoadOrder[x]]
<1>1. i \in 0 .. Size + 1 /\ i - 1 \in Nat /\ Size \in Nat
  BY OrderFacts
<1>2. \A x \in 1 .. (i - 1) : x \in 1 .. Size
  BY <1>1
<1>3. f \in [1 .. (i - 1) -> Before(i)]
  BY DEF Before
<1>4. \A x, y \in 1 .. (i - 1) : f[x] = f[y] => x = y
  BY <1>2, OrderFacts
<1>5. \A l \in Before(i) : \E x \in 1 .. (i - 1) : f[x] = l
  BY DEF Before
<1> HIDE DEF f
<1>6. ExistsBijection(1 .. (i - 1), Before(i))
  BY <1>3, <1>4, <1>5 DEF ExistsBijection, Bijection, Injection, Surjection, IsInjective
<1> QED BY <1>1, <1>6, FS_CountingElements

\* An event has one handler, in the module that registers it.
LEMMA HandlerFacts ==
    /\ \A l \in Present : \A e \in DOMAIN Handlers[l] : e \in Event /\ Handler(e) = l
    /\ \A e \in Event : Handler(e) \in Library /\ e \in DOMAIN Handlers[Handler(e)]
<1>1. ASSUME NEW e \in Event PROVE Handler(e) \in Library /\ e \in DOMAIN Handlers[Handler(e)]
  <2>1. PICK l \in Library : e \in DOMAIN Handlers[l]
    BY DEF Event
  <2> QED BY <2>1 DEF Handler
<1>2. ASSUME NEW l \in Present, NEW e \in DOMAIN Handlers[l]
      PROVE  e \in Event /\ Handler(e) = l
  <2>1. l \in Library
    BY OrderFacts
  <2>2. e \in Event
    BY <2>1 DEF Event
  <2>3. Handler(e) \in Library /\ e \in DOMAIN Handlers[Handler(e)]
    BY <1>1, <2>2
  <2> QED BY <2>1, <2>2, <2>3, HandlersAssumption
<1> QED BY <1>1, <1>2

\* A script is a sequence of steps, each of a kind and a name.
LEMMA ScriptFacts ==
    ASSUME NEW l \in Library
    PROVE  /\ Start[l] \in Seq(STRING \X STRING) /\ Len(Start[l]) \in Nat
           /\ PostStart[l] \in Seq(STRING \X STRING) /\ Len(PostStart[l]) \in Nat
           /\ Stop[l] \in Seq(STRING \X STRING) /\ Len(Stop[l]) \in Nat
           /\ DOMAIN Start[l] = 1 .. Len(Start[l])
           /\ DOMAIN PostStart[l] = 1 .. Len(PostStart[l])
           /\ DOMAIN Stop[l] = 1 .. Len(Stop[l])
           /\ \A k \in DOMAIN Start[l] : Start[l][k][1] \in {"init", "run", "register"}
           /\ \A k \in DOMAIN PostStart[l] :
                 PostStart[l][k][1] \in {"need", "apply", "announce", "run", "register"}
           /\ \A k \in DOMAIN Stop[l] :
                 Stop[l][k][1] \in {"fin", "deregister", "halt", "join", "apply"}
<1>1. /\ Start[l] \in Seq(STRING \X STRING)
      /\ PostStart[l] \in Seq(STRING \X STRING)
      /\ Stop[l] \in Seq(STRING \X STRING)
  BY ScriptsAssumption
<1>2. /\ \A k \in DOMAIN Start[l] : Start[l][k][1] \in Kinds(Start[l])
      /\ \A k \in DOMAIN PostStart[l] : PostStart[l][k][1] \in Kinds(PostStart[l])
      /\ \A k \in DOMAIN Stop[l] : Stop[l][k][1] \in Kinds(Stop[l])
  BY DEF Kinds
<1>3. /\ Kinds(Start[l]) \subseteq {"init", "run", "register"}
      /\ Kinds(PostStart[l]) \subseteq {"need", "apply", "announce", "run", "register"}
      /\ Kinds(Stop[l]) \subseteq {"fin", "deregister", "halt", "join", "apply"}
  BY ScriptsAssumption
<1> QED BY <1>1, <1>2, <1>3

\* A module whose threads work waits for them when it stops, and before that
\* tells them to end.
LEMMA WorkersWaited ==
    ASSUME NEW l \in Library, Runs(l)
    PROVE  \E k \in DOMAIN Stop[l] : /\ Stop[l][k][1] = "join"
                                     /\ \E i \in 1 .. (k - 1) : Stop[l][i][1] = "halt"
<1>1. "join" \in Kinds(Stop[l])
  BY ScriptsAssumption
<1> QED BY <1>1, ScriptsAssumption DEF Kinds

------------------------------------------------------------------------------
(* The steps of the main thread.                                           *)

\* The script of the current module depends on the phase and the place only.
LEMMA CurrentFacts ==
    ASSUME ModulesInv, Live, phase \in {"load", "post", "stop", "abort"}, at[1] > 0
    PROVE  /\ at[1] \in 1 .. Size /\ at[2] \in Nat /\ at = <<at[1], at[2]>>
           /\ Current \in Present /\ Current \in Library /\ Place(Current) = at[1]
           /\ Current = LoadOrder[at[1]]
<1>1. Places
  BY DEF ModulesInv, Details
<1>2. at[1] \in 1 .. Size /\ at \in Nat \X Nat
  BY <1>1, OrderFacts DEF Places
<1> QED BY <1>2, OrderFacts DEF Current

\* LoadLibrary maps one library more.
LEMMA LoadLibraryStep == ASSUME ModulesInv, LoadLibrary PROVE ModulesInv'
<1>1. Live /\ phase = "load" /\ at[2] = 0
  BY DEF LoadLibrary
<1>2. Props /\ Details
  BY <1>1 DEF ModulesInv
<1>3. at[1] \in 1 .. Size /\ at = <<at[1], 0>> /\ Current \in Present /\ Current = LoadOrder[at[1]]
  <2>1. at[1] > 0
    BY <1>1, <1>2, OrderFacts DEF Details, Places
  <2> QED BY <1>1, <2>1, CurrentFacts
<1>4. /\ at' = <<at[1], 1>> /\ at'[1] = at[1] /\ at'[2] = 1
      /\ mapped' = mapped \cup {Current} /\ changed' \subseteq changed
      /\ UNCHANGED <<phase, managed, alive, registered, running, calls, again, failed, crash>>
  BY DEF LoadLibrary
<1>5. mapped' = Before(at[1] + 1) /\ mapped \subseteq mapped' /\ Current' = Current
  BY <1>1, <1>2, <1>3, <1>4, BeforeNext DEF Details, Places, Current
<1>6. Props'
  <2>1. TypeOK'
    BY <1>2, <1>3, <1>4, <1>5 DEF Props, TypeOK
  <2>2. CallsFindCode'
    BY <1>2, <1>4, <1>5 DEF Props, CallsFindCode, CodeStaysLoaded, OnlyLaterModulesGone
  <2>3. LoadsWhole'
    BY <1>1, <1>2, <1>4 DEF Props, LoadsWhole, WholeOrNothing, OnlyConstructorsThrow
  <2> QED BY <2>1, <2>2, <2>3 DEF Props
<1>7. Places'
  BY <1>1, <1>2, <1>3, <1>4, <1>5 DEF Details, Places
<1>8. Workers' /\ Stacks'
  BY <1>1, <1>2, <1>4 DEF Details, Workers, Stacks, Callers
<1>9. Directory'
  <2>1. Directory
    BY <1>2 DEF Details
  <2>2. Reached' = Reached /\ ~Emptied'
    BY <1>1, <1>4 DEF Reached, Emptied
  <2>3. ASSUME NEW l \in Present, NEW e \in DOMAIN Handlers[l]
        PROVE  e \in registered' <=> Announces(l)'
    <3>1. Announces(l)' <=> Announces(l)
      <4>1. l \in Library
        BY OrderFacts
      <4>2. ~Did(Start[l], "register") /\ ~Did(Start[l], "register")'
        BY <1>1, <1>3, <1>4, <4>1, ScriptFacts DEF Did
      <4> QED BY <1>1, <1>4, <4>2 DEF Announces
    <3>2. e \in registered <=> Announces(l)
      BY <1>1, <2>1 DEF Directory
    <3> QED BY <1>4, <3>1, <3>2
  <2>4. \A e \in registered' : Handler(e) \in mapped' \cup {failed'}
    BY <1>1, <1>4, <1>5, <2>1 DEF Directory
  <2>5. \A l \in Before(Reached') : Early(l) => DOMAIN Handlers[l] \subseteq registered'
    BY <1>4, <2>1, <2>2 DEF Directory
  <2> QED BY <1>1, <1>4, <2>2, <2>3, <2>4, <2>5 DEF Directory
<1>10. Services'
  <2>1. Reached' = Reached
    BY <1>1, <1>4 DEF Reached
  <2>2. \A k \in DOMAIN Start[Current] : k \in Nat /\ ~(k < 1)
    BY <1>3, OrderFacts, ScriptFacts
  <2>3. \A l \in Before(Reached) : \A k \in DOMAIN Start[l] : Made(l, k)
    BY <1>2 DEF Details, Services
  <2>4. \A l, k : Made(l, k)' <=> Made(l, k)
    BY <1>4 DEF Made
  <2>5. \A k \in DOMAIN Start[Current'] : ~(k < at'[2])
    BY <1>4, <1>5, <2>2
  <2>6. \A l \in Before(Reached') : \A k \in DOMAIN Start[l] : Made(l, k)'
    BY <2>1, <2>3, <2>4
  <2> QED BY <2>5, <2>6 DEF Services
<1> QED BY <1>6, <1>7, <1>8, <1>9, <1>10 DEF ModulesInv, Details

------------------------------------------------------------------------------
(* The steps of the scripts.                                               *)

\* A step of the script is taken: what was done before has been done still,
\* and the step too.
LEMMA DidNext ==
    ASSUME NEW script \in Seq(STRING \X STRING), at[2] \in DOMAIN script,
           at'[2] = at[2] + 1
    PROVE  \A what :
              Did(script, what)' <=> Did(script, what) \/ script[at[2]][1] = what
<1>1. DOMAIN script = 1 .. Len(script) /\ Len(script) \in Nat
  OBVIOUS
<1> TAKE what
<1>2. \A k \in DOMAIN script : k < at[2] + 1 <=> k < at[2] \/ k = at[2]
  BY <1>1
<1> QED BY <1>2 DEF Did

\* What every step of a script leaves alone, and where it goes on.
LEMMA ScriptOn ==
    ASSUME ModulesInv, ScriptStep
    PROVE  /\ Live /\ Props /\ Details /\ at[1] \in 1 .. Size /\ at[2] \in Nat \ {0}
           /\ Current \in Present /\ Current \in Library /\ Place(Current) = at[1]
           /\ Current = LoadOrder[at[1]] /\ at[2] \in DOMAIN Script
           /\ at' = <<at[1], at[2] + 1>> /\ at'[1] = at[1] /\ at'[2] = at[2] + 1
           /\ Current' = Current /\ Reached' = Reached /\ Callers' = Callers
           /\ UNCHANGED <<phase, state, managed, mapped, calls, again, failed, changed,
                          replaced, crash>>
           /\ Places' /\ Stacks' /\ mapped \subseteq Present
<1>1. /\ Live /\ phase \in {"load", "post", "stop", "abort"} /\ at[1] > 0 /\ at[2] > 0
      /\ at[2] <= Len(Script) /\ at' = <<at[1], at[2] + 1>>
      /\ UNCHANGED <<phase, state, managed, mapped, calls, again, failed, changed,
                     replaced, crash>>
  BY DEF ScriptStep, Scripted
<1>2. Props /\ Details
  BY <1>1 DEF ModulesInv
<1>3. /\ at[1] \in 1 .. Size /\ at[2] \in Nat /\ Current \in Present /\ Current \in Library
      /\ Place(Current) = at[1] /\ Current = LoadOrder[at[1]]
  BY <1>1, CurrentFacts
<1>4. at'[1] = at[1] /\ at'[2] = at[2] + 1
  BY <1>1
<1>5. Current' = Current /\ Reached' = Reached /\ Callers' = Callers
  BY <1>1, <1>4 DEF Current, Reached, Callers
<1>6. Script \in {Start[Current], PostStart[Current], Stop[Current]}
  BY <1>1 DEF Script
<1>7. at[2] \in DOMAIN Script
  BY <1>1, <1>3, <1>6, ScriptFacts
<1>8. Places'
  <2>1. at' \in Nat \X Nat /\ at'[2] # 0 /\ at[2] # 0 /\ at'[2] >= 1
    BY <1>1, <1>3, OrderFacts
  <2>2. Places
    BY <1>2 DEF Details
  <2>3. phase = "load" => mapped = Before(at[1] + 1)
    BY <2>1, <2>2 DEF Places
  <2> QED BY <1>1, <1>4, <1>5, <2>1, <2>2, <2>3 DEF Places
<1>9. Stacks' /\ mapped \subseteq Present
  BY <1>1, <1>2 DEF Details, Stacks, Props, TypeOK
<1> QED BY <1>1, <1>2, <1>3, <1>4, <1>5, <1>7, <1>8, <1>9

\* The properties when the phase, the maps and the stacks stay and no module
\* is monitored.
LEMMA ScriptProps ==
    ASSUME ModulesInv, ScriptStep, running' \subseteq running \cup {Current},
           Current \in mapped, registered' \subseteq Event, phase # "monitor",
           \A x \in alive' : x \notin alive =>
               x[1] = Current /\ <<"init", x[2]>> \in Range(Start[Current])
    PROVE  Props'
<1>1. /\ Live /\ Props /\ Callers' = Callers
      /\ UNCHANGED <<phase, state, managed, mapped, calls, again, failed, changed,
                     replaced, crash>>
      /\ Current \in Present
  BY ScriptOn
<1>2. TypeOK'
  <2>1. \A x \in alive' : x[1] \in mapped' /\ <<"init", x[2]>> \in Range(Start[x[1]])
    BY <1>1 DEF Props, TypeOK
  <2> QED BY <1>1, <2>1 DEF Props, TypeOK
<1>3. CallsFindCode'
  BY <1>1 DEF Props, CallsFindCode, CodeStaysLoaded, OnlyLaterModulesGone
<1>4. LoadsWhole'
  BY <1>1 DEF Props, LoadsWhole, WholeOrNothing, OnlyConstructorsThrow, Live
<1> QED BY <1>2, <1>3, <1>4 DEF Props

\* start makes services, runs threads and registers handlers.
LEMMA StartScriptStep ==
    ASSUME ModulesInv, ScriptStep, phase = "load"
    PROVE  ModulesInv'
<1>0. PICK i \in Nat : i = at[2]
  BY ScriptOn
<1>1. PICK c \in Present : c = Current
  BY ScriptOn
<1>2. /\ c \in Library /\ c \in mapped /\ i \in DOMAIN Start[c] /\ i \in Nat
      /\ Start[c][i][1] \in {"init", "run", "register"} /\ Do(c, Start[c][i])
      /\ Start[c] \in Seq(STRING \X STRING)
  <2>1. Script = Start[c] /\ c \in Library /\ i \in DOMAIN Start[c] /\ i \in Nat \ {0}
    BY <1>0, <1>1, ScriptOn DEF Script
  <2>2. Do(c, Start[c][i])
    BY <1>0, <1>1, <2>1 DEF ScriptStep, NextStep
  <2>3. Places /\ at[1] \in 1 .. Size /\ c = LoadOrder[at[1]]
    BY <1>1, ScriptOn DEF Details
  <2>4. c \in mapped
    BY <1>0, <2>1, <2>3, BeforeNext DEF Places
  <2> QED BY <2>1, <2>2, <2>4, ScriptFacts
<1>3. /\ Live /\ Props /\ Details /\ at'[2] = i + 1 /\ at'[1] = at[1] /\ c = Current'
      /\ Reached' = Reached /\ Callers' = Callers
      /\ UNCHANGED <<phase, managed, mapped, calls, again, failed, crash>>
      /\ Places' /\ Stacks'
  BY <1>0, <1>1, ScriptOn
<1>4. CASE Start[c][i][1] = "init"
  <2>1. alive' = alive \cup {<<c, Start[c][i][2]>>} /\ UNCHANGED <<registered, running>>
    BY <1>2, <1>4 DEF Do, Init_
  <2>2. <<"init", Start[c][i][2]>> \in Range(Start[c])
    <3>1. Start[c][i] \in STRING \X STRING
      BY <1>2
    <3>2. Start[c][i] = <<"init", Start[c][i][2]>>
      BY <1>4, <3>1
    <3> QED BY <1>2, <3>2 DEF Range
  <2>3. Props'
    <3>1. ASSUME NEW x \in alive', x \notin alive
          PROVE  x[1] = c /\ <<"init", x[2]>> \in Range(Start[c])
      <4>1. x = <<c, Start[c][i][2]>>
        BY <2>1, <3>1
      <4>2. x[1] = c /\ x[2] = Start[c][i][2]
        BY <4>1
      <4> QED BY <2>2, <4>2
    <3> QED BY <1>1, <1>2, <1>3, <2>1, <3>1, ScriptProps DEF Props, TypeOK
  <2>4. Workers'
    BY <1>3, <2>1 DEF Details, Workers
  <2>5. ASSUME NEW l \in Present PROVE Announces(l)' <=> Announces(l)
    <3>1. Did(Start[c], "register")' <=> Did(Start[c], "register")
      <4>1. \A what :
               Did(Start[c], what)' <=> Did(Start[c], what) \/ Start[c][i][1] = what
        BY <1>0, <1>2, <1>3, DidNext
      <4>2. Start[c][i][1] # "register"
        BY <1>4
      <4> QED BY <4>1, <4>2
    <3> QED BY <1>1, <1>3, <3>1 DEF Announces
  <2>6. Directory'
    BY <1>3, <2>1, <2>5 DEF Details, Directory, Emptied
  <2>7. Services'
    <3>1. Services
      BY <1>3 DEF Details
    <3>2. \A l, k : Made(l, k) => Made(l, k)'
      BY <2>1 DEF Made
    <3>3. Made(c, i)'
      BY <2>1 DEF Made
    <3>4. \A k \in DOMAIN Start[c] : k < i + 1 => k < i \/ k = i
      BY <1>2
    <3> QED BY <1>0, <1>1, <1>2, <1>3, <3>1, <3>2, <3>3, <3>4, ScriptOn DEF Services
  <2> QED BY <1>3, <2>3, <2>4, <2>6, <2>7 DEF ModulesInv, Details
<1>5. CASE Start[c][i][1] = "run"
  <2>1. running' = running \cup {c} /\ UNCHANGED <<registered, alive>>
    BY <1>2, <1>5 DEF Do, Run
  <2>2. Runs(c)
    BY <1>2, <1>5 DEF Runs, Kinds
  <2>3. Props'
    BY <1>1, <1>2, <1>3, <2>1, <2>2, ScriptProps DEF Props, TypeOK
  <2>4. Workers'
    BY <1>3, <2>1, <2>2 DEF Details, Workers
  <2>5. ASSUME NEW l \in Present PROVE Announces(l)' <=> Announces(l)
    <3>1. Did(Start[c], "register")' <=> Did(Start[c], "register")
      <4>1. \A what :
               Did(Start[c], what)' <=> Did(Start[c], what) \/ Start[c][i][1] = what
        BY <1>0, <1>2, <1>3, DidNext
      <4>2. Start[c][i][1] # "register"
        BY <1>5
      <4> QED BY <4>1, <4>2
    <3> QED BY <1>1, <1>3, <3>1 DEF Announces
  <2>6. Directory'
    BY <1>3, <2>1, <2>5 DEF Details, Directory, Emptied
  <2>7. Services'
    <3>1. Services
      BY <1>3 DEF Details
    <3>2. \A l, k : Made(l, k)' <=> Made(l, k)
      BY <2>1 DEF Made
    <3>3. Made(c, i)
      BY <1>5 DEF Made
    <3>4. \A k \in DOMAIN Start[c] : k < i + 1 => k < i \/ k = i
      BY <1>2
    <3> QED BY <1>0, <1>1, <1>2, <1>3, <3>1, <3>2, <3>3, <3>4, ScriptOn DEF Services
  <2> QED BY <1>3, <2>3, <2>4, <2>6, <2>7 DEF ModulesInv, Details
<1>6. CASE Start[c][i][1] = "register"
  <2>1. registered' = registered \cup DOMAIN Handlers[c] /\ UNCHANGED <<running, alive>>
    BY <1>2, <1>6 DEF Do, Register
  <2>2. Early(c)
    BY <1>2, <1>6 DEF Early, Kinds
  <2>3. Props'
    BY <1>1, <1>2, <1>3, <2>1, <2>2, ScriptProps, HandlerFacts DEF Props, TypeOK
  <2>4. Workers'
    BY <1>3, <2>1, <2>2 DEF Details, Workers
  <2>5. ASSUME NEW l \in Present, NEW e \in DOMAIN Handlers[l]
        PROVE  e \in registered' <=> Announces(l)'
    <3>1. CASE l = c
      <4>1. Did(Start[c], "register")'
        BY <1>0, <1>2, <1>3, <1>6, DidNext
      <4> QED BY <1>3, <2>1, <2>2, <3>1, <4>1 DEF Announces
    <3>2. CASE l # c
      <4>1. e \notin DOMAIN Handlers[c]
        BY <1>2, <3>2, HandlerFacts
      <4>2. Announces(l)' <=> Announces(l)
        BY <1>1, <1>3, <3>2 DEF Announces
      <4>3. e \in registered <=> Announces(l)
        BY <1>3 DEF Details, Directory
      <4> QED BY <2>1, <4>1, <4>2, <4>3
    <3> QED BY <3>1, <3>2
  <2>6. Directory'
    <3>1. \A e \in DOMAIN Handlers[c] : Handler(e) \in mapped
      BY <1>2, HandlerFacts
    <3> QED BY <1>3, <2>1, <2>5, <3>1 DEF Details, Directory, Emptied
  <2>7. Services'
    <3>1. Services
      BY <1>3 DEF Details
    <3>2. \A l, k : Made(l, k)' <=> Made(l, k)
      BY <2>1 DEF Made
    <3>3. Made(c, i)
      BY <1>6 DEF Made
    <3>4. \A k \in DOMAIN Start[c] : k < i + 1 => k < i \/ k = i
      BY <1>2
    <3> QED BY <1>0, <1>1, <1>2, <1>3, <3>1, <3>2, <3>3, <3>4, ScriptOn DEF Services
  <2> QED BY <1>3, <2>3, <2>4, <2>6, <2>7 DEF ModulesInv, Details
<1> QED BY <1>2, <1>4, <1>5, <1>6

\* postStart uses services, calls other modules, runs threads and, in the event
\* service, registers handlers.
LEMMA PostScriptStep ==
    ASSUME ModulesInv, ScriptStep, phase = "post"
    PROVE  ModulesInv'
<1>0. PICK i \in Nat : i = at[2]
  BY ScriptOn
<1>1. PICK c \in Present : c = Current
  BY ScriptOn
<1>2. /\ c \in Library /\ c \in mapped /\ i \in DOMAIN PostStart[c]
      /\ PostStart[c][i][1] \in {"need", "apply", "announce", "run", "register"}
      /\ Do(c, PostStart[c][i]) /\ PostStart[c] \in Seq(STRING \X STRING)
  <2>1. Script = PostStart[c] /\ c \in Library /\ i \in DOMAIN PostStart[c]
    BY <1>0, <1>1, ScriptOn DEF Script
  <2>2. Do(c, PostStart[c][i])
    BY <1>0, <1>1, <2>1 DEF ScriptStep, NextStep
  <2>3. c \in mapped
    BY <1>1, ScriptOn DEF Details, Places, Props, TypeOK
  <2> QED BY <2>1, <2>2, <2>3, ScriptFacts
<1>3. /\ Live /\ Props /\ Details /\ at'[2] = i + 1 /\ at'[1] = at[1] /\ c = Current'
      /\ Reached' = Reached /\ Callers' = Callers
      /\ UNCHANGED <<phase, managed, mapped, calls, again, failed, crash>>
      /\ Places' /\ Stacks'
  BY <1>0, <1>1, ScriptOn
<1>4. \A what : Did(PostStart[c], what)' <=>
                    Did(PostStart[c], what) \/ PostStart[c][i][1] = what
  BY <1>0, <1>2, <1>3, DidNext
<1>5. alive' = alive /\ running \subseteq running' /\ running' \subseteq running \cup {c}
  BY <1>2 DEF Do, Run, Register
<1>6. Services'
  <2>1. \A l, k : Made(l, k)' <=> Made(l, k)
    BY <1>5 DEF Made
  <2> QED BY <1>3, <2>1 DEF Details, Services
<1>7. CASE PostStart[c][i][1] \in {"need", "apply", "announce", "run"}
  <2>1. registered' = registered /\ (running' = running \/ Runs(c))
    <3>1. PostStart[c][i][1] = "run" => Runs(c)
      BY <1>2 DEF Runs, Kinds
    <3> QED BY <1>2, <1>7, <3>1 DEF Do, Run
  <2>2. Props'
    BY <1>1, <1>2, <1>3, <1>5, <2>1, ScriptProps DEF Props, TypeOK
  <2>3. Workers'
    BY <1>3, <1>5, <2>1 DEF Details, Workers
  <2>4. ASSUME NEW l \in Present PROVE Announces(l)' <=> Announces(l)
    <3>1. PostStart[c][i][1] # "register"
      BY <1>7
    <3>2. Did(PostStart[c], "register")' <=> Did(PostStart[c], "register")
      BY <1>4, <3>1
    <3> QED BY <1>1, <1>3, <3>2 DEF Announces
  <2>5. Directory'
    BY <1>3, <2>1, <2>4 DEF Details, Directory, Emptied
  <2> QED BY <1>3, <1>6, <2>2, <2>3, <2>5 DEF ModulesInv, Details
<1>8. CASE PostStart[c][i][1] = "register"
  <2>1. registered' = registered \cup DOMAIN Handlers[c] /\ running' = running
    BY <1>2, <1>8 DEF Do, Register
  <2>2. ~Early(c)
    <3>1. "register" \in Kinds(PostStart[c])
      BY <1>2, <1>8 DEF Kinds
    <3> QED BY <1>2, <3>1, ScriptsAssumption DEF Early
  <2>3. Props'
    BY <1>1, <1>2, <1>3, <1>5, <2>1, ScriptProps, HandlerFacts DEF Props, TypeOK
  <2>4. Workers'
    BY <1>3, <2>1 DEF Details, Workers
  <2>5. ASSUME NEW l \in Present, NEW e \in DOMAIN Handlers[l]
        PROVE  e \in registered' <=> Announces(l)'
    <3>1. CASE l = c
      <4>1. Did(PostStart[c], "register")'
        BY <1>4, <1>8
      <4> QED BY <1>3, <2>1, <2>2, <3>1, <4>1 DEF Announces
    <3>2. CASE l # c
      <4>1. e \notin DOMAIN Handlers[c]
        BY <1>2, <3>2, HandlerFacts
      <4>2. Announces(l)' <=> Announces(l)
        BY <1>1, <1>3, <3>2 DEF Announces
      <4>3. e \in registered <=> Announces(l)
        BY <1>3 DEF Details, Directory
      <4> QED BY <2>1, <4>1, <4>2, <4>3
    <3> QED BY <3>1, <3>2
  <2>6. Directory'
    <3>1. \A e \in DOMAIN Handlers[c] : Handler(e) \in mapped
      BY <1>2, HandlerFacts
    <3> QED BY <1>3, <2>1, <2>5, <3>1 DEF Details, Directory, Emptied
  <2> QED BY <1>3, <1>6, <2>3, <2>4, <2>6 DEF ModulesInv, Details
<1> QED BY <1>2, <1>7, <1>8

\* stop takes handlers out, ends threads and waits for them, and takes the
\* services away: the module's own, never those of a module before it.
LEMMA StopScriptStep ==
    ASSUME ModulesInv, ScriptStep, phase \in {"stop", "abort"}
    PROVE  ModulesInv'
<1>0. PICK i \in Nat : i = at[2]
  BY ScriptOn
<1>1. PICK c \in Present : c = Current
  BY ScriptOn
<1>2. /\ c \in Library /\ c \in mapped /\ i \in DOMAIN Stop[c]
      /\ Stop[c][i][1] \in {"fin", "deregister", "halt", "join", "apply"}
      /\ Do(c, Stop[c][i]) /\ Stop[c] \in Seq(STRING \X STRING)
      /\ Stop[c][i] \in STRING \X STRING
  <2>1. Script = Stop[c] /\ c \in Library /\ i \in DOMAIN Stop[c]
    BY <1>0, <1>1, ScriptOn DEF Script
  <2>2. Do(c, Stop[c][i])
    BY <1>0, <1>1, <2>1 DEF ScriptStep, NextStep
  <2>3. c \in Before(at[1] + 1)
    BY <1>1, BeforeNext, ScriptOn
  <2>4. c \in mapped
    BY <2>3, ScriptOn DEF Details, Places, Props, TypeOK
  <2> QED BY <2>1, <2>2, <2>4, ScriptFacts
<1>3. /\ Live /\ Props /\ Details /\ at'[2] = i + 1 /\ at'[1] = at[1] /\ c = Current'
      /\ Reached' = Reached /\ Callers' = Callers
      /\ UNCHANGED <<phase, managed, mapped, calls, again, failed, crash>>
      /\ Places' /\ Stacks'
  BY <1>0, <1>1, ScriptOn
<1>4. \A what : Did(Stop[c], what)' <=> Did(Stop[c], what) \/ Stop[c][i][1] = what
  BY <1>0, <1>2, <1>3, DidNext
<1>5. /\ alive' \subseteq alive /\ registered' \subseteq registered
      /\ running' \subseteq running
      /\ \A x \in alive : x[1] # c => x \in alive'
      /\ \A e \in registered : e \in registered' \/ e \in DOMAIN Handlers[c]
                                 \/ Stop[c][i] = <<"fin", "EventServiceModule">>
      /\ Stop[c][i][1] = "halt" => c \notin running'
      /\ Stop[c][i][1] = "join" => calls[c] = << >>
      /\ Stop[c][i] = <<"fin", "EventServiceModule">> => registered' = {}
  <2>1. CASE Stop[c][i][1] = "fin"
    <3>1. PICK s \in STRING : s = Stop[c][i][2]
      BY <1>2
    <3>2. Stop[c][i] = <<"fin", s>> /\ Fin(c, s)
      BY <1>2, <2>1, <3>1 DEF Do
    <3>3. \A x \in alive : x[1] # c => x # <<c, s>>
      OBVIOUS
    <3> QED BY <3>2, <3>3 DEF Fin
  <2>2. CASE Stop[c][i][1] = "deregister"
    <3>1. Deregister(c) /\ Stop[c][i] # <<"fin", "EventServiceModule">>
      BY <1>2, <2>2 DEF Do
    <3>2. Deregistered[c] \subseteq DOMAIN Handlers[c]
      BY <1>2, HandlersAssumption
    <3> QED BY <2>2, <3>1, <3>2 DEF Deregister
  <2>3. CASE Stop[c][i][1] = "halt"
    <3>1. Halt(c, Stop[c][i][2]) /\ Stop[c][i] # <<"fin", "EventServiceModule">>
      BY <1>2, <2>3 DEF Do
    <3> QED BY <2>3, <3>1 DEF Halt
  <2>4. CASE Stop[c][i][1] \in {"join", "apply"}
    <3>1. /\ UNCHANGED <<alive, registered, running>>
          /\ Stop[c][i][1] = "join" => calls[c] = << >>
          /\ Stop[c][i] # <<"fin", "EventServiceModule">>
      BY <1>2, <2>4 DEF Do, Join
    <3> QED BY <2>4, <3>1
  <2> QED BY <1>2, <2>1, <2>2, <2>3, <2>4
<1>6. Props'
  <2>1. alive' \subseteq alive /\ registered' \subseteq Event /\ running' \subseteq running
    BY <1>3, <1>5 DEF Props, TypeOK
  <2> QED BY <1>1, <1>2, <2>1, ScriptProps
<1>7. Workers'
  <2>1. Did(Stop[c], "halt")' => c \notin running'
    BY <1>1, <1>3, <1>4, <1>5, ScriptOn DEF Details, Workers
  <2>2. Did(Stop[c], "join")' => c \notin Callers'
    <3>1. Did(Stop[c], "join") => c \notin Callers
      BY <1>1, <1>3, ScriptOn DEF Details, Workers
    <3>2. calls[c] = << >> => c \notin Callers
      BY DEF Callers
    <3> QED BY <1>3, <1>4, <1>5, <3>1, <3>2
  <2> QED BY <1>3, <1>5, <2>1, <2>2 DEF Details, Workers
<1>8. at[1] \in 1 .. Size /\ c = LoadOrder[at[1]] /\ Reached = at[1]
  BY <1>1, ScriptOn DEF Reached
<1>9. c \notin Before(at[1]) /\ Before(at[1]) \subseteq Present
  BY <1>8, BeforeNext, BeforeFacts, OrderFacts
<1>10. Directory'
  <2>1. Directory
    BY <1>3 DEF Details
  <2>2. ASSUME NEW l \in Before(at[1]), Early(l), NEW e \in DOMAIN Handlers[l]
        PROVE  e \in registered'
    <3>1. e \in registered /\ l # c /\ l \in Present
      BY <1>8, <1>9, <2>1, <2>2 DEF Directory
    <3>2. e \notin DOMAIN Handlers[c]
      BY <3>1, HandlerFacts
    <3>3. at[1] # 1
      BY <2>2, BeforeEnds
    <3>4. c # "event_service"
      BY <1>1, <3>3, OrderFacts, ScriptOn
    <3>5. Stop[c][i] # <<"fin", "EventServiceModule">>
      <4>1. <<"fin", "EventServiceModule">> \notin Range(Stop[c])
        BY <1>2, <3>4, ScriptsAssumption
      <4>2. Stop[c][i] \in Range(Stop[c])
        BY <1>2 DEF Range
      <4> QED BY <4>1, <4>2
    <3> QED BY <1>5, <3>1, <3>2, <3>5
  <2>3. Emptied' /\ failed' = "none" => registered' = {}
    <3> SUFFICES ASSUME Emptied', failed' = "none" PROVE registered' = {}
      OBVIOUS
    <3>1. phase = "stop" /\ at[1] = 1
      BY <1>3, <1>8 DEF Emptied
    <3>2. PICK k \in DOMAIN Stop[c] : k < i + 1 /\ Stop[c][k] = <<"fin", "EventServiceModule">>
      BY <1>3, <3>1 DEF Emptied
    <3>3. CASE k = i
      BY <1>5, <3>2, <3>3
    <3>4. CASE k < i
      <4>1. Emptied
        BY <1>0, <1>1, <3>1, <3>2, <3>4 DEF Emptied
      <4> QED BY <1>3, <1>5, <2>1, <4>1 DEF Directory
    <3> QED BY <1>2, <3>2, <3>3, <3>4
  <2> QED BY <1>3, <1>5, <1>8, <2>1, <2>2, <2>3 DEF Directory
<1>11. Services'
  <2>1. ASSUME NEW l \in Before(at[1]), NEW k \in DOMAIN Start[l] PROVE Made(l, k)'
    <3>1. Made(l, k) /\ l # c
      BY <1>3, <1>8, <1>9 DEF Details, Services
    <3> QED BY <1>5, <3>1 DEF Made
  <2> QED BY <1>3, <1>8, <2>1 DEF Services
<1> QED BY <1>3, <1>6, <1>7, <1>10, <1>11 DEF ModulesInv, Details

------------------------------------------------------------------------------
(* What ends and begins between the scripts.                               *)

\* A fault of the main thread, or of a thread that misses a service of its own
\* module or of a later one.
LEMMA CrashStep ==
    ASSUME ModulesInv, Live, NEW who, NEW h, Crash(who, h), calls' = calls,
           UNCHANGED <<mainVars, alive, registered, running>>,
           who = "main" \/ Place(who) <= Place(h)
    PROVE  ModulesInv'
<1>1. Props /\ phase # "ended"
  BY DEF ModulesInv, Live
<1>2. /\ crash' = <<who, h>> /\ crash'[1] = who /\ crash'[2] = h
      /\ UNCHANGED <<phase, managed, mapped, alive, registered, running, calls, failed,
                     changed>>
  BY DEF Crash, mainVars
<1>3. TypeOK'
  BY <1>1, <1>2 DEF Props, TypeOK
<1>4. CallsFindCode'
  BY <1>1, <1>2 DEF Props, CallsFindCode, CodeStaysLoaded, OnlyLaterModulesGone
<1>5. LoadsWhole'
  BY <1>1, <1>2 DEF Props, LoadsWhole, WholeOrNothing, OnlyConstructorsThrow
<1>6. ~Live'
  BY <1>2 DEF Live
<1> QED BY <1>3, <1>4, <1>5, <1>6 DEF ModulesInv, Props

\* What a postStart needs has been registered by the time it runs.
LEMMA NeededThere ==
    ASSUME ModulesInv, Live, phase = "post", NEW e \in Needed(Current)
    PROVE  Reachable(e)
<1>1. Places /\ Directory /\ Current \in Present
  BY CurrentFacts, OrderFacts DEF ModulesInv, Details, Places
<1>2. PICK o \in Present : Early(o) /\ e \in DOMAIN Handlers[o]
  BY <1>1, OrderAssumption
<1>3. e \in registered
  BY <1>1, <1>2 DEF Directory, Announces
<1> QED BY <1>1, <1>3, OrderFacts DEF Reachable, Places

\* Only a constructor, or the genesis block, throws.
LEMMA OnlyThese ==
    ASSUME ModulesInv, Live, Scripted, at[2] <= Len(Script), phase \in {"load", "post"},
           Throws(Current, NextStep)
    PROVE  Current \in MayThrow
<1>0. PICK i \in Nat : i = at[2] /\ i >= 1
  BY CurrentFacts DEF Scripted
<1>1. PICK c \in Present : c = Current /\ c \in Library
  BY CurrentFacts DEF Scripted
<1>2. Places /\ Directory /\ at[1] > 0
  BY DEF ModulesInv, Details, Scripted
<1>3. SUFFICES ASSUME c \notin MayThrow PROVE FALSE
  BY <1>1
<1>4. CASE phase = "load"
  <2>1. i \in DOMAIN Start[c] /\ NextStep = Start[c][i]
    BY <1>0, <1>1, <1>4, ScriptFacts DEF Script, NextStep
  <2>2. Start[c][i][1] = "register" /\ DOMAIN Handlers[c] \cap registered # {}
    BY <1>1, <1>3, <2>1, ScriptFacts DEF Throws
  <2>3. PICK e \in DOMAIN Handlers[c] : e \in registered
    BY <2>2
  <2>4. Announces(c) /\ Early(c)
    <3>1. Early(c)
      BY <2>1, <2>2 DEF Early, Kinds
    <3> QED BY <1>2, <1>4, <2>3, <3>1 DEF Directory
  <2>5. Did(Start[c], "register")
    <3>1. c \notin Before(at[1])
      BY <1>1, <1>2, <1>4, CurrentFacts, BeforeNext
    <3> QED BY <1>4, <2>4, <3>1 DEF Announces
  <2>6. PICK k \in DOMAIN Start[c] : k < i /\ Start[c][k][1] = "register"
    BY <1>0, <2>5 DEF Did
  <2>7. Once(Start[c], "register")
    BY <1>1, <2>4, ScriptsAssumption DEF Early
  <2>8. k = i
    BY <2>1, <2>2, <2>6, <2>7 DEF Once
  <2> QED BY <1>0, <2>6, <2>8
<1>5. CASE phase = "post"
  <2>1. i \in DOMAIN PostStart[c] /\ NextStep = PostStart[c][i]
    BY <1>0, <1>1, <1>5, ScriptFacts DEF Script, NextStep
  <2>2. \/ PostStart[c][i][1] = "register" /\ DOMAIN Handlers[c] \cap registered # {}
        \/ PostStart[c][i][1] = "apply" /\ ~Reachable(PostStart[c][i][2])
        \/ PostStart[c][i][1] = "announce" /\ ~Reachable("REGISTER_SERVICE_MESSAGE")
    BY <1>1, <1>3, <2>1, ScriptFacts DEF Throws
  <2>3. CASE PostStart[c][i][1] = "register" /\ DOMAIN Handlers[c] \cap registered # {}
    <3>1. PICK e \in DOMAIN Handlers[c] : e \in registered
      BY <2>3
    <3>2. Once(PostStart[c], "register") /\ ~Early(c)
      <4>1. "register" \in Kinds(PostStart[c])
        BY <2>1, <2>3 DEF Kinds
      <4> QED BY <1>1, <4>1, ScriptsAssumption DEF Early
    <3>3. Announces(c)
      BY <1>2, <1>5, <3>1 DEF Directory
    <3>4. c \notin Before(at[1])
      BY <1>1, <1>2, <1>5, CurrentFacts, BeforeNext
    <3>5. Did(PostStart[c], "register")
      BY <1>5, <3>2, <3>3, <3>4 DEF Announces
    <3>6. PICK k \in DOMAIN PostStart[c] : k < i /\ PostStart[c][k][1] = "register"
      BY <1>0, <3>5 DEF Did
    <3>7. k = i
      BY <2>1, <2>3, <3>2, <3>6 DEF Once
    <3> QED BY <1>0, <3>6, <3>7
  <2>4. CASE PostStart[c][i][1] = "apply"
    <3>1. PostStart[c][i][2] \in Needed(c)
      BY <2>1, <2>4 DEF Needed
    <3> QED BY <1>1, <1>5, <2>2, <2>4, <3>1, NeededThere
  <2>5. CASE PostStart[c][i][1] = "announce"
    <3>1. "REGISTER_SERVICE_MESSAGE" \in Needed(c)
      BY <2>1, <2>5 DEF Needed
    <3> QED BY <1>1, <1>5, <2>2, <2>5, <3>1, NeededThere
  <2> QED BY <2>2, <2>3, <2>4, <2>5
<1> QED BY <1>4, <1>5

------------------------------------------------------------------------------
(* From one script to the next.                                            *)

\* The properties when neither code nor services nor threads change.
LEMMA CalmProps ==
    ASSUME ModulesInv, Live,
           UNCHANGED <<mapped, alive, registered, running, calls, crash>>,
           changed' \subseteq Present, managed' \subseteq mapped,
           phase' \in {"load", "post", "stop", "abort", "unload"},
           failed' \in MayThrow \cup {"none"}, failed' = failed \/ failed = "none"
    PROVE  Props'
<1>1. Props /\ Stacks /\ crash = << >>
  BY DEF ModulesInv, Details, Live
<1>2. TypeOK'
  BY <1>1 DEF Props, TypeOK
<1>3. CallsFindCode'
  <2>1. ASSUME NEW l \in Present, NEW i \in DOMAIN calls[l]
        PROVE  Handler(calls[l][i].e) \in mapped \cup {failed'}
    <3>1. Handler(calls[l][i].e) \in mapped \cup {failed}
      BY <1>1 DEF Props, CallsFindCode, CodeStaysLoaded
    <3>2. calls[l][i] \in Frames
      BY <1>1 DEF Stacks
    <3>3. Handler(calls[l][i].e) # "none"
      BY <3>2, HandlerFacts, LoadOrderAssumption DEF Frames
    <3> QED BY <3>1, <3>3
  <2> QED BY <1>1, <2>1 DEF Props, CallsFindCode, CodeStaysLoaded, OnlyLaterModulesGone
<1>4. LoadsWhole'
  BY <1>1 DEF LoadsWhole, WholeOrNothing, OnlyConstructorsThrow
<1> QED BY <1>2, <1>3, <1>4 DEF Props

\* The directory holds no handler of a library that is gone when a start throws.
LEMMA HandlersMapped ==
    ASSUME ModulesInv, Live, phase \in {"load", "post", "monitor"}
    PROVE  \A e \in registered : Handler(e) \in mapped
<1>1. Places /\ Directory /\ registered \subseteq Event
  BY DEF ModulesInv, Details, Props, TypeOK
<1>2. \A e \in registered : Handler(e) # "none"
  BY <1>1, HandlerFacts, LoadOrderAssumption
<1> QED BY <1>1, <1>2 DEF Directory, Places

\* A start that throws is answered by stopping what there is.
LEMMA StartThrowsStep == ASSUME ModulesInv, StartThrows PROVE ModulesInv'
<1>1. /\ Live /\ Scripted /\ at[2] <= Len(Script) /\ phase \in {"load", "post"}
      /\ Throws(Current, NextStep) /\ failed' = Current /\ again' = FALSE
      /\ UNCHANGED <<managed, mapped, alive, registered, running, calls, changed, crash>>
  BY DEF StartThrows
<1>2. Props /\ Details /\ at[1] > 0 /\ at[2] > 0
  BY <1>1 DEF ModulesInv, Scripted
<1>3. /\ at[1] \in 1 .. Size /\ Current \in Present /\ Current \in Library
      /\ Current = LoadOrder[at[1]] /\ at[2] \in Nat
  BY <1>1, <1>2, CurrentFacts
<1>4. Current \in MayThrow
  BY <1>1, OnlyThese
<1>5. failed' # "none" /\ failed = "none"
  BY <1>1, <1>2, <1>3, LoadOrderAssumption DEF Details, Places
<1>6. Props'
  <2>1. phase' \in {"abort", "stop"}
    BY DEF StartThrows
  <2>2. changed' \subseteq Present /\ managed' \subseteq mapped
    BY <1>1, <1>2 DEF Props, TypeOK
  <2> QED BY <1>1, <1>4, <1>5, <2>1, <2>2, CalmProps
<1>7. Stacks'
  BY <1>1, <1>2 DEF Details, Stacks
<1>8. Callers' = Callers /\ (\A l, k : Made(l, k)' <=> Made(l, k))
  BY <1>1 DEF Callers, Made
<1>9. \A l \in Library : \A what : at'[2] = 1 => ~Did(Stop[l], what)'
  BY ScriptFacts DEF Did
<1>10. CASE phase = "load"
  <2>1. phase' = "abort" /\ at' = <<at[1], 1>> /\ at'[1] = at[1] /\ at'[2] = 1
    BY <1>10 DEF StartThrows
  <2>2. Current' = Current /\ Reached' = Reached
    BY <1>10, <2>1 DEF Current, Reached
  <2>3. Places'
    BY <1>1, <1>2, <1>3, <1>10, <2>1, <2>2 DEF Details, Places
  <2>4. Workers'
    BY <1>1, <1>2, <1>3, <1>8, <1>9, <1>10, <2>1, <2>2 DEF Details, Workers
  <2>5. Directory'
    BY <1>1, <1>2, <1>5, <1>10, <2>1, <2>2, HandlersMapped DEF Details, Directory
  <2>6. Services'
    BY <1>2, <1>8, <2>1, <2>2 DEF Details, Services
  <2> QED BY <1>6, <1>7, <2>3, <2>4, <2>5, <2>6 DEF ModulesInv, Details
<1>11. CASE phase = "post"
  <2>1. managed = Present /\ Cardinality(managed) = Size
    <3>1. managed = Present
      BY <1>2, <1>11 DEF Details, Places
    <3> QED BY <3>1, BeforeEnds, BeforeCounted, OrderFacts
  <2>2. phase' = "stop" /\ at' = <<Size, 1>> /\ at'[1] = Size /\ at'[2] = 1
    BY <1>11, <2>1 DEF StartThrows
  <2>3. /\ Reached = Size + 1 /\ Reached' = Size
        /\ Before(Size) \subseteq Before(Size + 1) /\ Before(Size + 1) = Present
    BY <1>11, <2>2, BeforeEnds, BeforeNext, OrderFacts DEF Reached
  <2>4. Places'
    BY <1>1, <1>3, <2>1, <2>2, <2>3, OrderFacts DEF Places
  <2>5. Current' \in Library
    BY <2>2, OrderFacts DEF Current
  <2>6. Workers'
    <3>1. running' \cup Callers' \subseteq Before(at'[1] + 1)
      BY <1>1, <1>2, <1>8, <2>2, <2>3 DEF Props, TypeOK, Callers
    <3> QED BY <1>1, <1>2, <1>8, <1>9, <2>2, <2>5, <3>1 DEF Details, Workers
  <2>7. Directory'
    BY <1>1, <1>2, <1>5, <1>11, <2>2, <2>3, HandlersMapped DEF Details, Directory
  <2>8. Services'
    BY <1>2, <1>8, <2>2, <2>3 DEF Details, Services
  <2> QED BY <1>6, <1>7, <2>4, <2>6, <2>7, <2>8 DEF ModulesInv, Details
<1> QED BY <1>1, <1>10, <1>11

\* At the end of start all services are made, and the handlers registered if
\* start is what registers them.
LEMMA StartWhole ==
    ASSUME ModulesInv, Live, phase = "load", at[2] > Len(Start[Current])
    PROVE  /\ \A k \in DOMAIN Start[Current] : Made(Current, k)
           /\ Early(Current) => Announces(Current)
           /\ Early(Current) => DOMAIN Handlers[Current] \subseteq registered
<1>1. Places /\ Services /\ Directory
  BY DEF ModulesInv, Details
<1>2. at[1] > 0
  BY <1>1, OrderFacts DEF Places
<1>3. Current \in Present /\ Current \in Library /\ at[2] \in Nat
  BY <1>2, CurrentFacts
<1>4. /\ DOMAIN Start[Current] = 1 .. Len(Start[Current]) /\ Len(Start[Current]) \in Nat
  BY <1>3, ScriptFacts
<1>5. (\A k \in DOMAIN Start[Current] : k < at[2]) /\ at[2] > 0
  BY <1>3, <1>4
<1>6. Early(Current) => Announces(Current)
  <2> SUFFICES ASSUME Early(Current) PROVE Did(Start[Current], "register")
    BY DEF Announces
  <2>1. PICK k \in DOMAIN Start[Current] : Start[Current][k][1] = "register"
    BY DEF Early, Kinds
  <2> QED BY <1>5, <2>1 DEF Did
<1> QED BY <1>1, <1>3, <1>5, <1>6 DEF Services, Directory

\* A started module goes into the maps; after the last one postStart follows.
LEMMA StartedStep == ASSUME ModulesInv, Started PROVE ModulesInv'
<1>1. /\ Live /\ phase = "load" /\ at[2] > Len(Script) /\ managed' = managed \cup {Current}
      /\ UNCHANGED <<mapped, alive, registered, running, calls, again, failed, changed, crash>>
  BY DEF Started
<1>2. Script = Start[Current]
  BY <1>1 DEF Script
<1>3. Props /\ Details
  BY <1>1 DEF ModulesInv
<1>4. at[1] > 0
  BY <1>1, <1>3, OrderFacts DEF Details, Places
<1>5. PICK c \in Present : c = Current
  BY <1>1, <1>4, CurrentFacts
<1>6. /\ at[1] \in 1 .. Size /\ c \in Library /\ c = LoadOrder[at[1]] /\ at[2] \in Nat
      /\ Place(c) = at[1]
  BY <1>1, <1>4, <1>5, CurrentFacts
<1>7. at[2] # 0
  BY <1>1, <1>2, <1>5, <1>6, ScriptFacts
<1>8. /\ mapped = Before(at[1] + 1) /\ managed' = mapped /\ failed = "none"
      /\ Before(at[1] + 1) = Before(at[1]) \cup {c}
  BY <1>1, <1>3, <1>5, <1>6, <1>7, BeforeNext DEF Details, Places
<1>9. /\ \A k \in DOMAIN Start[c] : Made(c, k)
      /\ Early(c) => Announces(c)
      /\ Early(c) => DOMAIN Handlers[c] \subseteq registered
  BY <1>1, <1>2, <1>5, StartWhole
<1>10. Props'
  <2>1. phase' \in {"load", "post"}
    BY <1>1 DEF Started
  <2> QED BY <1>1, <1>3, <1>8, <2>1, CalmProps
          DEF Props, TypeOK, LoadsWhole, OnlyConstructorsThrow
<1>11. Stacks' /\ Callers' = Callers /\ (\A l, k : Made(l, k)' <=> Made(l, k))
  BY <1>1, <1>3 DEF Details, Stacks, Callers, Made
<1>12. \A l \in Before(at[1] + 1) : \A k \in DOMAIN Start[l] : Made(l, k)'
  BY <1>1, <1>3, <1>8, <1>9, <1>11 DEF Details, Services, Reached
<1>13. \A l \in Before(at[1] + 1) : Early(l) => DOMAIN Handlers[l] \subseteq registered'
  BY <1>1, <1>3, <1>8, <1>9 DEF Details, Directory, Reached
<1>14. \A e \in registered' : Handler(e) \in mapped'
  BY <1>1, HandlersMapped
<1>15. \A l \in Present : \A e \in DOMAIN Handlers[l] : e \in registered' <=> Announces(l)
  BY <1>1, <1>3 DEF Details, Directory
<1>16. \A l \in Library : \A k \in DOMAIN Start[l] \cup DOMAIN PostStart[l] : k \in Nat /\ k >= 1
  BY ScriptFacts
<1>17. CASE phase' = "load"
  <2>1. /\ at[1] < Size /\ at' = <<at[1] + 1, 0>> /\ at'[1] = at[1] + 1 /\ at'[2] = 0
    BY <1>1, <1>17 DEF Started, Size
  <2>2. Reached' = at[1] + 1
    BY <1>17, <2>1 DEF Reached
  <2>3. Places'
    BY <1>1, <1>3, <1>6, <1>8, <1>17, <2>1, OrderFacts DEF Places
  <2>4. Workers'
    BY <1>1, <1>3, <1>11, <1>17 DEF Details, Workers
  <2>5. ASSUME NEW l \in Present PROVE Announces(l)' <=> Announces(l)
    <3>1. ~Did(Start[l], "register")'
      <4>1. l \in Library
        BY OrderFacts
      <4> QED BY <1>16, <2>1, <4>1 DEF Did
    <3>2. CASE l = c
      BY <1>1, <1>5, <1>8, <1>9, <1>17, <2>1, <3>2 DEF Announces
    <3>3. CASE l # c
      BY <1>1, <1>5, <1>8, <1>17, <2>1, <3>1, <3>3 DEF Announces
    <3> QED BY <3>2, <3>3
  <2>6. Directory'
    <3>1. ~Emptied'
      BY <1>17 DEF Emptied
    <3> QED BY <1>1, <1>13, <1>14, <1>15, <2>2, <2>5, <3>1 DEF Directory
  <2>7. Services'
    BY <1>12, <2>1, <2>2 DEF Services
  <2> QED BY <1>10, <1>11, <2>3, <2>4, <2>6, <2>7 DEF ModulesInv, Details
<1>18. CASE phase' = "post"
  <2>1. /\ at[1] = Size /\ at' = <<1, 1>> /\ at'[1] = 1 /\ at'[2] = 1
    BY <1>1, <1>18 DEF Started, Size
  <2>2. Reached' = at[1] + 1 /\ Before(at[1] + 1) = Present
    BY <1>18, <2>1, BeforeEnds DEF Reached
  <2>3. Places'
    BY <1>1, <1>3, <1>6, <1>8, <1>18, <2>1, <2>2, OrderFacts DEF Places
  <2>4. Workers'
    BY <1>1, <1>3, <1>11, <1>18 DEF Details, Workers
  <2>5. ASSUME NEW l \in Present PROVE Announces(l)' <=> Announces(l)
    <3>1. ~Did(PostStart[l], "register")'
      <4>1. l \in Library
        BY OrderFacts
      <4> QED BY <1>16, <2>1, <4>1 DEF Did
    <3>2. l \in Before(at[1]) \/ l = c
      BY <1>8, <2>2
    <3> QED BY <1>1, <1>5, <1>9, <1>18, <2>1, <3>1, <3>2, BeforeEnds DEF Announces
  <2>6. Directory'
    <3>1. ~Emptied'
      BY <1>18 DEF Emptied
    <3> QED BY <1>1, <1>13, <1>14, <1>15, <2>2, <2>5, <3>1 DEF Directory
  <2>7. Services'
    BY <1>12, <1>18, <2>2 DEF Services
  <2> QED BY <1>10, <1>11, <2>3, <2>4, <2>6, <2>7 DEF ModulesInv, Details
<1>19. phase' \in {"load", "post"}
  BY <1>1 DEF Started
<1> QED BY <1>17, <1>18, <1>19

\* When the last module is announced every module is served.
LEMMA AnnouncedStep == ASSUME ModulesInv, Announced PROVE ModulesInv'
<1>1. /\ Live /\ phase = "post" /\ at[2] > Len(Script)
      /\ UNCHANGED <<managed, mapped, alive, registered, running, calls, again, failed,
                     changed, crash>>
  BY DEF Announced
<1>2. Script = PostStart[Current]
  BY <1>1 DEF Script
<1>3. Props /\ Details
  BY <1>1 DEF ModulesInv
<1>4. at[1] > 0
  BY <1>1, <1>3, OrderFacts DEF Details, Places
<1>5. PICK c \in Present : c = Current
  BY <1>1, <1>4, CurrentFacts
<1>6. at[1] \in 1 .. Size /\ c \in Library /\ c = LoadOrder[at[1]] /\ at[2] \in Nat
  BY <1>1, <1>4, <1>5, CurrentFacts
<1>7. managed = Present /\ failed = "none" /\ Before(at[1] + 1) = Before(at[1]) \cup {c}
  BY <1>1, <1>3, <1>6, BeforeNext DEF Details, Places
<1>8. Announces(c)
  <2>1. CASE Early(c)
    BY <1>1, <2>1 DEF Announces
  <2>2. CASE ~Early(c)
    <3>1. Once(PostStart[c], "register")
      <4>1. "register" \notin Kinds(Start[c])
        BY <2>2 DEF Early
      <4>2. Once(Start[c], "register") => "register" \in Kinds(Start[c])
        BY DEF Once, Kinds
      <4> QED BY <1>6, <4>1, <4>2, ScriptsAssumption
    <3>2. PICK k \in DOMAIN PostStart[c] : PostStart[c][k][1] = "register"
      BY <3>1 DEF Once
    <3>3. k < at[2]
      BY <1>1, <1>2, <1>5, <1>6, <3>2, ScriptFacts
    <3>4. Did(PostStart[c], "register")
      BY <3>2, <3>3 DEF Did
    <3> QED BY <1>1, <1>5, <2>2, <3>4 DEF Announces
  <2> QED BY <2>1, <2>2
<1>9. Stacks' /\ Callers' = Callers /\ (\A l, k : Made(l, k)' <=> Made(l, k))
  BY <1>1, <1>3 DEF Details, Stacks, Callers, Made
<1>10. \A e \in registered' : Handler(e) \in mapped'
  BY <1>1, HandlersMapped
<1>11. \A l \in Present : \A e \in DOMAIN Handlers[l] : e \in registered' <=> Announces(l)
  BY <1>1, <1>3 DEF Details, Directory
<1>12. CASE phase' = "post"
  <2>1. /\ at[1] < Size /\ at' = <<at[1] + 1, 1>> /\ at'[1] = at[1] + 1 /\ at'[2] = 1
    BY <1>1, <1>12 DEF Announced, Size
  <2>2. Reached' = Reached
    BY <1>1, <1>12 DEF Reached
  <2>3. Places'
    BY <1>1, <1>3, <1>6, <1>7, <1>12, <2>1, OrderFacts DEF Places
  <2>4. Workers'
    BY <1>1, <1>3, <1>9, <1>12 DEF Details, Workers
  <2>5. ASSUME NEW l \in Present PROVE Announces(l)' <=> Announces(l)
    <3>1. ~Did(PostStart[l], "register")'
      <4>1. l \in Library
        BY OrderFacts
      <4> QED BY <2>1, <4>1, ScriptFacts DEF Did
    <3>2. CASE l = c
      BY <1>1, <1>5, <1>7, <1>8, <1>12, <2>1, <3>2 DEF Announces
    <3>3. CASE l # c
      BY <1>1, <1>5, <1>7, <1>12, <2>1, <3>1, <3>3 DEF Announces
    <3> QED BY <3>2, <3>3
  <2>6. Directory'
    <3>1. ~Emptied'
      BY <1>12 DEF Emptied
    <3> QED BY <1>1, <1>3, <1>10, <1>11, <2>2, <2>5, <3>1 DEF Details, Directory
  <2>7. Services'
    BY <1>3, <1>9, <1>12, <2>2 DEF Details, Services
  <2>8. Props'
    BY <1>1, <1>3, <1>12, CalmProps DEF Props, TypeOK, LoadsWhole, OnlyConstructorsThrow
  <2> QED BY <1>9, <2>3, <2>4, <2>6, <2>7, <2>8 DEF ModulesInv, Details
<1>13. CASE phase' = "monitor"
  <2>1. /\ at[1] = Size /\ at' = <<1, 1>>
    BY <1>1, <1>13 DEF Announced, Size
  <2>2. Reached' = Reached /\ Reached = Size + 1 /\ Before(at[1] + 1) = Present
    BY <1>1, <1>13, <2>1, BeforeEnds DEF Reached
  <2>3. Places'
    BY <1>1, <1>3, <1>7, <1>13, <2>1 DEF Details, Places
  <2>4. Workers'
    BY <1>1, <1>3, <1>9, <1>13 DEF Details, Workers
  <2>5. ASSUME NEW l \in Present PROVE Announces(l)' /\ Announces(l)
    <3>1. l \in Before(at[1]) \/ l = c
      BY <1>7, <2>2
    <3> QED BY <1>1, <1>5, <1>8, <1>13, <3>1 DEF Announces
  <2>6. Directory'
    <3>1. ~Emptied'
      BY <1>13 DEF Emptied
    <3> QED BY <1>1, <1>3, <1>10, <1>11, <2>2, <2>5, <3>1 DEF Details, Directory
  <2>7. Services'
    BY <1>3, <1>9, <1>13, <2>2 DEF Details, Services
  <2>8. TypeOK' /\ CallsFindCode' /\ OnlyConstructorsThrow'
    BY <1>1, <1>3, <1>13 DEF Props, TypeOK, CallsFindCode, CodeStaysLoaded,
          OnlyLaterModulesGone, LoadsWhole, OnlyConstructorsThrow
  <2>9. WholeOrNothing'
    <3>1. ASSUME NEW l \in Present, NEW e \in DOMAIN Handlers[l] PROVE Served(e)'
      <4>1. Handler(e) = l /\ l \in Library
        BY HandlerFacts, OrderFacts
      <4>2. <<"init", Handlers[l][e]>> \in Range(Start[l])
        BY <4>1, HandlersAssumption
      <4>3. PICK k \in DOMAIN Start[l] : Start[l][k] = <<"init", Handlers[l][e]>>
        BY <4>2 DEF Range
      <4>4. <<l, Handlers[l][e]>> \in alive
        <5>1. Made(l, k)
          BY <1>3, <2>1, <2>2 DEF Details, Services
        <5> QED BY <4>3, <5>1 DEF Made
      <4> QED BY <1>1, <1>7, <1>11, <2>5, <4>1, <4>4, OrderFacts
              DEF Served, Reachable, Has
    <3> QED BY <1>1, <1>7, <1>13, <3>1 DEF WholeOrNothing
  <2> QED BY <1>9, <2>3, <2>4, <2>6, <2>7, <2>8, <2>9 DEF ModulesInv, Details, Props, LoadsWhole
<1>14. phase' \in {"post", "monitor"}
  BY <1>1 DEF Announced
<1> QED BY <1>12, <1>13, <1>14

------------------------------------------------------------------------------
(* Stopping and unloading.                                                 *)

\* A change of a library, or the signal, ends the monitoring.
LEMMA MonitoredStep == ASSUME ModulesInv, Monitored PROVE ModulesInv'
<1>1. /\ Live /\ phase = "monitor" /\ phase' = "stop" /\ at' = <<Cardinality(managed), 1>>
      /\ UNCHANGED <<managed, mapped, alive, registered, running, calls, failed, changed,
                     crash>>
  BY DEF Monitored
<1>2. Props /\ Details
  BY <1>1 DEF ModulesInv
<1>3. managed = Present /\ failed = "none" /\ Cardinality(managed) = Size
  <2>1. managed = Present /\ failed = "none"
    BY <1>1, <1>2 DEF Details, Places
  <2> QED BY <2>1, BeforeEnds, BeforeCounted, OrderFacts
<1>4. at' = <<Size, 1>> /\ at'[1] = Size /\ at'[2] = 1
  BY <1>1, <1>3
<1>5. /\ Reached = Size + 1 /\ Reached' = Size
      /\ Before(Size) \subseteq Before(Size + 1) /\ Before(Size + 1) = Present
  BY <1>1, <1>4, BeforeEnds, BeforeNext, OrderFacts DEF Reached
<1>6. Props'
  BY <1>1, <1>2, CalmProps DEF Props, TypeOK, LoadsWhole, OnlyConstructorsThrow
<1>7. Places'
  BY <1>1, <1>3, <1>4, <1>5, OrderFacts DEF Places
<1>8. Stacks' /\ Callers' = Callers /\ (\A l, k : Made(l, k)' <=> Made(l, k))
  BY <1>1, <1>2 DEF Details, Stacks, Callers, Made
<1>9. \A l \in Library : \A what : ~Did(Stop[l], what)'
  BY <1>4, ScriptFacts DEF Did
<1>10. Current' \in Library
  BY <1>4, OrderFacts DEF Current
<1>11. Workers'
  <2>1. running' \cup Callers' \subseteq Before(at'[1] + 1)
    BY <1>1, <1>2, <1>4, <1>5, <1>8 DEF Props, TypeOK, Callers
  <2> QED BY <1>1, <1>2, <1>8, <1>9, <1>10, <2>1 DEF Details, Workers
<1>12. Directory'
  <2>1. ~Emptied'
    <3>1. \A k \in DOMAIN Stop[Current'] : ~(k < 1)
      BY <1>10, ScriptFacts
    <3> QED BY <1>1, <1>4, <3>1, OrderFacts DEF Emptied
  <2> QED BY <1>1, <1>2, <1>5, <2>1, HandlersMapped DEF Details, Directory
<1>13. Services'
  BY <1>1, <1>2, <1>5, <1>8 DEF Details, Services
<1> QED BY <1>6, <1>7, <1>8, <1>11, <1>12, <1>13 DEF ModulesInv, Details

\* A stopped module has no thread at work and none inside a call.
LEMMA StoppedIdle ==
    ASSUME ModulesInv, Live, phase \in {"stop", "abort"}, at[1] > 0,
           at[2] > Len(Stop[Current])
    PROVE  Current \notin running \cup Callers
<1>1. PICK c \in Present : c = Current /\ c \in Library /\ at[2] \in Nat
  BY CurrentFacts
<1>2. Workers
  BY DEF ModulesInv, Details
<1>3. SUFFICES ASSUME c \in running \cup Callers PROVE FALSE
  BY <1>1
<1>4. Runs(c)
  BY <1>2, <1>3 DEF Workers
<1>5. PICK k \in DOMAIN Stop[c] : /\ Stop[c][k][1] = "join"
                                  /\ \E i \in 1 .. (k - 1) : Stop[c][i][1] = "halt"
  BY <1>1, <1>4, WorkersWaited
<1>6. PICK i \in 1 .. (k - 1) : Stop[c][i][1] = "halt"
  BY <1>5
<1>7. k < at[2] /\ i < at[2] /\ i \in DOMAIN Stop[c]
  BY <1>1, <1>5, <1>6, ScriptFacts
<1>8. Did(Stop[c], "join") /\ Did(Stop[c], "halt")
  BY <1>5, <1>6, <1>7 DEF Did
<1> QED BY <1>1, <1>2, <1>3, <1>8 DEF Workers

\* The module before the stopped one is next.
LEMMA StoppedStep == ASSUME ModulesInv, Stopped PROVE ModulesInv'
<1>1. /\ Live /\ phase = "stop" /\ at[1] > 0 /\ at[2] > Len(Script)
      /\ at' = <<at[1] - 1, 1>>
      /\ UNCHANGED <<phase, managed, mapped, alive, registered, running, calls, again,
                     failed, changed, crash>>
  BY DEF Stopped
<1>2. Props /\ Details
  BY <1>1 DEF ModulesInv
<1>3. PICK c \in Present : c = Current
  BY <1>1, CurrentFacts
<1>4. at[1] \in 1 .. Size /\ c \in Library /\ c = LoadOrder[at[1]] /\ at[2] \in Nat
  BY <1>1, <1>3, CurrentFacts
<1>5. at[2] > Len(Stop[c]) /\ c \notin running \cup Callers
  BY <1>1, <1>3, StoppedIdle DEF Script
<1>6. at'[1] = at[1] - 1 /\ at'[2] = 1 /\ at'[1] + 1 = at[1]
  BY <1>1, <1>4
<1>7. /\ Before(at[1] + 1) = Before(at[1]) \cup {c} /\ Before(at[1]) \subseteq Before(at[1] + 1)
      /\ Before(at[1] - 1) \subseteq Before(at[1])
  <2>1. Before(at[1] + 1) = Before(at[1]) \cup {c}
    BY <1>4, BeforeNext
  <2>2. Before(at[1] - 1) \subseteq Before(at[1])
    BY <1>4 DEF Before
  <2> QED BY <2>1, <2>2
<1>8. Reached = at[1] /\ Reached' = at[1] - 1
  BY <1>1, <1>6 DEF Reached
<1>9. Props'
  BY <1>1, <1>2, CalmProps DEF Props, TypeOK, LoadsWhole, OnlyConstructorsThrow
<1>10. Stacks' /\ Callers' = Callers /\ (\A l, k : Made(l, k)' <=> Made(l, k))
  BY <1>1, <1>2 DEF Details, Stacks, Callers, Made
<1>11. Places'
  <2>1. Before(at'[1] + 1) \subseteq managed'
    BY <1>1, <1>2, <1>6, <1>7 DEF Details, Places
  <2>2. at'[1] \in 0 .. Size /\ at' \in Nat \X Nat /\ at'[2] >= 1
    BY <1>1, <1>4, <1>6, OrderFacts
  <2> QED BY <1>1, <1>2, <2>1, <2>2 DEF Details, Places
<1>12. \A l \in Library : \A k \in DOMAIN Stop[l] : ~(k < at'[2])
  BY <1>6, ScriptFacts
<1>13. at'[1] > 0 => Current' \in Library
  BY <1>4, <1>6, OrderFacts DEF Current
<1>14. Workers'
  <2>1. running' \cup Callers' \subseteq Before(at'[1] + 1)
    BY <1>1, <1>2, <1>5, <1>6, <1>7, <1>10 DEF Details, Workers
  <2>2. at'[1] > 0 => \A what : ~Did(Stop[Current], what)'
    BY <1>12, <1>13 DEF Did
  <2> QED BY <1>1, <1>2, <1>10, <2>1, <2>2 DEF Details, Workers
<1>15. Directory'
  <2>1. Directory
    BY <1>2 DEF Details
  <2>2. ASSUME Emptied', failed = "none" PROVE registered = {}
    <3>1. at'[1] = 0
      <4>1. \/ at'[1] = 0
            \/ at'[1] = 1 /\ \E k \in DOMAIN Stop[Current'] : k < at'[2]
        BY <1>1, <2>2 DEF Emptied
      <4> QED BY <1>12, <1>13, <4>1
    <3>2. c = "event_service" /\ at[1] = 1
      BY <1>4, <1>6, <3>1, OrderFacts
    <3>3. <<"fin", "EventServiceModule">> \in Range(Stop[c])
      BY <1>4, <3>2, ScriptsAssumption
    <3>4. PICK k \in DOMAIN Stop[c] : Stop[c][k] = <<"fin", "EventServiceModule">>
      BY <3>3 DEF Range
    <3>5. k < at[2]
      BY <1>4, <1>5, <3>4, ScriptFacts
    <3>6. Emptied
      BY <1>1, <1>3, <3>2, <3>4, <3>5 DEF Emptied
    <3> QED BY <2>1, <2>2, <3>6 DEF Directory
  <2>3. \A l \in Before(Reached') : Early(l) => DOMAIN Handlers[l] \subseteq registered
    BY <1>7, <1>8, <2>1 DEF Directory
  <2> QED BY <1>1, <2>1, <2>2, <2>3 DEF Directory
<1>16. Services'
  BY <1>1, <1>2, <1>7, <1>8, <1>10 DEF Details, Services
<1> QED BY <1>9, <1>10, <1>11, <1>14, <1>15, <1>16 DEF ModulesInv, Details

\* The library of the module whose start threw goes, with what it made; its
\* threads have ended.
LEMMA AbortedStep == ASSUME ModulesInv, Aborted PROVE ModulesInv'
<1>1. /\ Live /\ phase = "abort" /\ at[2] > Len(Script) /\ mapped' = mapped \ {Current}
      /\ alive' = {x \in alive : x[1] # Current}
      /\ phase' = "stop" /\ at' = <<Cardinality(managed), 1>>
      /\ UNCHANGED <<managed, registered, running, calls, again, failed, changed, crash>>
  BY DEF Aborted
<1>2. Props /\ Details
  BY <1>1 DEF ModulesInv
<1>3. at[1] > 0
  BY <1>1, <1>2, OrderFacts DEF Details, Places
<1>4. PICK c \in Present : c = Current
  BY <1>1, <1>3, CurrentFacts
<1>5. at[1] \in 1 .. Size /\ c \in Library /\ c = LoadOrder[at[1]] /\ at[2] \in Nat
  BY <1>1, <1>3, <1>4, CurrentFacts
<1>6. c \notin running \cup Callers
  BY <1>1, <1>3, <1>4, StoppedIdle DEF Script
<1>7. /\ managed = Before(at[1]) /\ mapped' = Before(at[1]) /\ failed = c /\ c \notin Before(at[1])
      /\ mapped = mapped' \cup {c}
  BY <1>1, <1>2, <1>4, <1>5, BeforeNext DEF Details, Places
<1>8. Cardinality(managed) = at[1] - 1
  BY <1>5, <1>7, BeforeCounted, OrderFacts
<1>9. /\ at' = <<at[1] - 1, 1>> /\ at'[1] = at[1] - 1 /\ at'[2] = 1 /\ at'[1] + 1 = at[1]
  BY <1>1, <1>5, <1>8
<1>10. Stacks' /\ Callers' = Callers
  BY <1>1, <1>2 DEF Details, Stacks, Callers
<1>11. failed # "none"
  BY <1>5, <1>7, LoadOrderAssumption
<1>12. Props'
  <2>1. TypeOK'
    <3>1. \A x \in alive' : x[1] \in mapped' /\ <<"init", x[2]>> \in Range(Start[x[1]])
      BY <1>1, <1>2, <1>4, <1>7 DEF Props, TypeOK
    <3> QED BY <1>1, <1>2, <1>6, <1>7, <3>1 DEF Props, TypeOK
  <2>2. CodeStaysLoaded'
    BY <1>1, <1>2, <1>6, <1>7, <1>10 DEF Props, CallsFindCode, CodeStaysLoaded, Callers
  <2>3. OnlyLaterModulesGone' /\ LoadsWhole'
    BY <1>1, <1>2 DEF Props, CallsFindCode, OnlyLaterModulesGone, LoadsWhole,
          WholeOrNothing, OnlyConstructorsThrow
  <2> QED BY <2>1, <2>2, <2>3 DEF Props, CallsFindCode
<1>13. Places'
  BY <1>1, <1>2, <1>5, <1>7, <1>9, OrderFacts DEF Details, Places
<1>14. \A l \in Library : \A k \in DOMAIN Stop[l] : ~(k < at'[2])
  BY <1>9, ScriptFacts
<1>15. at'[1] > 0 => Current' \in Library
  BY <1>5, <1>9, OrderFacts DEF Current
<1>16. Workers'
  <2>1. running' \cup Callers' \subseteq Before(at'[1] + 1)
    BY <1>1, <1>2, <1>6, <1>7, <1>9, <1>10 DEF Props, CallsFindCode, CodeStaysLoaded, Callers
  <2>2. at'[1] > 0 => \A what : ~Did(Stop[Current], what)'
    BY <1>14, <1>15 DEF Did
  <2> QED BY <1>1, <1>2, <1>10, <2>1, <2>2 DEF Details, Workers
<1>17. Reached = at[1] /\ Reached' = at[1] - 1 /\ Before(at[1] - 1) \subseteq Before(at[1])
  <2>1. Before(at[1] - 1) \subseteq Before(at[1])
    BY <1>5 DEF Before
  <2> QED BY <1>1, <1>9, <2>1 DEF Reached
<1>18. Directory'
  BY <1>1, <1>2, <1>7, <1>11, <1>17 DEF Details, Directory
<1>19. Services'
  <2>1. ASSUME NEW l \in Before(at[1] - 1), NEW k \in DOMAIN Start[l] PROVE Made(l, k)'
    <3>1. Made(l, k) /\ l # c
      BY <1>2, <1>7, <1>17, <2>1 DEF Details, Services
    <3> QED BY <1>1, <1>4, <3>1 DEF Made
  <2> QED BY <1>1, <1>17, <2>1 DEF Services
<1> QED BY <1>10, <1>12, <1>13, <1>16, <1>18, <1>19 DEF ModulesInv, Details

\* The maps are cleared when every module has stopped.
LEMMA ClearModulesStep == ASSUME ModulesInv, ClearModules PROVE ModulesInv'
<1>1. /\ Live /\ phase = "stop" /\ at[1] = 0 /\ managed' = {} /\ phase' = "unload"
      /\ UNCHANGED <<at, mapped, alive, registered, running, calls, again, failed, changed,
                     crash>>
  BY DEF ClearModules
<1>2. Props /\ Details
  BY <1>1 DEF ModulesInv
<1>3. Props'
  BY <1>1, <1>2, CalmProps DEF Props, TypeOK, LoadsWhole, OnlyConstructorsThrow
<1>4. Stacks' /\ Callers' = Callers
  BY <1>1, <1>2 DEF Details, Stacks, Callers
<1>5. Places'
  BY <1>1, <1>2 DEF Details, Places
<1>6. Workers'
  <2>1. at[1] + 1 = 1
    BY <1>1
  <2>2. running \cup Callers \subseteq {}
    BY <1>1, <1>2, <2>1, BeforeEnds DEF Details, Workers
  <2> QED BY <1>1, <1>2, <1>4, <2>2 DEF Details, Workers
<1>7. Reached' = 0 /\ Before(0) = {}
  BY <1>1, BeforeEnds DEF Reached
<1>8. Directory'
  <2>1. Emptied
    BY <1>1 DEF Emptied
  <2> QED BY <1>1, <1>2, <1>7, <2>1 DEF Details, Directory
<1>9. Services'
  BY <1>1, <1>7 DEF Services
<1> QED BY <1>3, <1>4, <1>5, <1>6, <1>8, <1>9 DEF ModulesInv, Details

\* The libraries go when nobody is in them.
LEMMA UnloadLibraryStep == ASSUME ModulesInv, UnloadLibrary PROVE ModulesInv'
<1>1. /\ Live /\ phase = "unload"
      /\ UNCHANGED <<phase, at, managed, registered, running, calls, again, failed, changed,
                     crash>>
  BY DEF UnloadLibrary
<1>2. PICK l \in mapped : mapped' = mapped \ {l} /\ alive' = {x \in alive : x[1] # l}
  BY DEF UnloadLibrary
<1>3. Props /\ Details
  BY <1>1 DEF ModulesInv
<1>4. managed = {} /\ running = {} /\ Callers = {}
  BY <1>1, <1>3 DEF Details, Places, Workers
<1>5. \A o \in Present : calls[o] = << >>
  BY <1>4 DEF Callers
<1>6. Props'
  <2>1. TypeOK'
    <3>1. \A x \in alive' : x[1] \in mapped' /\ <<"init", x[2]>> \in Range(Start[x[1]])
      BY <1>2, <1>3 DEF Props, TypeOK
    <3> QED BY <1>1, <1>2, <1>3, <1>4, <3>1 DEF Props, TypeOK
  <2>2. CodeStaysLoaded'
    <3>1. \A o \in Present : DOMAIN calls[o] = {}
      BY <1>5
    <3> QED BY <1>1, <1>4, <1>5, <3>1 DEF CodeStaysLoaded
  <2>3. OnlyLaterModulesGone' /\ LoadsWhole'
    BY <1>1, <1>3 DEF Props, CallsFindCode, OnlyLaterModulesGone, LoadsWhole,
          WholeOrNothing, OnlyConstructorsThrow
  <2> QED BY <2>1, <2>2, <2>3 DEF Props, CallsFindCode
<1>7. Places'
  BY <1>1, <1>3 DEF Details, Places
<1>8. Workers' /\ Stacks'
  BY <1>1, <1>3 DEF Details, Workers, Stacks, Callers
<1>9. Reached' = 0 /\ Before(0) = {}
  BY <1>1, BeforeEnds DEF Reached
<1>10. Directory'
  <2>1. Emptied
    BY <1>1 DEF Emptied
  <2> QED BY <1>1, <1>3, <1>9, <2>1 DEF Details, Directory
<1>11. Services'
  BY <1>1, <1>9 DEF Services
<1> QED BY <1>6, <1>7, <1>8, <1>10, <1>11 DEF ModulesInv, Details

\* A reload begins as the first load did: with nothing mapped, nothing made and
\* nothing registered.
LEMMA UnloadedStep == ASSUME ModulesInv, Unloaded PROVE ModulesInv'
<1>1. /\ Live /\ phase = "unload" /\ mapped = {} /\ again' = FALSE
      /\ UNCHANGED <<managed, mapped, alive, registered, running, calls, failed, changed,
                     crash>>
  BY DEF Unloaded
<1>2. Props /\ Details
  BY <1>1 DEF ModulesInv
<1>3. /\ managed = {} /\ running = {} /\ Callers = {}
  BY <1>1, <1>2 DEF Details, Places, Workers
<1>4. alive = {}
  BY <1>1, <1>2 DEF Props, TypeOK
<1>5. CASE again
  <2>1. phase' = "load" /\ at' = <<1, 0>> /\ at'[1] = 1 /\ at'[2] = 0
    BY <1>5 DEF Unloaded
  <2>2. failed = "none" /\ registered = {}
    <3>1. failed = "none"
      BY <1>2, <1>5 DEF Details, Places
    <3>2. Emptied
      BY <1>1 DEF Emptied
    <3> QED BY <1>2, <3>1, <3>2 DEF Details, Directory
  <2>3. Reached' = 1 /\ Before(1) = {}
    BY <2>1, BeforeEnds DEF Reached
  <2>4. Props'
    BY <1>1, <1>2, <2>1, CalmProps DEF Props, TypeOK, LoadsWhole, OnlyConstructorsThrow
  <2>5. Places'
    BY <1>1, <1>3, <2>1, <2>2, <2>3, OrderFacts DEF Places
  <2>6. Workers' /\ Stacks'
    BY <1>1, <1>2, <2>1 DEF Details, Workers, Stacks, Callers
  <2>7. ASSUME NEW l \in Present PROVE ~Announces(l)'
    <3>1. ~Did(Start[l], "register")'
      BY <2>1, OrderFacts, ScriptFacts DEF Did
    <3> QED BY <2>1, <2>3, <3>1 DEF Announces
  <2>8. Directory'
    <3>1. ~Emptied'
      BY <2>1 DEF Emptied
    <3> QED BY <1>1, <2>2, <2>3, <2>7, <3>1 DEF Directory
  <2>9. Services'
    BY <2>1, <2>3 DEF Services
  <2> QED BY <2>4, <2>5, <2>6, <2>8, <2>9 DEF ModulesInv, Details
<1>6. CASE ~again
  <2>1. phase' = "ended"
    BY <1>6 DEF Unloaded
  <2>2. ~Live'
    BY <2>1 DEF Live
  <2>3. TypeOK' /\ CallsFindCode'
    BY <1>1, <1>2, <2>1 DEF Props, TypeOK, CallsFindCode, CodeStaysLoaded,
          OnlyLaterModulesGone
  <2>4. LoadsWhole'
    BY <1>1, <1>2, <1>3, <1>4, <2>1 DEF Props, LoadsWhole, WholeOrNothing,
          OnlyConstructorsThrow
  <2> QED BY <2>2, <2>3, <2>4 DEF ModulesInv, Props
<1> QED BY <1>5, <1>6

\* Nothing the invariant speaks of changes.
LEMMA Stutter ==
    ASSUME ModulesInv,
           UNCHANGED <<phase, at, managed, mapped, alive, registered, running, calls, again,
                       failed, crash>>,
           changed' \subseteq Present
    PROVE  ModulesInv'
<1>1. Props'
  BY DEF ModulesInv, Props, TypeOK, CallsFindCode, CodeStaysLoaded, OnlyLaterModulesGone,
         LoadsWhole, WholeOrNothing, OnlyConstructorsThrow, Served, Reachable, Has
<1>2. ASSUME Details PROVE Details'
  <2>1. Places' /\ Workers' /\ Stacks'
    BY <1>2 DEF Details, Places, Workers, Stacks, Callers, Current, Did
  <2>2. Reached' = Reached /\ (Emptied' <=> Emptied) /\ (\A l : Announces(l)' <=> Announces(l))
    BY DEF Reached, Emptied, Announces, Did, Current
  <2>3. Directory'
    BY <1>2, <2>2 DEF Details, Directory
  <2>4. Services'
    BY <1>2, <2>2 DEF Details, Services, Made, Current
  <2> QED BY <2>1, <2>3, <2>4 DEF Details
<1>3. Live' <=> Live
  BY DEF Live
<1> QED BY <1>1, <1>2, <1>3 DEF ModulesInv

\* The signal, the signal inside a lock, and a new library.
LEMMA WorldStep ==
    ASSUME ModulesInv, Signal \/ SignalInsideLock \/ \E l \in Present : Replace(l)
    PROVE  ModulesInv'
<1>1. Props
  BY DEF ModulesInv
<1>2. CASE Signal
  BY <1>1, <1>2, Stutter DEF Signal, Props, TypeOK
<1>3. CASE \E l \in Present : Replace(l)
  BY <1>1, <1>3, Stutter DEF Replace, Props, TypeOK
<1>4. CASE SignalInsideLock
  <2>1. /\ phase' = "stuck"
        /\ UNCHANGED <<managed, mapped, alive, registered, running, calls, failed, changed,
                       crash>>
    BY <1>4 DEF SignalInsideLock
  <2>2. ~Live'
    BY <2>1 DEF Live
  <2>3. Props'
    BY <1>1, <2>1 DEF Props, TypeOK, CallsFindCode, CodeStaysLoaded, OnlyLaterModulesGone,
          LoadsWhole, WholeOrNothing, OnlyConstructorsThrow
  <2> QED BY <2>2, <2>3 DEF ModulesInv
<1> QED BY <1>2, <1>3, <1>4

\* Every step of the main thread.
LEMMA MainStep == ASSUME ModulesInv, Main PROVE ModulesInv'
<1>1. CASE ScriptStep
  <2>1. phase \in {"load", "post", "stop", "abort"}
    BY <1>1 DEF ScriptStep, Scripted
  <2> QED BY <1>1, <2>1, StartScriptStep, PostScriptStep, StopScriptStep
<1>2. CASE MainFaults
  BY <1>2, CrashStep DEF MainFaults
<1> QED BY <1>1, <1>2, LoadLibraryStep, StartThrowsStep, StartedStep, AnnouncedStep,
        MonitoredStep, StoppedStep, AbortedStep, ClearModulesStep, UnloadLibraryStep,
        UnloadedStep DEF Main

------------------------------------------------------------------------------
(* The steps of the threads.                                               *)

\* A set of numbers up to n that is not empty has a largest one.
LEMMA LargestThere ==
    ASSUME NEW n \in Nat, NEW S \in SUBSET (1 .. n), S # {}
    PROVE  Max(S) \in S
<1> DEFINE T == {n - x : x \in S}
<1>1. T \subseteq Nat /\ T # {}
  <2>1. \A x \in S : n - x \in Nat
    OBVIOUS
  <2> QED BY <2>1
<1> HIDE DEF T
<1>2. PICK t \in T : \A y \in T : ~(<<y, t>> \in OpToRel(<, Nat))
  BY <1>1, NatLessThanWellFounded, WFMin
<1>3. \A y \in T : ~(y < t)
  BY <1>1, <1>2 DEF OpToRel
<1>4. PICK x \in S : t = n - x
  BY DEF T
<1>5. \A y \in S : x >= y
  <2> TAKE y \in S
  <2>1. n - y \in T
    BY DEF T
  <2>2. ~(n - y < t)
    BY <1>3, <2>1
  <2> QED BY <1>4, <2>2
<1> QED BY <1>5 DEF Max

\* An exception leaves the calls below the one that catches it.
LEMMA UnwoundFacts ==
    ASSUME NEW stack \in Seq(Frames)
    PROVE  /\ Unwound(stack) \in Seq(Frames)
           /\ \A i \in DOMAIN Unwound(stack) : i \in DOMAIN stack /\ Unwound(stack)[i] = stack[i]
<1> DEFINE held == {i \in 1 .. Len(stack) - 1 : Caught(stack[i].e, stack[i + 1].e)}
           m == IF held = {} THEN 0 ELSE Max(held)
<1>1. Unwound(stack) = SubSeq(stack, 1, m)
  BY DEF Unwound
<1>2. held \in SUBSET (1 .. Len(stack)) /\ Len(stack) \in Nat
  OBVIOUS
<1> HIDE DEF held
<1>3. m \in 0 .. Len(stack)
  <2>1. CASE held = {}
    BY <1>2, <2>1
  <2>2. CASE held # {}
    <3>1. Max(held) \in held
      BY <1>2, <2>2, LargestThere
    <3>2. Max(held) \in 1 .. Len(stack)
      BY <1>2, <3>1
    <3>3. Max(held) \in 0 .. Len(stack)
      BY <1>2, <3>2
    <3> QED BY <2>2, <3>3
  <2> QED BY <2>1, <2>2
<1> HIDE DEF m
<1> QED BY <1>1, <1>3

\* One frame more on a stack.
LEMMA OnTop ==
    ASSUME NEW s \in Seq(Frames), NEW t \in Seq(Frames), Len(t) = 1
    PROVE  /\ s \o t \in Seq(Frames) /\ Len(s \o t) = Len(s) + 1
           /\ (s \o t)[Len(s) + 1] = t[1]
           /\ \A i \in 1 .. Len(s) : (s \o t)[i] = s[i]
<1>1. Len(s) \in Nat
  OBVIOUS
<1>2. /\ s \o t \in Seq(Frames) /\ Len(s \o t) = Len(s) + Len(t)
      /\ \A i \in 1 .. Len(s) + Len(t) :
            (s \o t)[i] = IF i <= Len(s) THEN s[i] ELSE t[i - Len(s)]
  BY ConcatProperties
<1>3. Len(s) + Len(t) = Len(s) + 1
  BY <1>1
<1>4. (s \o t)[Len(s) + 1] = t[1]
  <2>1. Len(s) + 1 \in 1 .. Len(s) + Len(t)
    BY <1>1, <1>3
  <2>2. ~(Len(s) + 1 <= Len(s)) /\ Len(s) + 1 - Len(s) = 1
    BY <1>1
  <2> QED BY <1>2, <2>1, <2>2
<1>5. ASSUME NEW i \in 1 .. Len(s) PROVE (s \o t)[i] = s[i]
  <2>1. i \in 1 .. Len(s) + Len(t) /\ i <= Len(s)
    BY <1>1, <1>3
  <2> QED BY <1>2, <2>1
<1> QED BY <1>2, <1>3, <1>4, <1>5

\* The frame on top is replaced by one for the same event.
LEMMA TopSet ==
    ASSUME NEW stack \in Seq(Frames), stack # << >>, NEW f \in Frames
    PROVE  /\ Last(stack) \in Frames /\ Len(stack) \in DOMAIN stack
           /\ Front(stack) \in Seq(Frames) /\ Front(stack) \o <<f>> \in Seq(Frames)
           /\ \A i \in DOMAIN Front(stack) : i \in DOMAIN stack /\ Front(stack)[i] = stack[i]
           /\ f.e = Last(stack).e =>
                 \A i \in DOMAIN (Front(stack) \o <<f>>) :
                    i \in DOMAIN stack /\ (Front(stack) \o <<f>>)[i].e = stack[i].e
<1>1. Len(stack) \in Nat /\ Len(stack) >= 1 /\ DOMAIN stack = 1 .. Len(stack)
  OBVIOUS
<1>2. Front(stack) = SubSeq(stack, 1, Len(stack) - 1) /\ Last(stack) = stack[Len(stack)]
  BY DEF Front, Last
<1>3. /\ Front(stack) \in Seq(Frames) /\ Len(Front(stack)) = Len(stack) - 1
      /\ \A i \in 1 .. (Len(stack) - 1) : Front(stack)[i] = stack[i]
  BY <1>1, <1>2
<1>4. /\ Front(stack) \o <<f>> \in Seq(Frames)
      /\ Len(Front(stack) \o <<f>>) = Len(stack)
      /\ (Front(stack) \o <<f>>)[Len(stack)] = f
      /\ \A i \in 1 .. (Len(stack) - 1) : (Front(stack) \o <<f>>)[i] = stack[i]
  <2>1. <<f>> \in Seq(Frames) /\ Len(<<f>>) = 1 /\ <<f>>[1] = f
    OBVIOUS
  <2>2. PICK s \in Seq(Frames) : s = Front(stack)
    BY <1>3
  <2>3. /\ s \o <<f>> \in Seq(Frames) /\ Len(s \o <<f>>) = Len(s) + 1
        /\ (s \o <<f>>)[Len(s) + 1] = <<f>>[1]
        /\ \A i \in 1 .. Len(s) : (s \o <<f>>)[i] = s[i]
    BY <2>1, OnTop
  <2>4. Len(s) = Len(stack) - 1 /\ Len(s) + 1 = Len(stack)
    <3>1. Len(s) = Len(stack) - 1
      BY <1>3, <2>2, Zenon
    <3> QED BY <1>1, <3>1
  <2>5. /\ Len(s \o <<f>>) = Len(stack) /\ (s \o <<f>>)[Len(stack)] = f
        /\ \A i \in 1 .. (Len(stack) - 1) : (s \o <<f>>)[i] = stack[i]
    <3>1. \A i \in 1 .. (Len(stack) - 1) : s[i] = stack[i]
      BY <1>3, <2>2, Zenon
    <3>2. <<f>>[1] = f
      OBVIOUS
    <3>3. \A i \in 1 .. (Len(stack) - 1) : (s \o <<f>>)[i] = s[i]
      BY <2>3, <2>4, Zenon
    <3> QED BY <2>3, <2>4, <3>1, <3>2, <3>3, Zenon
  <2> QED BY <2>2, <2>3, <2>5, Zenon
<1>5. ASSUME f.e = Last(stack).e, NEW i \in DOMAIN (Front(stack) \o <<f>>)
      PROVE  i \in DOMAIN stack /\ (Front(stack) \o <<f>>)[i].e = stack[i].e
  <2>1. i \in 1 .. Len(stack)
    BY <1>4, <1>5
  <2> QED BY <1>1, <1>2, <1>4, <1>5, <2>1
<1> QED BY <1>1, <1>2, <1>3, <1>4, <1>5

\* A thread at work is one of a module that has been reached; so whatever is
\* before its module is there.
LEMMA AtWork ==
    ASSUME ModulesInv, Live, NEW l \in running \cup Callers
    PROVE  /\ l \in Present /\ phase # "unload"
           /\ Place(l) <= Reached /\ Reached \in 0 .. Size + 1
           /\ l # "event_service" => "event_service" \in managed
<1>1. Props /\ Places /\ Workers
  BY DEF ModulesInv, Details
<1>2. l \in Present /\ l \in mapped /\ phase # "unload"
  BY <1>1 DEF Props, TypeOK, CallsFindCode, CodeStaysLoaded, Callers, Workers
<1>3. /\ Place(l) \in 1 .. Size /\ (l # "event_service" => Place(l) > 1)
  BY <1>2, OrderFacts
<1>4. CASE phase \in {"post", "monitor"}
  BY <1>1, <1>2, <1>3, <1>4, OrderFacts DEF Places, Reached
<1>5. CASE phase \in {"load", "abort"}
  <2>1. at[1] \in 1 .. Size /\ managed = Before(at[1]) /\ Reached = at[1]
    BY <1>1, <1>5 DEF Places, Reached
  <2>2. l \in Before(at[1] + 1)
    <3>1. mapped = Before(at[1]) \/ mapped = Before(at[1] + 1)
      BY <1>1, <1>5 DEF Places
    <3> QED BY <1>2, <2>1, <3>1, BeforeNext
  <2>3. Place(l) < at[1] + 1
    BY <1>2, <2>1, <2>2, BeforeFacts, OrderFacts
  <2>4. at[1] > 1 => "event_service" \in Before(at[1])
    BY <2>1, BeforeFacts, OrderFacts
  <2> QED BY <1>2, <1>3, <2>1, <2>3, <2>4, OrderFacts
<1>6. CASE phase = "stop"
  <2>1. at[1] \in 0 .. Size /\ Before(at[1] + 1) \subseteq managed /\ Reached = at[1]
    BY <1>1, <1>6 DEF Places, Reached
  <2>2. l \in Before(at[1] + 1)
    BY <1>1, <1>6 DEF Workers
  <2>3. at[1] + 1 \in 0 .. Size + 1
    BY <2>1, OrderFacts
  <2>4. Place(l) < at[1] + 1
    BY <1>2, <2>2, <2>3, BeforeFacts
  <2>5. at[1] + 1 > 1 => "event_service" \in Before(at[1] + 1)
    BY <2>3, BeforeFacts, OrderFacts
  <2> QED BY <1>2, <1>3, <2>1, <2>4, <2>5, OrderFacts
<1>7. phase \in {"load", "post", "monitor", "stop", "abort"}
  BY <1>1, <1>2 DEF Props, TypeOK, Live
<1> QED BY <1>4, <1>5, <1>6, <1>7

\* Before a thread's module every handler registered by start is registered,
\* and every service is there.
LEMMA EarlierThere ==
    ASSUME ModulesInv, Live, NEW l \in running \cup Callers, NEW h \in Present,
           Place(h) < Place(l)
    PROVE  /\ Early(h) => DOMAIN Handlers[h] \subseteq registered
           /\ \A e \in DOMAIN Handlers[h] : h \in mapped /\ Has(h, Handlers[h][e])
<1>1. Props /\ Directory /\ Services
  BY DEF ModulesInv, Details
<1>2. h \in Before(Reached)
  <2>1. Place(l) <= Reached /\ Reached \in 0 .. Size + 1 /\ l \in Present
    BY AtWork
  <2>2. Place(h) < Reached
    BY <2>1, OrderFacts
  <2> QED BY <2>1, <2>2, BeforeFacts
<1>3. ASSUME NEW e \in DOMAIN Handlers[h] PROVE h \in mapped /\ Has(h, Handlers[h][e])
  <2>1. <<"init", Handlers[h][e]>> \in Range(Start[h])
    BY OrderFacts, HandlersAssumption
  <2>2. PICK k \in DOMAIN Start[h] : Start[h][k] = <<"init", Handlers[h][e]>>
    BY <2>1 DEF Range
  <2>3. Made(h, k)
    BY <1>1, <1>2 DEF Services
  <2>4. <<h, Handlers[h][e]>> \in alive
    BY <2>2, <2>3 DEF Made
  <2>5. h \in mapped
    BY <1>1, <2>4 DEF Props, TypeOK
  <2> QED BY <2>4, <2>5 DEF Has
<1> QED BY <1>1, <1>2, <1>3 DEF Directory

\* Frames whose handlers' code is there, for events the module may ask for.
Good(l, stack) ==
    /\ stack \in Seq(Frames)
    /\ \A i \in DOMAIN stack : /\ Handler(stack[i].e) \in mapped \cup {failed}
                               /\ l \in Uncaught => stack[i].e \in Range(Requests[l])

\* The stack of a thread has such frames.
LEMMA StackGood ==
    ASSUME ModulesInv, Live, NEW l \in Present
    PROVE  Good(l, calls[l]) /\ Good(l, << >>)
  BY DEF ModulesInv, Details, Stacks, Props, CallsFindCode, CodeStaysLoaded, Good

\* The stack of a thread at work becomes another such one.
LEMMA CallStep ==
    ASSUME ModulesInv, Live, NEW l \in running \cup Callers, NEW stack, Good(l, stack),
           calls' = [calls EXCEPT ![l] = stack],
           UNCHANGED <<mainVars, alive, registered, running, crash>>
    PROVE  ModulesInv'
<1>1. Props /\ Details
  BY DEF ModulesInv
<1>2. /\ UNCHANGED <<phase, at, managed, mapped, alive, registered, running, again, failed,
                     changed, crash>>
  BY DEF mainVars
<1>3. l \in Present /\ calls \in [Present -> Seq(Frames)]
  BY <1>1, AtWork DEF Details, Stacks
<1>4. calls'[l] = stack /\ \A o \in Present : o # l => calls'[o] = calls[o]
  BY <1>3
<1>5. Callers' \subseteq Callers \cup {l}
  BY <1>4 DEF Callers
<1>6. l \in mapped /\ Runs(l)
  BY <1>1, <1>3 DEF Props, CallsFindCode, CodeStaysLoaded, Callers, Details, Workers
<1>7. Stacks'
  <2>1. calls' \in [Present -> Seq(Frames)]
    BY <1>3 DEF Good
  <2>2. ASSUME NEW o \in Present \cap Uncaught, NEW i \in DOMAIN calls'[o]
        PROVE  calls'[o][i].e \in Range(Requests[o])
    BY <1>1, <1>4, <2>2 DEF Details, Stacks, Good
  <2> QED BY <2>1, <2>2 DEF Stacks
<1>8. CodeStaysLoaded'
  <2>1. \A o \in running' \cup {x \in Present : calls'[x] # << >>} : o \in mapped'
    <3>1. {x \in Present : calls'[x] # << >>} = Callers'
      BY DEF Callers
    <3>2. running \cup Callers \subseteq mapped
      BY <1>1 DEF Props, CallsFindCode, CodeStaysLoaded, Callers
    <3> QED BY <1>2, <1>5, <1>6, <3>1, <3>2
  <2>2. ASSUME NEW o \in Present, NEW i \in DOMAIN calls'[o]
        PROVE  Handler(calls'[o][i].e) \in mapped \cup {failed}
    <3>1. CASE o = l
      BY <1>4, <2>2, <3>1 DEF Good
    <3>2. CASE o # l
      BY <1>1, <1>4, <2>2, <3>2 DEF Props, CallsFindCode, CodeStaysLoaded
    <3> QED BY <3>1, <3>2
  <2> QED BY <1>2, <2>1, <2>2 DEF CodeStaysLoaded
<1>9. TypeOK'
  <2>1. ASSUME NEW o \in Present, calls'[o] # << >>
        PROVE  <<"run", "none">> \in Range(Start[o] \o PostStart[o])
    <3>1. CASE o = l
      BY <1>3, <1>6, <3>1, OrderFacts, ScriptsAssumption
    <3>2. CASE o # l
      BY <1>1, <1>4, <2>1, <3>2 DEF Props, TypeOK
    <3> QED BY <3>1, <3>2
  <2> QED BY <1>1, <1>2, <2>1 DEF Props, TypeOK
<1>10. OnlyLaterModulesGone' /\ LoadsWhole'
  BY <1>1, <1>2 DEF Props, CallsFindCode, OnlyLaterModulesGone, LoadsWhole, WholeOrNothing,
        OnlyConstructorsThrow, Served, Reachable, Has
<1>11. Places' /\ Directory' /\ Services'
  <2>1. Places'
    BY <1>1, <1>2 DEF Details, Places, Current
  <2>2. Reached' = Reached /\ (Emptied' <=> Emptied) /\ (\A o : Announces(o)' <=> Announces(o))
    BY <1>2 DEF Reached, Emptied, Announces, Did, Current
  <2>3. Directory'
    BY <1>1, <1>2, <2>2 DEF Details, Directory
  <2>4. Services'
    BY <1>1, <1>2, <2>2 DEF Details, Services, Made, Current
  <2> QED BY <2>1, <2>3, <2>4
<1>12. Workers'
  <2>1. Workers
    BY <1>1 DEF Details
  <2>2. phase # "unload"
    BY AtWork
  <2>3. ASSUME phase \in {"stop", "abort"}, at[1] > 0, Did(Stop[Current], "join")
        PROVE  Current \notin Callers'
    <3>1. PICK c \in Present : c = Current /\ c \in Library
      BY <2>3, CurrentFacts
    <3>2. Did(Stop[c], "halt")
      <4>1. PICK k \in DOMAIN Stop[c] : k < at[2] /\ Stop[c][k][1] = "join"
        BY <2>3, <3>1 DEF Did
      <4>2. PICK i \in 1 .. (k - 1) : Stop[c][i][1] = "halt"
        BY <3>1, <4>1, ScriptsAssumption
      <4>3. i \in DOMAIN Stop[c] /\ i < at[2]
        <5>1. at[2] \in Nat
          BY <2>3, CurrentFacts
        <5> QED BY <3>1, <4>1, <4>2, <5>1, ScriptFacts
      <4> QED BY <4>2, <4>3 DEF Did
    <3>3. c \notin running /\ c \notin Callers
      BY <2>1, <2>3, <3>1, <3>2 DEF Workers
    <3> QED BY <1>5, <3>1, <3>3
  <2>4. Current' = Current /\ \A script, what : Did(script, what)' <=> Did(script, what)
    BY <1>2 DEF Current, Did
  <2> QED BY <1>2, <1>5, <1>6, <2>1, <2>2, <2>3, <2>4 DEF Workers
<1> QED BY <1>1, <1>7, <1>8, <1>9, <1>10, <1>11, <1>12
        DEF ModulesInv, Details, Props, CallsFindCode

\* A thread triggers an event: the event service is there, and what the thread
\* of a module that lets exceptions through asks for has a handler.
LEMMA TriggerStep ==
    ASSUME ModulesInv, Live, NEW l \in running \cup Callers, NEW stack, Good(l, stack), NEW e,
           l \in Uncaught => e \in Range(Requests[l]),
           Trigger(l, stack, e), UNCHANGED <<mainVars, alive, registered, running>>
    PROVE  ModulesInv'
<1> DEFINE left == IF stack # << >> /\ Caught(Last(stack).e, e) THEN stack ELSE Unwound(stack)
           gone == IF "event_service" \notin managed THEN {"event_service"}
                   ELSE IF e \notin registered /\ left = << >> /\ l \in Uncaught THEN {Handler(e)}
                   ELSE {}
<1>1. IF gone = {}
      THEN /\ Keep(l, IF Reachable(e) THEN Append(stack, Frame(e)) ELSE left)
           /\ UNCHANGED crash
      ELSE \E h \in gone : Crash(l, h) /\ UNCHANGED calls
  BY DEF Trigger
<1>2. Props /\ Details /\ phase # "unload" /\ l \in Present
  BY AtWork DEF ModulesInv
<1>3. Good(l, left)
  BY UnwoundFacts DEF Good
<1>4. l \in Uncaught => e \in registered
  <2> SUFFICES ASSUME l \in Uncaught PROVE e \in registered
    OBVIOUS
  <2>1. PICK i \in DOMAIN Requests[l] : e = Requests[l][i]
    BY DEF Range
  <2>2. PICK o \in Present : Early(o) /\ e \in DOMAIN Handlers[o] /\ Place(o) < Place(l)
    BY <1>2, <2>1, OrderAssumption
  <2> QED BY <2>2, EarlierThere
<1> HIDE DEF left
<1>5. CASE gone = {}
  <2>1. PICK next : /\ next = IF Reachable(e) THEN Append(stack, Frame(e)) ELSE left
                    /\ calls' = [calls EXCEPT ![l] = next] /\ crash' = crash
    BY <1>1, <1>5 DEF Keep
  <2>2. Good(l, next)
    <3>1. CASE ~Reachable(e)
      BY <1>3, <2>1, <3>1
    <3>2. CASE Reachable(e)
      <4>1. e \in registered /\ e \in Event
        BY <1>2, <3>2 DEF Reachable, Props, TypeOK
      <4>2. Handler(e) \in mapped \cup {failed}
        BY <1>2, <4>1 DEF Details, Directory
      <4>3. Frame(e) \in Frames /\ Frame(e).e = e
        BY <4>1 DEF Frame, Frames
      <4>4. stack \in Seq(Frames) /\ next = Append(stack, Frame(e))
        BY <2>1, <3>2 DEF Good
      <4>5. next \in Seq(Frames) /\ Len(next) = Len(stack) + 1
        BY <4>3, <4>4
      <4>6. ASSUME NEW i \in DOMAIN next
            PROVE  /\ Handler(next[i].e) \in mapped \cup {failed}
                   /\ l \in Uncaught => next[i].e \in Range(Requests[l])
        <5>1. CASE i \in DOMAIN stack
          <6>1. next[i] = stack[i]
            BY <4>3, <4>4, <5>1
          <6> QED BY <5>1, <6>1 DEF Good
        <5>2. CASE i \notin DOMAIN stack
          <6>1. next[i] = Frame(e)
            BY <4>3, <4>4, <4>5, <4>6, <5>2
          <6> QED BY <4>2, <4>3, <6>1
        <5> QED BY <5>1, <5>2
      <4> QED BY <4>5, <4>6 DEF Good
    <3> QED BY <3>1, <3>2
  <2> QED BY <2>1, <2>2, CallStep
<1>6. CASE gone # {}
  <2>1. gone = {"event_service"} /\ "event_service" \notin managed
    BY <1>4, <1>6
  <2>2. Crash(l, "event_service") /\ calls' = calls
    BY <1>1, <2>1
  <2>3. l = "event_service"
    BY <2>1, AtWork
  <2>4. Place(l) <= Place("event_service")
    BY <2>3, OrderFacts
  <2> QED BY <2>2, <2>4, CrashStep
<1> QED BY <1>5, <1>6

\* Every step of a module's thread.
LEMMA ThreadStep ==
    ASSUME ModulesInv, NEW l \in Present, Wake(l) \/ Proceed(l)
    PROVE  ModulesInv'
<1>1. Live /\ Props /\ Details /\ UNCHANGED <<mainVars, alive, registered, running>>
  BY DEF Wake, Proceed, Enter, Nest, Leave, ModulesInv
<1>2. Good(l, calls[l]) /\ Good(l, << >>)
  BY <1>1, StackGood
<1>3. CASE Wake(l)
  <2>1. l \in running
    BY <1>3 DEF Wake
  <2>2. CASE Has(l, WorksFor[l])
    <3>1. PICK i \in DOMAIN Requests[l] : Trigger(l, << >>, Requests[l][i])
      BY <1>3, <2>2 DEF Wake
    <3>2. Requests[l][i] \in Range(Requests[l])
      BY DEF Range
    <3> QED BY <1>1, <1>2, <2>1, <3>1, <3>2, TriggerStep
  <2>3. CASE ~Has(l, WorksFor[l])
    <3>1. Crash(l, l) /\ calls' = calls /\ Place(l) <= Place(l)
      BY <1>3, <2>3, OrderFacts DEF Wake
    <3> QED BY <1>1, <3>1, CrashStep
  <2> QED BY <2>2, <2>3
<1>4. ASSUME Proceed(l) PROVE l \in Callers /\ calls[l] # << >> /\ calls[l] \in Seq(Frames)
  BY <1>2, <1>4 DEF Proceed, Enter, Nest, Leave, Callers, Good
<1>5. CASE Enter(l)
  <2>1. l \in Callers /\ calls[l] # << >> /\ calls[l] \in Seq(Frames)
    BY <1>4, <1>5 DEF Proceed
  <2>2. Top(l) \in Frames /\ Len(calls[l]) \in DOMAIN calls[l] /\ Top(l) = calls[l][Len(calls[l])]
    BY <2>1, TopSet DEF Top, Last
  <2>3. PICK e \in Event : e = Top(l).e
    BY <2>2 DEF Frames
  <2>4. PICK h \in Present : h = Handler(e)
    <3>1. Handler(e) \in mapped \cup {failed}
      BY <1>2, <2>2, <2>3 DEF Good
    <3>2. Handler(e) \in Library /\ "none" \notin Library
      BY HandlerFacts, LoadOrderAssumption
    <3> QED BY <1>1, <3>1, <3>2 DEF Props, TypeOK, Details, Places
  <2>5. e \in DOMAIN Handlers[h]
    BY <2>4, HandlerFacts
  <2>6. CASE h \in mapped /\ Has(h, Handlers[h][e])
    <3>1. PICK f : f = [Top(l) EXCEPT !.in = TRUE]
      OBVIOUS
    <3>2. f \in Frames /\ f.e = Top(l).e
      BY <2>2, <3>1 DEF Frames
    <3>3. PICK stack : stack = Front(calls[l]) \o <<f>>
      OBVIOUS
    <3>4. calls' = [calls EXCEPT ![l] = stack] /\ crash' = crash
      BY <1>5, <2>3, <2>4, <2>6, <3>1, <3>3 DEF Enter, Keep
    <3>5. stack \in Seq(Frames) /\ \A i \in DOMAIN stack : /\ i \in DOMAIN calls[l]
                                                           /\ stack[i].e = calls[l][i].e
      BY <2>1, <3>2, <3>3, TopSet DEF Top
    <3>6. Good(l, stack)
      BY <1>2, <3>5 DEF Good
    <3> QED BY <1>1, <2>1, <3>4, <3>6, CallStep
  <2>7. CASE ~(h \in mapped /\ Has(h, Handlers[h][e]))
    <3>1. Crash(l, h) /\ calls' = calls
      BY <1>5, <2>3, <2>4, <2>7 DEF Enter
    <3>2. ~(Place(h) < Place(l))
      BY <1>1, <2>1, <2>5, <2>7, EarlierThere
    <3>3. Place(l) <= Place(h)
      BY <3>2, OrderFacts
    <3> QED BY <1>1, <3>1, <3>3, CrashStep
  <2> QED BY <2>6, <2>7
<1>6. CASE Nest(l)
  <2>1. l \in Callers /\ calls[l] # << >> /\ calls[l] \in Seq(Frames)
    BY <1>4, <1>6 DEF Proceed
  <2>2. Top(l) \in Frames /\ Len(calls[l]) \in DOMAIN calls[l] /\ Top(l) = calls[l][Len(calls[l])]
    BY <2>1, TopSet DEF Top, Last
  <2>3. PICK j \in DOMAIN Triggers[Top(l).e] :
           Trigger(l, Front(calls[l]) \o <<[Top(l) EXCEPT !.n = j]>>, Triggers[Top(l).e][j])
    BY <1>6 DEF Nest
  <2>4. Triggers[Top(l).e] \in Seq(STRING) /\ j \in Nat
    <3>1. Top(l).e \in Event
      BY <2>2 DEF Frames
    <3>2. Triggers[Top(l).e] \in Seq(STRING)
      BY <3>1, HandlersAssumption
    <3> QED BY <2>3, <3>2
  <2>5. l \notin Uncaught
    <3> SUFFICES ASSUME l \in Uncaught PROVE FALSE
      OBVIOUS
    <3>1. Top(l).e \in Range(Requests[l])
      BY <1>2, <2>2 DEF Good
    <3>2. Triggers[Top(l).e] = << >>
      BY <3>1, OrderAssumption DEF Range
    <3> QED BY <2>3, <3>2
  <2>6. PICK f : f = [Top(l) EXCEPT !.n = j]
    OBVIOUS
  <2>7. f \in Frames /\ f.e = Top(l).e
    BY <2>2, <2>4, <2>6 DEF Frames
  <2>8. PICK stack : stack = Front(calls[l]) \o <<f>>
    OBVIOUS
  <2>9. stack \in Seq(Frames) /\ \A i \in DOMAIN stack : /\ i \in DOMAIN calls[l]
                                                         /\ stack[i].e = calls[l][i].e
    BY <2>1, <2>7, <2>8, TopSet DEF Top
  <2>10. Good(l, stack)
    BY <1>2, <2>9 DEF Good
  <2>11. Trigger(l, stack, Triggers[Top(l).e][j])
    BY <2>3, <2>6, <2>8
  <2> QED BY <1>1, <2>1, <2>5, <2>10, <2>11, TriggerStep
<1>7. CASE Leave(l)
  <2>1. l \in Callers /\ calls[l] # << >> /\ calls[l] \in Seq(Frames)
    BY <1>4, <1>7 DEF Proceed
  <2>2. PICK stack : stack = Front(calls[l])
    OBVIOUS
  <2>3. calls' = [calls EXCEPT ![l] = stack] /\ crash' = crash
    BY <1>7, <2>2 DEF Leave, Keep
  <2>4. stack \in Seq(Frames) /\ \A i \in DOMAIN stack : i \in DOMAIN calls[l] /\ stack[i] = calls[l][i]
    <3>1. PICK f \in Frames : f = calls[l][Len(calls[l])]
      BY <2>1
    <3> QED BY <2>1, <2>2, <3>1, TopSet
  <2>5. Good(l, stack)
    BY <1>2, <2>4 DEF Good
  <2> QED BY <1>1, <2>1, <2>3, <2>5, CallStep
<1> QED BY <1>3, <1>5, <1>6, <1>7 DEF Proceed

\* Every step keeps the invariant.
LEMMA ModulesStep == ModulesInv /\ [Next]_vars => ModulesInv'
<1> SUFFICES ASSUME ModulesInv, [Next]_vars PROVE ModulesInv'
  OBVIOUS
<1>1. CASE UNCHANGED vars
  <2>1. changed' \subseteq Present
    BY <1>1 DEF ModulesInv, Props, TypeOK, vars
  <2> QED BY <1>1, <2>1, Stutter DEF vars
<1> QED BY <1>1, MainStep, WorldStep, ThreadStep DEF Next

\* Nothing is loaded at first.
LEMMA ModulesStart == ModuleInit => ModulesInv
<1> SUFFICES ASSUME ModuleInit PROVE ModulesInv
  OBVIOUS
<1>1. /\ phase = "load" /\ at = <<1, 0>> /\ at[1] = 1 /\ at[2] = 0 /\ managed = {}
      /\ mapped = {} /\ alive = {} /\ registered = {} /\ running = {} /\ calls = Idle
      /\ again = FALSE /\ failed = "none" /\ changed = {} /\ crash = << >>
  BY DEF ModuleInit
<1>2. (\A l \in Present : calls[l] = << >>) /\ Callers = {}
  BY <1>1 DEF Idle, Callers
<1>3. Before(1) = {} /\ Reached = 1
  BY <1>1, BeforeEnds DEF Reached
<1>4. TypeOK
  BY <1>1, <1>2 DEF TypeOK
<1>5. CallsFindCode
  <2>1. \A l \in Present : DOMAIN calls[l] = {}
    BY <1>2
  <2> QED BY <1>1, <1>2, <2>1 DEF CallsFindCode, CodeStaysLoaded, OnlyLaterModulesGone
<1>6. LoadsWhole
  BY <1>1 DEF LoadsWhole, WholeOrNothing, OnlyConstructorsThrow
<1>7. Places
  BY <1>1, <1>3, OrderFacts DEF Places
<1>8. Workers
  BY <1>1, <1>2 DEF Workers
<1>9. Stacks
  <2>1. calls \in [Present -> Seq(Frames)]
    BY <1>1 DEF Idle
  <2>2. \A l \in Present : DOMAIN calls[l] = {}
    BY <1>2
  <2> QED BY <2>1, <2>2 DEF Stacks
<1>10. Directory
  <2>1. ASSUME NEW l \in Present PROVE ~Announces(l)
    <3>1. ~Did(Start[l], "register")
      BY <1>1, OrderFacts, ScriptFacts DEF Did
    <3> QED BY <1>1, <1>3, <3>1 DEF Announces
  <2>2. ~Emptied
    BY <1>1 DEF Emptied
  <2> QED BY <1>1, <1>3, <2>1, <2>2 DEF Directory
<1>11. Services
  BY <1>1, <1>3 DEF Services
<1> QED BY <1>4, <1>5, <1>6, <1>7, <1>8, <1>9, <1>10, <1>11 DEF ModulesInv, Props, Details

------------------------------------------------------------------------------
(* The theorems.                                                           *)

\* The manager's maps, the libraries, the services, the directory of handlers
\* and the threads are of their types through every start, reload, failure and
\* stop (ModuleManager::load, unload and monitor).
THEOREM NodeTyped == Spec => []TypeOK
<1>1. ModulesInv => TypeOK
  BY DEF ModulesInv, Props
<1> QED BY <1>1, ModulesStart, ModulesStep, PTL DEF Spec

\* However many threads are inside calls, and whatever is stopped, reloaded or
\* fails to start meanwhile, a call never runs in a library that is unloaded,
\* but for that of a module whose start threw; and a thread never misses a
\* service of a module loaded before its own.
THEOREM CodeCorrect == Spec => []CallsFindCode
<1>1. ModulesInv => CallsFindCode
  BY DEF ModulesInv, Props
<1> QED BY <1>1, ModulesStart, ModulesStep, PTL DEF Spec

\* When the node is monitored every handler of every module is registered and
\* its service made, when it has ended nothing is left, and a start is ended
\* only by a constructor or the genesis block that throws.
THEOREM LoadsCorrect == Spec => []LoadsWhole
<1>1. ModulesInv => LoadsWhole
  BY DEF ModulesInv, Props
<1> QED BY <1>1, ModulesStart, ModulesStep, PTL DEF Spec
=============================================================================
