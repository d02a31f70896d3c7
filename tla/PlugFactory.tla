----------------------------- MODULE PlugFactory -----------------------------
(***************************************************************************)
(* The registry of plug-ins of module/plug_base_factory.cpp.  Loading a    *)
(* library runs its constructors, which register its factories by name in  *)
(* PlugMap; the first to register a name keeps it, and nothing leaves the  *)
(* map, not even when the library of the factory is unloaded.              *)
(***************************************************************************)
EXTENDS Naturals

CONSTANTS Libraries, Plugs,
          Offers,      \* the names each library registers
          NoPlug, NoLibrary,
          MaxLoads     \* bound: times a library comes into memory, and its open handles

VARIABLES refs,        \* open handles of each library
          loads,       \* how often each has been brought into memory
          PlugMap,     \* per name, the library and load of its factory
          failed,      \* libraries that LoadDriver has closed again
          result       \* of the last LoadDriver

plugs == <<refs, loads, PlugMap, failed, result>>

NotFound == [library |-> NoLibrary, load |-> 0]

PlugInit ==
  /\ refs = [l \in Libraries |-> 0] /\ loads = [l \in Libraries |-> 0]
  /\ PlugMap = [p \in Plugs |-> NotFound]
  /\ failed = {}
  /\ result = [path |-> NoLibrary, name |-> NoPlug, plug |-> "none"]

\* The code of a factory is in memory, where it was when it was registered.
InMemory(factory, r, n) ==
  factory.library # NoLibrary /\ r[factory.library] > 0 /\ n[factory.library] = factory.load
Loaded(p) == InMemory(PlugMap[p], refs, loads)

\* The constructors of library l, run by a dlopen that brings it into memory.
Registered(l) ==
  [p \in Plugs |-> IF refs[l] = 0 /\ p \in Offers[l] /\ PlugMap[p] = NotFound
                   THEN [library |-> l, load |-> loads[l] + 1]
                   ELSE PlugMap[p]]

dlopen(l) ==
  /\ IF refs[l] > 0 THEN refs[l] < MaxLoads ELSE loads[l] < MaxLoads
  /\ PlugMap' = Registered(l)
  /\ loads' = IF refs[l] = 0 THEN [loads EXCEPT ![l] = @ + 1] ELSE loads

\* What calling a factory gives: a plug-in of its library; the end of the process if the
\* code has gone; and either if it was loaded again since, perhaps to the same place.
Called(factory, r, n) ==
  IF InMemory(factory, r, n) THEN {factory.library}
  ELSE {"crash"} \union {l \in {factory.library} : r[l] > 0}

\* Mutant: the handle is closed once the plug-in is made.
LoadDriverClosed(l, name) ==
  /\ dlopen(l)
  /\ PlugMap'[name] # NotFound
  /\ refs' = refs
  /\ \E plug \in Called(PlugMap'[name], [refs EXCEPT ![l] = @ + 1], loads') :
       result' = [path |-> l, name |-> name, plug |-> plug]
  /\ UNCHANGED failed

\* LoadDriver finds a factory and calls it, whichever library it is of.  The handle stays
\* open.
LoadDriver(l, name) ==
  /\ dlopen(l)
  /\ PlugMap'[name] # NotFound
  /\ refs' = [refs EXCEPT ![l] = @ + 1]
  /\ \E plug \in Called(PlugMap'[name], refs', loads') :
       result' = [path |-> l, name |-> name, plug |-> plug]
  /\ UNCHANGED failed

\* No such factory: the library is closed, and if nobody else holds it, it is gone while
\* what it has registered stays.
LoadDriverFails(l, name) ==
  /\ dlopen(l)
  /\ PlugMap'[name] = NotFound
  /\ failed' = IF refs[l] = 0 THEN failed \union {l} ELSE failed
  /\ result' = [path |-> l, name |-> name, plug |-> "none"]
  /\ UNCHANGED refs

PlugNext ==
  /\ result.plug # "crash"
  /\ \E l \in Libraries, name \in Plugs : LoadDriver(l, name) \/ LoadDriverFails(l, name)

PlugSpec == PlugInit /\ [][PlugNext]_plugs

-----------------------------------------------------------------------------
\* Properties.

\* DriverKept: a name that was found works for ever, from the library that registered it
\* first, and it is found in every library that offers it.  Only a library that failed
\* once, for a name that it did not have, leaves factories behind that no longer exist:
\* calling one is undefined, whichever library the name is then asked of.
DriverKept ==
  /\ \A p \in Plugs : PlugMap[p] # NotFound => Loaded(p) \/ PlugMap[p].library \in failed
  /\ result.name # NoPlug =>
       /\ result.plug = "crash" => PlugMap[result.name].library \in failed
       /\ result.plug = "none" => result.name \notin Offers[result.path]
       /\ result.plug \in Libraries => result.plug = PlugMap[result.name].library
=============================================================================
