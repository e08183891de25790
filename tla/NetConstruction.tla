--------------------------- MODULE NetConstruction ---------------------------
(***************************************************************************)
(* PetriNet::construct (translate/petri_net.rs) on top of the call graph:  *)
(* which functions get places, the locks (LockGroups, step by step), the   *)
(* channels, atomics and unsafe groups (SharedResources), and which bodies *)
(* are translated, each as the instance whose locals the translation asks  *)
(* the resources for.  BodyToPetriNet is the translation of the bodies.    *)
(*                                                                         *)
(* Of the crate, further, are read                                         *)
(*   main       its entry function, NoInstance if there is none            *)
(*   functions  [..., blocks, returns, ignored, skipped]                   *)
(*     blocks   it has guards or condition variables                       *)
(*     returns  it has a return that is no suspension                      *)
(*     ignored  should_ignore_function holds for its path                  *)
(*     skipped  visit_body takes it for serialization code                 *)
(*   locks      what LockGroups is given, the order of the nodes apart     *)
(***************************************************************************)
EXTENDS SharedResources

ASSUME GuardsAssumption ==
  \A c \in Inputs : IsFiniteSet(DOMAIN c.locks.guard)

VARIABLES
  stage,        \* where the analysis is
  registered,   \* FunctionRegistry: functions with a start and an end place
  entry,        \* entry_exit: the function whose places they are, or NoInstance
  at,           \* the node translate_all_functions looks at
  translated,   \* visited_func_id: function -> the instance translated
  crate, phase, node, next, defs, guards, objects, order, pair, parent, place

Locks == INSTANCE LockGroups WITH
  Crates <- {}, Base <- {}, ProjElem <- {"f0", "f1"}, DepthCap <- 8, MaxPathLen <- 8

lockVars == <<crate, phase, node, next, defs, guards, objects, order, pair, parent, place>>
functionVars == <<registered, entry, at, translated>>

ConstructionInit ==
  /\ registered = {}
  /\ entry = NoInstance
  /\ at = 1
  /\ translated = <<>>
  /\ crate = input.locks
  /\ phase = "collect" /\ node = 1 /\ next = 1
  /\ defs = <<>> /\ guards = input.locks.guard /\ objects = <<>>
  /\ order = <<>> /\ pair = <<1, 2>> /\ parent = <<>> /\ place = <<>>

(* crate_filter_match.  The name is not normalised as that of the crate is  *)
(* when it is decided whether to analyse it.                                *)
CrateFilterMatch(f) ==
  LET filter == options.filter
      listed == filter.names \cap input.functions[f].named # {}
  IN  IF filter.list = "white" /\ filter.names # {} THEN listed
      ELSE /\ options.crate \in input.functions[f].named
           /\ ~(filter.list = "black" /\ listed)

(* concurrent_root_instance_ids *)
ConcurrentRoots ==
  {i \in WithBody : About(i).local /\ About(i).blocks}
  \cup {info.id[1] : info \in Range(AtomicVars)}
  \cup {e.id[1] : e \in ChannelEnds}

(* reachable_instance_ids *)
Wanted ==
  IF ~options.entryReachable \/ input.main = NoInstance THEN Range(nodes)
  ELSE ReachableFromRoots({input.main}
         \cup IF options.concurrentRoots THEN ConcurrentRoots ELSE {})

(* construct_func and process_functions. *)
ConstructFunctions ==
  /\ stage = "functions"
  /\ registered' = IF input.main = NoInstance THEN {}
                   ELSE {f \in {Fn(i) : i \in Wanted} :
                           CrateFilterMatch(f) /\ ~input.functions[f].ignored}
  /\ entry' = IF input.main # NoInstance /\ Fn(input.main) \in registered'
                THEN Fn(input.main) ELSE NoInstance
  /\ stage' = "locks"
  /\ LET ours == SelectSeq(nodes, LAMBDA i : i \in WithBody /\ About(i).local)
     IN  crate' = [input.locks EXCEPT !.nodes = [k \in DOMAIN ours |-> Fn(ours[k])]]
  /\ UNCHANGED <<input, options, graphVars, resourceVars, at, translated>>
  /\ UNCHANGED <<phase, node, next, defs, guards, objects, order, pair, parent, place>>

(* construct_lock_with_dfs: one step of LockGroups, or on to the channels.  *)
ConstructLocks ==
  /\ stage = "locks"
  /\ IF phase = "done"
       THEN stage' = "channels" /\ UNCHANGED lockVars
       ELSE UNCHANGED stage /\ Locks!Step
  /\ UNCHANGED <<input, options, graphVars, resourceVars, functionVars>>

(* construct_channel_resources, and the atomics are collected. *)
ConstructChannelResources ==
  /\ stage = "channels"
  /\ ConstructChannels
  /\ atomicsLeft' = DOMAIN AtomicVars
  /\ stage' = "atomics"
  /\ UNCHANGED <<input, options, graphVars, functionVars, lockVars>>

ConstructAtomicResources ==
  /\ stage = "atomics"
  /\ IF atomicsLeft = {}
       THEN stage' = "unsafe" /\ UNCHANGED resourceVars
       ELSE UNCHANGED stage /\ \E name \in atomicsLeft : ConstructAtomic(name)
  /\ UNCHANGED <<input, options, graphVars, functionVars, lockVars>>

ConstructUnsafeBlocks ==
  /\ stage = "unsafe"
  /\ ConstructUnsafe
  /\ stage' = "translate"
  /\ UNCHANGED <<input, options, graphVars, functionVars, lockVars>>

(* One turn of the loop of translate_all_functions.  A function that returns*)
(* has to have its places by then.                                          *)
TranslateFunction ==
  /\ stage = "translate"
  /\ at \in DOMAIN nodes
  /\ LET i == nodes[at]
         f == Fn(i)
         visits == /\ i \in Wanted
                   /\ input.functions[f].mir
                   /\ CrateFilterMatch(f)
                   /\ f \notin DOMAIN translated
         fails == /\ i \notin input.promoted
                  /\ ~input.functions[f].skipped
                  /\ input.functions[f].returns
                  /\ f \notin registered
     IN  /\ stage' = IF visits /\ fails THEN "panicked" ELSE stage
         /\ translated' = IF visits THEN [g \in {f} \cup DOMAIN translated |->
                                          IF g = f THEN i ELSE translated[g]]
                           ELSE translated
  /\ at' = at + 1
  /\ UNCHANGED <<input, options, graphVars, resourceVars, registered, entry, lockVars>>

EndTranslation ==
  /\ stage = "translate"
  /\ at \notin DOMAIN nodes
  /\ stage' = "built"
  /\ UNCHANGED <<input, options, graphVars, resourceVars, functionVars, lockVars>>

Construct ==
  \/ ConstructFunctions
  \/ ConstructLocks
  \/ ConstructChannelResources
  \/ ConstructAtomicResources
  \/ ConstructUnsafeBlocks
  \/ TranslateFunction
  \/ EndTranslation
-----------------------------------------------------------------------------
(* Once the net is built. *)
Built == stage \in {"built", "visualize", "summarise", "detect", "stop"}

(* What the program really does: entered by main are the functions a body   *)
(* that is entered calls, starts a thread with, or makes a closure of       *)
(* (functions[f].enters), but not those in variables that are only called.  *)
Entered ==
  LET reach[k \in Nat] ==
        IF k = 0 THEN {Fn(input.main)}
        ELSE reach[k - 1] \cup UNION {input.functions[f].enters : f \in reach[k - 1]}
  IN  IF input.main = NoInstance THEN {} ELSE reach[Cardinality(DOMAIN input.functions)]

Candidates ==
  {f \in DOMAIN input.functions : CrateFilterMatch(f) /\ input.functions[f].mir}

(* Whatever order the compiler lists the instances in, the net holds each   *)
(* function that may run, with its places and its body, and if no more was  *)
(* asked for none that does not run.                                        *)
EnteredIsTranslated ==
  Built =>
    /\ Entered \cap Candidates \subseteq DOMAIN translated
    /\ \A f \in Entered \cap Candidates : ~input.functions[f].ignored => f \in registered
    /\ options.entryReachable /\ ~options.concurrentRoots
         /\ input.main # NoInstance => DOMAIN translated \subseteq Entered

(* The translation of an atomic operation asks for the ordering and the     *)
(* places of the instance that is translated, the collector files them under*)
(* the first instance of the function: every operation with an ordering of  *)
(* the body finds both, in every order of the nodes.  With translation from *)
(* main alone this fails for functions given to a spawn, which main reaches *)
(* by a second node.                                                        *)
AtomicOperationsFound ==
  Built /\ (options.concurrentRoots \/ ~options.entryReachable) =>
    \A f \in DOMAIN translated :
      input.functions[f].local /\ options.crate \in input.functions[f].named =>
        \A op \in Range(input.functions[f].ops) :
          op.given = "moved" =>
            LET id == <<translated[f], op.local, op.index>>
            IN  id \in DOMAIN atomicOrders /\ id \in DOMAIN atomicPlaces

SharedMemoryShares == Built => AtomicsShare /\ ChannelsShare /\ UnsafeShares

(* Once the net is built the ends that share a line have a place.           *)
ChannelEndsMeet == Built => EndsOfALineMeet

(* The properties of lock groups, of the crates that have locks. *)
GroupsAreComponents == Locks!GroupsAreComponents
KindsAgree == Locks!KindsAgree
ReceiversFound == Locks!ReceiversFound
FollowedGuardsShare == Locks!FollowedGuardsShare
=============================================================================
