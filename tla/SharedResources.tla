--------------------------- MODULE SharedResources ---------------------------
(***************************************************************************)
(* Memory that threads share apart from locks: the collectors of channel   *)
(* ends, atomics and raw pointers (concurrency/{channel,atomic}.rs,        *)
(* memory/unsafe_memory.rs) over the nodes of the call graph, and the      *)
(* places and groups PetriNet::construct_{channel,atomic}_resources and    *)
(* construct_unsafe_blocks give them, in the order of hash maps.           *)
(*                                                                         *)
(* An AliasId is <<instance, local, index>>.  Of the crate that is         *)
(* analysed, more is read than CallGraph does:                             *)
(*   functions  function -> [local, mir, named, locals, ops, ...]          *)
(*     local    it is of the crate that is compiled                        *)
(*     mir      its MIR is available                                       *)
(*     named    those of the configured names its path starts with         *)
(*     locals   sequence of [local, ty, line]                              *)
(*     ops      calls of atomic operations: [local, index, given, assigned]*)
(*   memory     <<function, local>> -> what it may refer to, as the solved *)
(*              points-to relation has it; parameters of one type have     *)
(*              something in common too                                    *)
(***************************************************************************)
EXTENDS CallGraph, CommandLine, FiniteSetsExt

ASSUME BodiesAssumption ==
  \A c \in Inputs : \A i \in Instance :
    LET about == c.functions[Fn(i)]
    IN  /\ i \in c.expandable <=> about.local /\ about.mir
        /\ IsFiniteSet(Range(about.locals))
        /\ about.ops \in Seq(Range(about.ops))
        /\ \A op \in Range(about.ops) : op.index # "declared"

VARIABLES
  options,        \* what is asked for, as CommandLine has it
  channelPlaces,  \* AliasId -> place
  atomicOrders,   \* AliasId -> ordering
  atomicPlaces,   \* AliasId -> places
  atomicsLeft,    \* names of atomics that have no place yet
  unsafeGroups    \* AliasId -> group

resourceVars == <<channelPlaces, atomicOrders, atomicPlaces, atomicsLeft, unsafeGroups>>

NoIndex == "n"

ResourcesInit ==
  /\ channelPlaces = <<>>
  /\ atomicOrders = <<>>
  /\ atomicPlaces = <<>>
  /\ atomicsLeft = {}
  /\ unsafeGroups = <<>>

About(i) == input.functions[Fn(i)]

WithBody == {i \in Range(nodes) : weight[i] = "with"}

Put(m, x, v) == [y \in {x} \cup DOMAIN m |-> IF y = x THEN v ELSE m[y]]

LocalsOf(i, types) == {d \in Range(About(i).locals) : d.ty \in types}

(* What AtomicCollector and UnsafeAnalyzer look at. *)
Examined ==
  {i \in WithBody : About(i).local /\ options.crate \in About(i).named /\ About(i).mir}

Memory(a) ==
  LET x == <<Fn(a[1]), a[2]>>
  IN  {x} \cup (IF x \in DOMAIN input.memory THEN input.memory[x] ELSE {})

(* AliasEngine::alias, Probably and Possibly. *)
MayAlias(a, b) ==
  IF a[1] = b[1] /\ a[2] = b[2]
    THEN a[3] = b[3] \/ NoIndex \in {a[3], b[3]}
    ELSE Memory(a) \cap Memory(b) # {}
-----------------------------------------------------------------------------
(* ChannelCollector::analyze, of any crate's bodies; a local that is a pair *)
(* of both ends goes to a map of its own that no one reads.                 *)
ChannelEnds ==
  UNION {{[id |-> <<i, d.local, NoIndex>>, ty |-> d.ty, line |-> d.line] :
            d \in LocalsOf(i, {"Sender", "SyncSender", "Receiver"})} : i \in WithBody}

(* Mutant: any two locals of a line are the ends of a channel. *)
ArePairMut(ends) == Cardinality(ends) = 2

(* The two ends of a channel that the program binds in one line. *)
ArePair(ends) ==
  /\ Cardinality(ends) = 2
  /\ \E e \in ends : e.ty = "Receiver"
  /\ \E e \in ends : e.ty # "Receiver"

(* construct_channel_resources.  A place is known by the line. *)
ConstructChannels ==
  /\ LET ofLine(l) == {e \in ChannelEnds : e.line = l}
         paired == {e \in ChannelEnds : ArePair(ofLine(e.line))}
     IN  channelPlaces' = [a \in {e.id : e \in paired} |->
                             (CHOOSE e \in paired : e.id = a).line]
  /\ UNCHANGED <<atomicOrders, atomicPlaces, unsafeGroups>>
-----------------------------------------------------------------------------
Orderings == {"Relaxed", "Release", "Acquire", "AcqRel", "SeqCst"}

(* The ordering that the temporary was given last, anywhere in the body.    *)
OrderingOf(op) ==
  IF op.assigned # <<>> /\ Last(op.assigned) \in Orderings THEN Last(op.assigned) ELSE "SeqCst"

(* collect_atomic_vars: a local of an atomic type is entered afresh.        *)
DeclareAtomics(found, i) ==
  LET names == {<<Fn(i), d.local, "declared">> : d \in LocalsOf(i, {"Atomic"})}
  IN  [name \in names \cup DOMAIN found |->
         IF name \in names THEN [id |-> <<i, name[2], NoIndex>>, operations |-> <<>>]
         ELSE found[name]]

(* Mutant: an operation enters the atomic afresh. *)
RecordOperationMut(found, i, op) ==
  LET name == <<Fn(i), op.local, op.index>>
  IN  IF op.given = "moved"
        THEN Put(found, name, [id |-> <<i, op.local, op.index>>, operations |-> <<OrderingOf(op)>>])
      ELSE found

(* visit_terminator.  Names are made of paths, so that another instance of  *)
(* the function adds to what the first has entered; an ordering that is not *)
(* moved in from a local is recorded for what is known, if its value is.    *)
RecordOperation(found, i, op) ==
  LET name == <<Fn(i), op.local, op.index>>
  IN  IF name \in DOMAIN found /\ op.given \in {"moved", "value"}
        THEN [found EXCEPT ![name].operations = Append(@, OrderingOf(op))]
      ELSE IF op.given = "moved"
        THEN Put(found, name, [id |-> <<i, op.local, op.index>>, operations |-> <<OrderingOf(op)>>])
      ELSE found

(* visit_body *)
ExamineBody(found, i) ==
  LET ops == About(i).ops
      upTo[n \in 0 .. Len(ops)] ==
        IF n = 0 THEN DeclareAtomics(found, i) ELSE RecordOperation(upTo[n - 1], i, ops[n])
  IN  upTo[Len(ops)]

(* AtomicCollector::analyze *)
AtomicVars ==
  LET upTo[k \in 0 .. Len(nodes)] ==
        IF k = 0 THEN <<>>
        ELSE IF nodes[k] \in Examined THEN ExamineBody(upTo[k - 1], nodes[k])
        ELSE upTo[k - 1]
  IN  upTo[Len(nodes)]

(* Mutant: the first atomic that may be the same decides. *)
PlacesForMut(id) ==
  LET near == {e \in DOMAIN atomicPlaces : MayAlias(id, e)}
  IN  IF near = {} THEN {id} ELSE atomicPlaces[CHOOSE e \in near : TRUE]

(* A new place is known by its first atomic. *)
PlacesFor(id) ==
  LET near == UNION {atomicPlaces[e] : e \in {x \in DOMAIN atomicPlaces : MayAlias(id, x)}}
  IN  IF near = {} THEN {id} ELSE near

(* One turn of the loop of construct_atomic_resources. *)
ConstructAtomic(name) ==
  /\ name \in atomicsLeft
  /\ atomicsLeft' = atomicsLeft \ {name}
  /\ LET info == AtomicVars[name]
     IN  /\ atomicOrders' =
              Put(atomicOrders, info.id,
                  IF info.operations = <<>> THEN "Relaxed" ELSE Head(info.operations))
         /\ atomicPlaces' = Put(atomicPlaces, info.id, PlacesFor(info.id))
  /\ UNCHANGED <<channelPlaces, unsafeGroups>>
-----------------------------------------------------------------------------
RawPointers ==
  UNION {{<<i, d.local, NoIndex>> : d \in LocalsOf(i, {"RawPtr"})} : i \in Examined}

(* Mutant: a group is opened for every local. *)
AliasGroupsMut(order) ==
  [k \in DOMAIN order |-> {order[j] : j \in {n \in k .. Len(order) :
                                                n = k \/ MayAlias(order[k], order[n])}}]

(* Of the locals in this order, each one that is in no group yet opens one  *)
(* with all later ones that may alias it, even those that are in another.   *)
AliasGroups(order) ==
  LET group(k) == {order[j] : j \in {n \in k .. Len(order) :
                                        n = k \/ MayAlias(order[k], order[n])}}
      upTo[k \in 0 .. Len(order)] ==
        IF k = 0 THEN <<>>
        ELSE IF \E g \in Range(upTo[k - 1]) : order[k] \in g THEN upTo[k - 1]
        ELSE Append(upTo[k - 1], group(k))
  IN  upTo[Len(order)]

(* construct_unsafe_blocks.  The locals come in the order of one hash map,  *)
(* the groups in that of another: a local in two keeps the later one.       *)
ConstructUnsafe ==
  /\ \E order \in SetToSeqs(RawPointers) :
       LET groups == AliasGroups(order)
       IN  \E ranks \in SetToSeqs(DOMAIN groups) :
             unsafeGroups' = [a \in RawPointers |->
               ranks[Max({k \in DOMAIN ranks : a \in groups[ranks[k]]})]]
  /\ UNCHANGED <<channelPlaces, atomicOrders, atomicPlaces, atomicsLeft>>
-----------------------------------------------------------------------------
(* What the program shares, if each of its locals refers to one thing: two  *)
(* atomics have a place in common exactly if they may be the same, and raw  *)
(* pointers are in one group exactly if they may point to the same, both in *)
(* every order of the hash maps; the ends of a channel meet in one place if *)
(* the line that binds them binds no other end, and else have none.         *)
Equivalence(ids) ==
  \A a, b, c \in ids : MayAlias(a, b) /\ MayAlias(b, c) => MayAlias(a, c)

AtomicsShare ==
  \A a, b \in DOMAIN atomicPlaces :
    /\ MayAlias(a, b) => atomicPlaces[a] \cap atomicPlaces[b] # {}
    /\ Equivalence(DOMAIN atomicPlaces) =>
         /\ Cardinality(atomicPlaces[a]) = 1
         /\ atomicPlaces[a] = atomicPlaces[b] => MayAlias(a, b)

EndsOn(line) == {e \in ChannelEnds : e.line = line}

BindsBoth(line) ==
  /\ \E e \in EndsOn(line) : e.ty = "Receiver"
  /\ \E e \in EndsOn(line) : e.ty # "Receiver"

(* Two ends are all that the line binds. *)
BindsPair(line) ==
  \E s, r \in ChannelEnds : s.ty # "Receiver" /\ r.ty = "Receiver" /\ EndsOn(line) = {s, r}

(* Pairing by lines is right if a line binds the ends of one channel, only  *)
(* one line binds both, and no end may be an end of two channels.  Then two *)
(* ends, wherever they are, have a place in common exactly if they are of   *)
(* one channel and the line that binds it binds a pair; no end has two.     *)
ChannelsShare ==
  LET places(e) == {channelPlaces[b] : b \in {x \in DOMAIN channelPlaces : MayAlias(e.id, x)}}
      same(d, e) == MayAlias(d.id, e.id)
  IN  /\ Equivalence({e.id : e \in ChannelEnds})
      /\ \A d, e \in ChannelEnds :
           d.line = e.line \/ (BindsBoth(d.line) /\ BindsBoth(e.line))
             => (same(d, e) <=> d.line = e.line)
      => \A d, e \in ChannelEnds :
           /\ places(d) \cap places(e) # {} <=>
                same(d, e) /\ \E b \in ChannelEnds : same(b, d) /\ BindsPair(b.line)
           /\ \A p, q \in places(d) : p = q

(* A sender and a receiver of one line are given one place, as are all ends *)
(* the line has: what docs/shared-value-dataflow.md promises.  It does not  *)
(* hold of a function with two nodes, whose line has four ends.             *)
EndsOfALineMeet ==
  \A line \in {e.line : e \in ChannelEnds} :
    BindsBoth(line) =>
      \A d, e \in EndsOn(line) :
        {d.id, e.id} \subseteq DOMAIN channelPlaces /\ channelPlaces[d.id] = channelPlaces[e.id]

UnsafeShares ==
  Equivalence(DOMAIN unsafeGroups) =>
    \A a, b \in DOMAIN unsafeGroups : unsafeGroups[a] = unsafeGroups[b] <=> MayAlias(a, b)
=============================================================================
