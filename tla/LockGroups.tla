----------------------------- MODULE LockGroups -----------------------------
(***************************************************************************)
(* Which guards stand for the same lock: BlockingCollector                 *)
(* (concurrency/blocking.rs) traces every guard back to the lock object    *)
(* its acquiring call was made on, construct_lock_with_dfs                 *)
(* (translate/petri_net.rs) unites guards whose lock objects may alias and *)
(* gives each group one place.                                             *)
(*                                                                         *)
(* A body is read as the sequence of its definitions, in the order of the  *)
(* blocks, which is not the order of execution.  A lock object is          *)
(* <<function, local, field>>; so is a guard, whose field is NoField       *)
(* unless a coroutine keeps it in its state.                               *)
(***************************************************************************)
EXTENDS LocArena, FiniteSetsExt, SequencesExt

CONSTANT Crates    \* crates analysed: [nodes, body, guard, param, pts, flows]
(*  nodes  functions in the order of the call graph                          *)
(*  body   function -> sequence of definitions                               *)
(*  guard  guard-typed local, as <<f, x, NoField>> -> kind                   *)
(*  param  <<f, x>> -> <<position, type>> of a parameter                     *)
(*  pts    location -> locations: the solved points-to relation              *)
(*  flows  location -> locations its value is copied or stored to            *)

(* A definition: [how, dest, field, src, from, second, kind, locks]           *)
(*   how     "use"      dest = move src.from                                 *)
(*           "ref"      dest = &src.from                                     *)
(*           "acquire"  dest.field = lock(src.from); kind of guard or "none"   *)
(*           "extract"  dest = unwrap(src.from), or deref of an Arc          *)
(*           "call"     dest = another function of src.from                  *)
(*           "wait"     dest = wait(src, second)                             *)
(*           "store"    dest.field = move src                                *)
(*   locks   the locks it really takes when it is executed                   *)

VARIABLES
  crate,
  phase,     \* "collect", "unite", "done"
  node,      \* function being collected, an index of crate.nodes
  next,      \* its next definition
  defs,      \* def_source: local -> sequence of [how, src, from]
  guards,    \* lockguards: guard -> kind
  objects,   \* lock_objects: guard -> lock object
  order,     \* lockid_vec
  pair,      \* the pair <<i, j>> compared next
  parent,    \* union_find
  place      \* resources.locks: guard -> [group, kind]

collectVars == <<node, next, defs, guards, objects>>
vars == <<crate, phase, collectVars, order, pair, parent, place>>

NoField == "none"

fn == crate.nodes[node]
Plain(x) == <<fn, x, NoField>>

(* Option::or *)
OrElse(a, b) == IF a = NoField THEN b ELSE a

At(m, x) == IF x \in DOMAIN m THEN m[x] ELSE {}

With(m, x, v) == [y \in DOMAIN m \cup {x} |-> IF y = x THEN v ELSE m[y]]

Init ==
  /\ crate \in Crates
  /\ phase = "collect"
  /\ node = 1
  /\ next = 1
  /\ defs = <<>>
  /\ guards = crate.guard
  /\ objects = <<>>
  /\ order = <<>>
  /\ pair = <<1, 2>>
  /\ parent = <<>>
  /\ place = <<>>
-----------------------------------------------------------------------------
(* resolve_lock_objects, the loop over the blocks: one definition per step. *)

Record(x, how, src, from) ==
  defs' = With(defs, x, Append(IF x \in DOMAIN defs THEN defs[x] ELSE <<>>,
                               [how |-> how, src |-> src, from |-> from]))

(* trace_to_receiver: along the first definitions known so far. *)
TraceToReceiver(x) ==
  LET trace[k \in Nat] ==
        IF k = 0 THEN [at |-> x, found |-> FALSE, from |-> NoField]
        ELSE LET before == trace[k - 1]
                 first == Head(defs[before.at])
             IN  IF before.found \/ before.at \notin DOMAIN defs THEN before
                 ELSE [at |-> first.src, found |-> first.how # "forward",
                       from |-> IF first.how = "forward" THEN NoField ELSE first.from]
      end == trace[Cardinality(DOMAIN defs) + 1]
  IN  IF end.found THEN end ELSE [at |-> x, found |-> FALSE, from |-> NoField]

Reading(how) ==
  /\ phase = "collect"
  /\ node \in DOMAIN crate.nodes
  /\ next \in DOMAIN crate.body[fn]
  /\ crate.body[fn][next].how = how
  /\ next' = next + 1
  /\ UNCHANGED <<crate, phase, node, order, pair, parent, place>>

Use(d) ==
  /\ Reading("use")
  /\ Record(d.dest, "forward", d.src, d.from)
  /\ UNCHANGED <<guards, objects>>

Ref(d) ==
  /\ Reading("ref")
  /\ Record(d.dest, "borrow", d.src, d.from)
  /\ UNCHANGED <<guards, objects>>

(* The receiver is traced through the borrow it was passed by; a guard      *)
(* stored in a coroutine's state is registered with its receiver at once.   *)
Acquire(d) ==
  /\ Reading("acquire")
  /\ LET receiver == TraceToReceiver(d.src)
         field == OrElse(d.from, receiver.from)
         guard == <<fn, d.dest, d.field>>
     IN  IF d.field = NoField
           THEN /\ Record(d.dest, "acquire", receiver.at, field)
                /\ UNCHANGED <<guards, objects>>
           ELSE IF d.kind = "none" THEN UNCHANGED <<defs, guards, objects>>
           ELSE /\ guards' = With(guards, guard, d.kind)
                /\ objects' = With(objects, guard, <<fn, receiver.at, field>>)
                /\ UNCHANGED defs

(* Extractors, derefs, and whatever else returns a guard. *)
Extract(d) ==
  /\ \/ Reading("extract")
     \/ Reading("call") /\ Plain(d.dest) \in DOMAIN guards
     \/ Reading("wait") /\ Plain(d.dest) \in DOMAIN guards
  /\ Record(d.dest, "forward", d.src, d.from)
  /\ UNCHANGED <<guards, objects>>

Wait(d) ==
  /\ Reading("wait")
  /\ Plain(d.dest) \notin DOMAIN guards
  /\ Record(d.dest, "forward", d.second, NoField)
  /\ UNCHANGED <<guards, objects>>

(* Assignments to fields and other calls are not followed. *)
Ignore(d) ==
  /\ \/ Reading("store")
     \/ Reading("call") /\ Plain(d.dest) \notin DOMAIN guards
  /\ UNCHANGED <<defs, guards, objects>>

(* A lock call, or the borrow of what is no guard. *)
EndsChain(d) ==
  d.how = "acquire" \/ (d.how = "borrow" /\ Plain(d.src) \notin DOMAIN guards)

(* Mutant: a definition overwrites the earlier ones. *)
ResolveMut(x) ==
  LET walk[y \in DOMAIN defs, seen \in SUBSET DOMAIN defs] ==
        LET d == Last(defs[y]) IN
        IF EndsChain(d) THEN {<<d.src, d.from>>}
        ELSE IF d.src \in seen \/ d.src \notin DOMAIN defs THEN {}
        ELSE {<<r[1], IF d.how = "borrow" THEN r[2] ELSE OrElse(r[2], d.from)>> :
                r \in walk[d.src, seen \cup {d.src}]}
  IN  IF x \in DOMAIN defs THEN walk[x, {}] ELSE {}

(* resolve_guard_receiver: the first definition whose chain ends; {} if     *)
(* there is none.                                                           *)
Resolve(x) ==
  LET walk[w \in (DOMAIN defs) \X (SUBSET DOMAIN defs)] ==      \* <<local, those seen>>
        LET chain(d) ==
              IF EndsChain(d) THEN {<<d.src, d.from>>}
              ELSE IF d.src \in w[2] \/ d.src \notin DOMAIN defs THEN {}
              ELSE {<<r[1], IF d.how = "borrow" THEN r[2] ELSE OrElse(r[2], d.from)>> :
                      r \in walk[<<d.src, w[2] \cup {d.src}>>]}
            ends == {k \in DOMAIN defs[w[1]] : chain(defs[w[1]][k]) # {}}
        IN  IF ends = {} THEN {} ELSE chain(defs[w[1]][Min(ends)])
  IN  IF x \in DOMAIN defs THEN walk[<<x, {}>>] ELSE {}

EndBody ==
  /\ phase = "collect"
  /\ node \in DOMAIN crate.nodes
  /\ next \notin DOMAIN crate.body[fn]
  /\ LET resolved == {g \in DOMAIN guards : g[1] = fn /\ g[3] = NoField /\ Resolve(g[2]) # {}}
         receiver(g) == CHOOSE r \in Resolve(g[2]) : TRUE
     IN  objects' = [g \in resolved \cup DOMAIN objects |->
                       IF g \in resolved THEN <<fn, receiver(g)[1], receiver(g)[2]>>
                       ELSE objects[g]]
  /\ node' = node + 1
  /\ next' = 1
  /\ defs' = <<>>
  /\ UNCHANGED <<crate, phase, guards, order, pair, parent, place>>
-----------------------------------------------------------------------------
(* PtaAliasAnalysis::alias, over the solved relation. *)

Var(f, x) == [base |-> <<f, x>>, path |-> <<>>]

Pts(l) == At(crate.pts, l)

(* stored_into: where the value goes, transitively. *)
StoredInto(l) ==
  LET reach[k \in Nat] ==
        IF k = 0 THEN {l}
        ELSE LET before == reach[k - 1]
             IN  before \cup UNION {At(crate.flows, m) : m \in before}
  IN  reach[Cardinality(DOMAIN crate.flows)] \ {l}

(* Mutant: a value is known only by its own slot. *)
DenotedMut(o) ==
  LET own == Var(o[1], o[2])
      field(l) == ProjectLoc(l, <<o[3]>>)
  IN  IF o[3] = NoField
        THEN {own} \cup Pts(own)
        ELSE Pts(field(own)) \cup UNION {{field(p)} \cup Pts(field(p)) : p \in Pts(own)}

(* collapsed_receiver_points_to: what the receiver may be, its own slot, its *)
(* pointees, and for a value that points nowhere the slots it is moved to.  *)
Denoted(o) ==
  LET own == Var(o[1], o[2])
      field(l) == ProjectLoc(l, <<o[3]>>)
  IN  IF o[3] = NoField
        THEN {own} \cup Pts(own) \cup (IF Pts(own) = {} THEN StoredInto(own) ELSE {})
        ELSE Pts(field(own)) \cup UNION {{field(p)} \cup Pts(field(p)) : p \in Pts(own)}

(* may_alias_via_type_param *)
SameParameter(o, p) ==
  LET a == <<o[1], o[2]>>
      b == <<p[1], p[2]>>
  IN  /\ a \in DOMAIN crate.param /\ b \in DOMAIN crate.param
      /\ crate.param[a][2] = crate.param[b][2]
      /\ o[1] = p[1] \/ crate.param[a][1] = crate.param[b][1]

(* Mutant: parameters of one type alias whatever the fields. *)
MayAliasMut(o, p) ==
  IF o[1] = p[1] /\ o[2] = p[2]
    THEN o[3] = p[3] \/ NoField \in {o[3], p[3]}
    ELSE Denoted(o) \cap Denoted(p) # {} \/ SameParameter(o, p)

(* Probably and Possibly; every function is in the call graph, so no answer *)
(* is Unknown.                                                              *)
MayAlias(o, p) ==
  IF o[1] = p[1] /\ o[2] = p[2]
    THEN o[3] = p[3] \/ NoField \in {o[3], p[3]}
    ELSE \/ Denoted(o) \cap Denoted(p) # {}
         \/ SameParameter(o, p) /\ (o[3] = p[3] \/ NoField \in {o[3], p[3]})

(* alias_id_for: the lock object, else the guard itself. *)
ObjectOf(g) == IF g \in DOMAIN objects THEN objects[g] ELSE g

SameLock(g, h) == MayAlias(ObjectOf(g), ObjectOf(h))
-----------------------------------------------------------------------------
(* construct_lock_with_dfs.  The order of the guards is that of a hash map. *)

StartUniting ==
  /\ phase = "collect"
  /\ node \notin DOMAIN crate.nodes
  /\ order' \in SetToSeqs(DOMAIN guards)
  /\ phase' = "unite"
  /\ parent' = [g \in DOMAIN guards |-> g]
  /\ UNCHANGED <<crate, collectVars, pair, place>>

Find(g) ==
  LET up[k \in Nat] == IF k = 0 THEN g ELSE parent[up[k - 1]]
  IN  up[Cardinality(DOMAIN parent)]

(* Mutant: the guard is hung up, not its root. *)
UniteMut(g, h) ==
  parent' = [parent EXCEPT ![h] = IF Find(g) = Find(h) THEN @ ELSE Find(g)]

Unite(g, h) == parent' = [parent EXCEPT ![Find(h)] = Find(g)]

ComparePair ==
  /\ phase = "unite"
  /\ pair[2] \in DOMAIN order
  /\ LET g == order[pair[1]]
         h == order[pair[2]]
     IN  IF SameLock(g, h) THEN Unite(g, h) ELSE UNCHANGED parent
  /\ pair' = IF pair[2] < Len(order) THEN <<pair[1], pair[2] + 1>>
             ELSE <<pair[1] + 1, pair[1] + 2>>
  /\ UNCHANGED <<crate, phase, collectVars, order, place>>

(* The kind of the place is that of the first guard of the group. *)
CreatePlaces ==
  /\ phase = "unite"
  /\ pair[2] \notin DOMAIN order
  /\ LET first(g) == order[Min({i \in DOMAIN order : Find(order[i]) = Find(g)})]
     IN  place' = [g \in DOMAIN guards |->
                     [group |-> Find(g),
                      kind |-> IF guards[first(g)] = "mutex" THEN "mutex" ELSE "rwlock"]]
  /\ phase' = "done"
  /\ UNCHANGED <<crate, collectVars, order, pair, parent>>

Done == phase = "done" /\ UNCHANGED vars

Collect ==
  /\ phase = "collect"
  /\ node \in DOMAIN crate.nodes
  /\ next \in DOMAIN crate.body[fn]
  /\ LET d == crate.body[fn][next]
     IN  Use(d) \/ Ref(d) \/ Acquire(d) \/ Extract(d) \/ Wait(d) \/ Ignore(d)

Step == Collect \/ EndBody \/ StartUniting \/ ComparePair \/ CreatePlaces

Next == Step \/ Done

Spec == Init /\ [][Next]_vars
-----------------------------------------------------------------------------
SamePlace(g, h) == place[g].group = place[h].group

(* The guards connected with g by lock objects that may alias. *)
Component(g) ==
  LET reach[k \in Nat] ==
        IF k = 0 THEN {g}
        ELSE LET before == reach[k - 1]
             IN  before \cup {h \in DOMAIN guards : \E b \in before : SameLock(b, h)}
  IN  reach[Cardinality(DOMAIN guards)]

(* May-alias is no equivalence; the groups are its connected components,    *)
(* whatever order the hash map gives and however the trees are hung up.     *)
GroupsAreComponents ==
  phase = "done" => \A g, h \in DOMAIN guards : SamePlace(g, h) <=> h \in Component(g)

(* A mutex guard never gets a place of an RwLock or the other way round,    *)
(* whichever guard of the group comes first: a write guard on a mutex place *)
(* would ask for ten tokens where there is one.  For locks that are borrowed*)
(* through one field: of a.b the collector keeps only a.                    *)
KindsAgree ==
  phase = "done" => \A g \in DOMAIN guards : place[g].kind = "mutex" <=> guards[g] = "mutex"

(* The locks a place may own when the body runs, along all its definitions; *)
(* what is moved out of a place comes from it or from the part asked for.   *)
Owned(f) ==
  LET body == crate.body[f]
      places == {<<body[i].dest, body[i].field>> : i \in DOMAIN body}
      owned[k \in Nat] ==
        IF k = 0 THEN [p \in places |-> {}]
        ELSE LET before == owned[k - 1]
                 source(d) == IF d.how = "wait" THEN d.second ELSE d.src
                 parts(d) == {p \in places : /\ p[1] = source(d)
                                             /\ p[2] = d.from \/ NoField \in {p[2], d.from}}
                 given(d) == d.locks \cup
                   IF d.how = "ref" THEN {} ELSE UNION {before[p] : p \in parts(d)}
             IN  [p \in places |-> UNION {given(body[i]) :
                    i \in {n \in DOMAIN body : <<body[n].dest, body[n].field>> = p}}]
  IN  owned[Cardinality(places) + 1]

Protects(g) == At(Owned(g[1]), <<g[2], g[3]>>)

(* Every guard that some lock call of the body reaches has its lock object  *)
(* (resolve_guard_receiver), on whatever chain of definitions and however   *)
(* these go round in a loop; of guards moved from local to local, not in and*)
(* out of a field.                                                          *)
ReceiversFound ==
  phase = "done" => \A g \in DOMAIN guards : Protects(g) # {} => g \in DOMAIN objects

(* Guards that own the same lock share a place, in and across functions; of *)
(* those the collector followed to a lock object and that own one lock.     *)
FollowedGuardsShare ==
  phase = "done" =>
    \A g, h \in DOMAIN objects :
      Cardinality(Protects(g)) = 1 /\ Protects(g) = Protects(h) => SamePlace(g, h)

(* The comment of construct_lock_with_dfs (petri_net.rs:560): two guards    *)
(* belong to the same lock resource when the lock objects they protect may  *)
(* alias.                                                                   *)
LocksShareAPlace ==
  phase = "done" =>
    \A g, h \in DOMAIN guards : Protects(g) \cap Protects(h) # {} => SamePlace(g, h)
=============================================================================
