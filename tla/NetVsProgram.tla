--------------------------- MODULE NetVsProgram ---------------------------
(***************************************************************************)
(* A program is translated, then net and program run side by side: the net *)
(* fires the transition whose label the program's step carries.  As long   *)
(* as the main thread runs the two must offer the same steps and the       *)
(* marking must say where the threads are and what they hold; otherwise    *)
(* the detectors, which only see the net, judge another program.           *)
(***************************************************************************)
EXTENDS BodyToPetriNet, ThreadedProgram, DataRaceDetector

vars == <<prog, netVars, transVars, progVars>>

Init == TransInit /\ ProgInit

Run ==
  /\ phase = "run"
  /\ ~Ended(prog.main)
  /\ \E th \in NodeFuncs : \E id \in Labels(th) : Step(th, id) /\ Fire(id)
  /\ UNCHANGED <<prog, transVars>>

Next == (Translate /\ UNCHANGED progVars) \/ Run

Spec == Init /\ [][Next]_vars
-----------------------------------------------------------------------------
Comparable == phase = "run" /\ ~Ended(prog.main)

(* The translation only gives up where a function on the ignore list        *)
(* returns, which handle_return() (terminator.rs:168) does not expect:      *)
(* visit_body() translates a crate's own visit_tree(), say, that            *)
(* process_functions() gave no places.  Otherwise the places expect() *)
(* asks for exist: every block that is translated jumps to blocks that have *)
(* a place.                                                                 *)
ExpectationsHold == phase = "panicked" => fn \in prog.ignored

CondvarStep(id) ==
  id[3] \in {"call", "ret"} /\ TermOf(id).op = "call" /\ TermOf(id).api \in {"wait", "notify"}

(* Whatever a thread can do next the net can do: a marking in which nothing *)
(* is enabled is a deadlock of the program, no false alarm.  Condition      *)
(* variables are the exception: their place holds one token at most.        *)
NetMissesNoStep ==
  Comparable => \A th \in NodeFuncs : \A id \in Labels(th) :
    Ready(th, id) /\ ~CondvarStep(id) => id \in DOMAIN trans /\ IsEnabled(id)

(* Whatever is enabled in the net some thread can do: no transition gets    *)
(* past a lock, a join, a receive or a scope that holds the thread up, so   *)
(* no deadlock of the program is missed.                                    *)
NetAllowsOnlyProgram ==
  Comparable => \A id \in DOMAIN trans :
    IsEnabled(id) => \E th \in NodeFuncs : Ready(th, id)

FramePlace(fr) ==
  CASE fr.at = "entry" -> StartPlace(fr.f)
    [] fr.at = "block" -> BlockPlace(fr.f, fr.b)
    [] fr.at = "accessed" -> ReadyPlace(fr.f, fr.b)
    [] fr.at = "operation" -> OperationPlace(fr.f, fr.b)
    [] fr.at = "await" -> WaitPlace(fr.f, fr.b)
    [] fr.at = "end" -> EndPlace(fr.f)

OccupiedPlaces ==
  UNION {{FramePlace(stack[th][i]) : i \in DOMAIN stack[th]} : th \in NodeFuncs}

(* How many locals own the lock in one of these ways. *)
Held(l, kinds) ==
  Cardinality({x \in live : Owner(x).lock = l /\ Owner(x).kind \in kinds})

(* The control places that are marked are those the frames of the threads   *)
(* stand for; a lock place has lost exactly the tokens of the guards that   *)
(* are alive, on every path, and a channel place counts its messages.       *)
MarkingMirrorsThreads ==
  Comparable =>
    /\ \A p \in Place : p[1] \in {"start", "bb", "ready", "operation", "wait", "end"} =>
         (marking[p] = 1 <=> p \in OccupiedPlaces)
    /\ \A l \in Locks :
         marking[LockPlace(l)] + Held(l, {"mutex", "read"})
                               + Weight("write") * Held(l, {"write"}) = LockCapacity(l)
    /\ \A c \in DOMAIN sent : marking[ChannelPlace(c)] = sent[c]

(* Accesses <<variable, isWrite>> the thread is about to execute. *)
Upcoming(th) ==
  UNION {Block(id[1], id[2]).accesses : id \in {l \in Labels(th) : l[3] = "unsafe"}}

Racing(v) ==
  \E th, other \in NodeFuncs :
    /\ th # other
    /\ \E a \in Upcoming(th), b \in Upcoming(other) :
         a[1] = v /\ b[1] = v /\ (a[2] \/ b[2])

Variables == UNION {UNION {UNION {{a[1] : a \in Block(f, b).accesses} :
                                    b \in BlocksOf(f)} : f \in NodeFuncs}}

HasMergedSites ==
  \E f, g \in NodeFuncs : f # g /\ prog.scope[f] = prog.scope[g]

(* The variables reported in a marking are those two threads are about to   *)
(* access in conflict: no lock, join or spawn that orders the accesses in   *)
(* the program is lost in the net, none is added, and merging the accesses  *)
(* of a block hides no conflict.                                            *)
RacesAreConcurrent ==
  Comparable /\ ~HasMergedSites => \A v \in Variables : RaceReported(v) <=> Racing(v)
-----------------------------------------------------------------------------
(* docs/detection-algorithms.md:127: two sites that access one location in  *)
(* one marking, not both reading, are a data race.                          *)
RacesReported == Comparable => \A v \in Variables : Racing(v) => RaceReported(v)

(* The comment of handle_lock_call (calls.rs:52): a call that merely        *)
(* forwards an existing guard does not acquire a second token, so it never  *)
(* waits for the lock it passes on.                                         *)
ForwardsNeverBlock ==
  Comparable => \A th \in NodeFuncs : \A id \in Labels(th) :
    Ready(th, id) /\ Forwarded(id, live) # {} => IsEnabled(id)

(* The comment of is_back_edge (mod.rs:77): the net preserves the complete  *)
(* control flow.  An operation on an atomic never waits for another thread, *)
(* so a thread that has come to one can take it.                            *)
OperationsNeverBlock ==
  Comparable => \A th \in NodeFuncs : \A id \in Labels(th) :
    id[3] = "atomic" => IsEnabled(id)
=============================================================================
