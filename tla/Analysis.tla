------------------------------ MODULE Analysis ------------------------------
(***************************************************************************)
(* One invocation of the analysis (callback.rs, the options of options.rs, *)
(* the memory watcher of util/mem_watcher.rs): the phases and where they   *)
(* end early, the files each writes, the two detectors of mode all, which  *)
(* run in parallel, and the sampler thread, which nobody stops.            *)
(*                                                                         *)
(* Of the crate are read, further, the command line `args', the file       *)
(* `config', and in `world' what they meet:                                *)
(*   crate       the crate compiled                                        *)
(*   buildDir    the output directory has /build/ in its name              *)
(*   codegen     the compiler was asked for code                           *)
(*   statm       memory statistics can be read                             *)
(*   issues      diagnose_connectivity finds any                           *)
(*   unwritable  files that cannot be written                              *)
(***************************************************************************)
EXTENDS NetConstruction

Modes == {"deadlock", "datarace", "atomic", "all", "pointsto"}

(* clap takes no other mode. *)
ASSUME AskedAssumption ==
  \A c \in Inputs : /\ Given(c.args, "mode", "deadlock") \in Modes
                    /\ c.config.research \in BOOLEAN

VARIABLES
  written,   \* files written
  running,   \* detectors that have not written their report
  sampler,   \* "off", "sleeping", "ready" or "sampling"
  holder     \* who has the mutex of max_resident: "none" or "sampler"

analysisVars == <<stage, written, running, sampler, holder>>
constructionVars == <<input, options, graphVars, resourceVars, functionVars, lockVars>>

World == input.world

AnalysisInit ==
  /\ input \in Inputs
  /\ GraphInit
  /\ ResourcesInit
  /\ ConstructionInit
  /\ options = ParseFromArgs([flags |-> {}, unknown |-> FALSE, separate |-> FALSE], DefaultConfig)
  /\ stage = "run"
  /\ written = {}
  /\ running = {}
  /\ sampler = "off"
  /\ holder = "none"

(* A failed write is logged and the analysis goes on. *)
Write(files) == written' = written \cup (files \ World.unwritable)

(* run: the options come from the environment, once per crate that is built.*)
ParseOptions ==
  /\ stage = "run"
  /\ IF EndsWithUsage(input.args)
       THEN stage' = "exited" /\ UNCHANGED options
       ELSE stage' = "callback" /\ options' = ParseFromArgs(input.args, input.config)
  /\ UNCHANGED <<input, graphVars, resourceVars, functionVars, lockVars>>
  /\ UNCHANGED <<written, running, sampler, holder>>

(* after_analysis *)
AfterAnalysis ==
  /\ stage = "callback"
  /\ stage' = IF World.buildDir \/ options.stop = "mir" THEN "returned" ELSE "entered"
  /\ UNCHANGED <<constructionVars, written, running, sampler, holder>>

(* analyze_with_pta: the watcher starts before it is known whether there is *)
(* anything to do.                                                          *)
Enter ==
  /\ stage = "entered"
  /\ sampler' = IF World.statm THEN "ready" ELSE "off"
  /\ stage' = IF World.codegen /\ TargetsCurrentCrate(options, World.crate) THEN "callgraph" ELSE "returned"
  /\ UNCHANGED <<constructionVars, written, running, holder>>

AnalyzeCallGraph ==
  /\ stage = "callgraph"
  /\ Analyze
  /\ UNCHANGED <<options, resourceVars, functionVars, lockVars, analysisVars>>

EndCallGraph ==
  /\ stage = "callgraph"
  /\ Ended
  /\ Write({"mir"} \cap options.dumps)
  /\ stage' = IF options.stop = "callgraph" THEN "returned" ELSE "functions"
  /\ UNCHANGED <<constructionVars, running, sampler, holder>>

ConstructNet ==
  /\ Construct
  /\ UNCHANGED <<written, running, sampler, holder>>

StageFiles == {"petrinet_reduce_1_loop", "petrinet_reduce_2_sequence",
               "petrinet_reduce_3_intermediate"}

(* Mutant: the files of the stages are copied whether or not the net was   *)
(* reduced, as if reduction never failed.                                   *)
StagesWrittenMut(reduced) == IF reduced THEN StageFiles ELSE {}

(* Nets of the stages of the reduction, or copies of the raw net. *)
StagesWritten(reduced) ==
  IF reduced \/ "petrinet_raw" \notin World.unwritable THEN StageFiles ELSE {}

(* The net is reduced if asked for and possible, and dumped before, during  *)
(* and after that.                                                          *)
ReduceAndDump ==
  /\ stage = "built"
  /\ stage' = "visualize"
  /\ \E reduced \in BOOLEAN :
       /\ reduced => options.reduce
       /\ LET dumped == {"petrinet_raw"} \cup StagesWritten(reduced) \cup {"petrinet"}
              diagnosed == IF options.research /\ World.issues
                             THEN {"petri_net_diagnostics"} ELSE {}
          IN  Write(IF "petrinet" \in options.dumps THEN dumped \cup diagnosed ELSE {})
  /\ UNCHANGED <<constructionVars, running, sampler, holder>>

(* The state graph is built; handle_visualizations.                         *)
HandleVisualizations ==
  /\ stage = "visualize"
  /\ LET graphs == options.dumps \cap {"callgraph", "stategraph"}
         report == IF "pointsto" \in options.dumps \/ options.detector = "pointsto"
                     THEN {"points_to_report"} ELSE {}
     IN  IF "unsafe" \in options.dumps
           THEN stage' = "panicked" /\ Write(graphs)      \* todo!()
           ELSE stage' = "summarise" /\ Write(graphs \cup report)
  /\ UNCHANGED <<constructionVars, running, sampler, holder>>

(* Mutant: a stop after the state graph is overlooked. *)
StopsBeforeDetectionMut == options.stop = "pointsto" \/ options.detector = "pointsto"

StopsBeforeDetection ==
  options.stop \in {"pointsto", "stategraph"} \/ options.detector = "pointsto"

Detectors ==
  CASE options.detector = "all"      -> {"deadlock", "datarace"}
    [] options.detector = "pointsto" -> {}
    [] OTHER                         -> {options.detector}

(* write_summary; from here some return and leave the watcher running.      *)
WriteSummary ==
  /\ stage = "summarise"
  /\ Write(IF options.research THEN {"summary"} ELSE {})
  /\ IF StopsBeforeDetection
       THEN stage' = "returned" /\ UNCHANGED running
       ELSE stage' = "detect" /\ running' = Detectors
  /\ UNCHANGED <<constructionVars, sampler, holder>>

ReportOf(d) ==
  CASE d = "deadlock" -> "deadlock_report"
    [] d = "datarace" -> "datarace_report"
    [] d = "atomic"   -> "atomicity_report"

(* run_*_detector; of `all', rayon runs the two in any order. *)
RunDetector(d) ==
  /\ stage = "detect"
  /\ d \in running
  /\ running' = running \ {d}
  /\ Write({ReportOf(d)})
  /\ UNCHANGED <<constructionVars, stage, sampler, holder>>

EndDetection ==
  /\ stage = "detect"
  /\ running = {}
  /\ stage' = "stop"
  /\ UNCHANGED <<constructionVars, written, running, sampler, holder>>

(* MemoryWatcher::stop: the handle is dropped, which detaches the thread,   *)
(* and the mutex locked for as long as it takes to copy the number.         *)
StopWatcher ==
  /\ stage = "stop"
  /\ World.statm => holder = "none"
  /\ stage' = "returned"
  /\ UNCHANGED <<constructionVars, written, running, sampler, holder>>

Main ==
  \/ ParseOptions \/ AfterAnalysis \/ Enter \/ AnalyzeCallGraph \/ EndCallGraph \/ ConstructNet
  \/ ReduceAndDump \/ HandleVisualizations \/ WriteSummary
  \/ (\E d \in running : RunDetector(d))
  \/ EndDetection

(* The loop of the sampler thread. *)
SamplerLock ==
  /\ sampler = "ready"
  /\ holder = "none"
  /\ sampler' = "sampling"
  /\ holder' = "sampler"
  /\ UNCHANGED <<constructionVars, stage, written, running>>

(* Mutant: the guard lives on while the thread sleeps. *)
SamplerUnlockMut ==
  /\ sampler = "sampling"
  /\ sampler' = "sleeping"
  /\ UNCHANGED <<constructionVars, stage, written, running, holder>>

SamplerUnlock ==
  /\ sampler = "sampling"
  /\ sampler' = "sleeping"
  /\ holder' = "none"
  /\ UNCHANGED <<constructionVars, stage, written, running>>

SamplerWakes ==
  /\ sampler = "sleeping"
  /\ sampler' = "ready"
  /\ UNCHANGED <<constructionVars, stage, written, running, holder>>

Sampler == SamplerLock \/ SamplerUnlock \/ SamplerWakes

AtEnd == stage \in {"returned", "panicked", "exited"}

AnalysisNext == Main \/ StopWatcher \/ Sampler \/ (AtEnd /\ UNCHANGED <<constructionVars, analysisVars>>)

allVars == <<constructionVars, analysisVars>>

(* The main thread runs on, which is weak fairness of Main as that is       *)
(* enabled until the watcher is stopped; the sampler sleeps for 100 ms with *)
(* the mutex free, so that a thread that waits for it gets it.              *)
AnalysisSpec ==
  /\ AnalysisInit
  /\ [][AnalysisNext]_allVars
  /\ WF_allVars(SamplerUnlock)
  /\ []<>(stage = "stop" \/ AtEnd) \/ []<><<Main>>_allVars
  /\ SF_allVars(StopWatcher)
-----------------------------------------------------------------------------
Reports == {"deadlock_report", "datarace_report", "atomicity_report"}

(* A stop after one of the stages mir, callgraph, pointsto, petrinet and    *)
(* stategraph, if any.                                                      *)
StopAsked == Given(input.args, "stop", "none")

ThisCrate ==
  /\ ~World.buildDir /\ World.codegen
  /\ Given(input.args, "crate", Name("main")).word = World.crate.word

(* What the command line asks for, by what the options are said to do: the  *)
(* dumps and reports of each stage up to the one it is told to stop after.  *)
Due ==
  LET args == input.args
      mode == Given(args, "mode", "deadlock")
      research == Given(args, "level", IF input.config.research THEN "research" ELSE "developer")
                    = "research"
      graph == ThisCrate /\ StopAsked # "mir"
      pointers == graph /\ StopAsked # "callgraph"
      net == pointers /\ StopAsked # "pointsto"
      states == net /\ StopAsked # "petrinet"
      detected == states /\ StopAsked # "stategraph"
      from(cond, files) == IF cond THEN files ELSE {}
      nets == {"petrinet_raw", "petrinet"} \cup StageFiles
  IN  from(ThisCrate, {"mir"} \cap args.flags)
      \cup from(graph, {"callgraph"} \cap args.flags)
      \cup from(pointers /\ ("pointsto" \in args.flags \/ mode = "pointsto"),
                {"points_to_report"})
      \cup from(net /\ "petrinet" \in args.flags, nets)
      \cup from(net /\ "petrinet" \in args.flags /\ research /\ World.issues,
                {"petri_net_diagnostics"})
      \cup from(states, {"stategraph"} \cap args.flags)
      \cup from(states /\ research, {"summary"})
      \cup from(detected /\ mode \in {"deadlock", "all"}, {"deadlock_report"})
      \cup from(detected /\ mode \in {"datarace", "all"}, {"datarace_report"})
      \cup from(detected /\ mode = "atomic", {"atomicity_report"})

(* With a command line pn understands, nothing is written that was not asked*)
(* for, and a run that returns has written all that was, whichever detector *)
(* is first and whatever could not be written (copies of the raw net need   *)
(* the raw net).  It returns unless the report on unsafe code was asked for,*)
(* or a function without places is translated.  Left out of each part are   *)
(* the stops for which the code does not do what options.rs says: pointsto  *)
(* goes on to the dumps of the net and the state graph, if not to the       *)
(* detectors, petrinet is not looked at, and mir and callgraph come before  *)
(* the dump of their own stage.                                             *)
ReportsAsAsked ==
  ~input.args.unknown =>
    /\ StopAsked \notin {"pointsto", "petrinet"} => written \subseteq Due
    /\ StopAsked = "pointsto" => written \cap Reports = {}
    /\ stage = "returned" /\ StopAsked \notin {"mir", "callgraph"} =>
         Due \ World.unwritable \subseteq
           written \cup IF "petrinet_raw" \in World.unwritable THEN StageFiles ELSE {}
    /\ stage = "panicked" =>
         \/ "unsafe" \in input.args.flags
         \/ \E f \in DOMAIN translated : f \notin registered
    /\ stage # "exited"

(* The analysis ends, whenever the sampler holds the mutex. *)
AnalysisReturns == <>AtEnd
=============================================================================
