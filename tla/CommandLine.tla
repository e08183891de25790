----------------------------- MODULE CommandLine -----------------------------
(***************************************************************************)
(* Options (options.rs): what a command line and the configuration file ask*)
(* for.  A command line is a record with a field for each option that is   *)
(* given a value (mode, crate, stop, white, black, level), and              *)
(*   flags      the flags that are given                                   *)
(*   unknown    some argument is none of pn's                              *)
(*   separate   a value stands apart from its option                       *)
(* A name is [word, hyphen]: one with a hyphen is my-word, else my_word.   *)
(***************************************************************************)

Name(word) == [word |-> word, hyphen |-> FALSE]

(* PnConfig::default, also used for a file that cannot be parsed. *)
DefaultConfig ==
  [entryReachable |-> TRUE, reduce |-> TRUE, concurrentRoots |-> TRUE, research |-> FALSE]

(* try_get_matches_from: after an unknown argument everything that starts   *)
(* with a dash is dropped, pn's own options too, and a value that is left   *)
(* over ends the program.                                                   *)
EndsWithUsage(args) == args.unknown /\ args.separate

Matches(args) == IF args.unknown THEN [flags |-> {}] ELSE args

(* get_one, with a default *)
Given(m, option, default) == IF option \in DOMAIN m THEN m[option] ELSE default

Dumps == {"callgraph", "petrinet", "stategraph", "unsafe", "pointsto", "mir"}

(* A white list takes the place of a black one. *)
CrateFilter(m) ==
  IF "white" \in DOMAIN m \/ "black" \notin DOMAIN m
    THEN [list |-> "white", names |-> Given(m, "white", {})]
    ELSE [list |-> "black", names |-> m.black]

(* parse_from_args.  The target has a default, so that the name of the file *)
(* is never used for it.                                                    *)
ParseFromArgs(args, config) ==
  LET m == Matches(args)
  IN  [detector |-> Given(m, "mode", "deadlock"),
       crate |-> Given(m, "crate", Name("main")),
       filter |-> CrateFilter(m),
       dumps |-> m.flags \cap Dumps,
       stop |-> Given(m, "stop", "none"),
       entryReachable |-> config.entryReachable /\ "full" \notin m.flags,
       reduce |-> config.reduce /\ "no_reduce" \notin m.flags,
       concurrentRoots |-> config.concurrentRoots /\ "no_concurrent_roots" \notin m.flags,
       research |-> IF "level" \in DOMAIN m THEN m.level = "research" ELSE config.research]

(* targets_current_crate: hyphens are underscores here, but not in the      *)
(* filters over functions.                                                  *)
Normalize(name) == Name(name.word)

TargetsCurrentCrate(options, current) == Normalize(options.crate) = Normalize(current)
=============================================================================
