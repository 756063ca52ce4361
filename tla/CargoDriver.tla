---------------------------- MODULE CargoDriver ----------------------------
(***************************************************************************)
(* The driver of a crate: scripts/cargo-rmc with cargo_build of rmc.py.    *)
(* A run parses its arguments and those in Cargo.toml, lets cargo compile  *)
(* the packages that are not fresh, once more before with --gen-c-runnable,*)
(* and links every symbol table it finds in the target directory.  Tables  *)
(* and restrictions stay there from one run to the next, while the user    *)
(* edits sources and removes packages.  The goto binaries are left out:    *)
(* each is written by the run that reads it.                               *)
(***************************************************************************)
EXTENDS Naturals, Sequences

CONSTANTS Packages,      \* the packages of the workspace
          RmcRoot,       \* where RMC's own repository is
          CFiles,        \* where there are C files
          Toml,          \* target_dir and c_lib in Cargo.toml
          CommandLines,  \* the arguments, working directory and RUSTFLAGS of a run
          None,
          MaxVersion,    \* a source is edited up to this version
          MaxRuns        \* so many runs are started

ASSUME CargoAssumption == MaxVersion \in Nat /\ MaxRuns \in Nat /\ Packages # {}

VARIABLES version,       \* of the source of every package
          members,       \* the packages still in the workspace
          tables,        \* *.symtab.json, by directory and compilation unit
          restrictions,  \* *.restrictions.json likewise
          run,           \* the process
          runs           \* runs started so far

vars == <<version, members, tables, restrictions, run, runs>>

-----------------------------------------------------------------------------
(* Paths, as the user writes them and as a working directory resolves them.*)
Path(abs, parts) == [abs |-> abs, parts |-> parts]
joinpath(p, q) == IF q.abs THEN q ELSE Path(p.abs, p.parts \o q.parts)
At(cwd, p) == IF p.abs THEN p.parts ELSE cwd \o p.parts

(* fix_paths, where config_toml is <crate>/Cargo.toml.                     *)
fix_paths(cl, p) == joinpath(cl.crate, p)

Paths == [abs : BOOLEAN, parts : Seq(STRING)]
Switches == {"no_config_toml", "build_target", "tests", "only_codegen", "gen_c", "gen_c_runnable",
             "restrict_vtable", "undefined_function_checks", "allow_cbmc_verification_failure",
             "dry_run", "verbose"}
ASSUME CommandLinesAssumption ==
    /\ Toml.c_lib \in Seq(Paths)
    /\ \A cl \in CommandLines :
          /\ DOMAIN cl = Switches \cup {"cwd", "crate", "target_dir", "c_lib", "rustflags"}
          /\ \A f \in Switches : cl[f] \in BOOLEAN
          /\ cl.rustflags \in {"none", "user"} /\ cl.crate \in Paths /\ cl.c_lib \in Seq(Paths)

(* The libraries that are named are there.                                 *)
ASSUME LibrariesAssumption ==
    \A cl \in CommandLines :
        /\ \A k \in DOMAIN cl.c_lib : At(cl.cwd, cl.c_lib[k]) \in CFiles
        /\ ~cl.no_config_toml => \A k \in DOMAIN Toml.c_lib :
                At(cl.cwd, fix_paths(cl, Toml.c_lib[k])) \in CFiles

(* A mutant: a library of the command line is not given again.             *)
c_lib_once(cl) ==
    IF cl.no_config_toml THEN cl.c_lib
    ELSE [k \in DOMAIN (cl.c_lib \o Toml.c_lib) |-> fix_paths(cl, (cl.c_lib \o Toml.c_lib)[k])]

(* ExtendAction extends the list that is the parser's default.  With a     *)
(* toml there are three parses: the first leaves the libraries of the      *)
(* command line in the default, the second adds those of the toml, and the *)
(* third those of the command line to the list fix_paths made of them.     *)
ExtendAction(cl) ==
    LET default == cl.c_lib \o Toml.c_lib
    IN  IF cl.no_config_toml THEN cl.c_lib
        ELSE [k \in DOMAIN default |-> fix_paths(cl, default[k])] \o cl.c_lib

(* --target-dir of the command line, of the toml, or "target".             *)
target_dir(cl) ==
    LET or_default(p) == IF p = None THEN Path(FALSE, <<"target">>) ELSE p
    IN  IF cl.target_dir # None THEN cl.target_dir
        ELSE IF cl.no_config_toml THEN or_default(None)
        ELSE fix_paths(cl, or_default(Toml.target_dir))

parse_args(cl) == [cl EXCEPT !.c_lib = ExtendAction(cl), !.target_dir = target_dir(cl)]

(* A directory debug/deps: under the triple of --build-target, or not.     *)
deps(dir, triple) == [dir |-> dir, triple |-> triple]

(* Where cargo, which runs in the crate, puts its output, and where the    *)
(* driver looks for it.                                                    *)
cargo_deps(a) == deps(At(At(a.cwd, a.crate), a.target_dir), a.build_target)
driver_deps(a, triple) == deps(At(a.cwd, a.target_dir), triple)

(* A file is written.                                                      *)
Put(artifacts, k, v) ==
    [x \in DOMAIN artifacts \cup {k} |-> IF x = k THEN v ELSE artifacts[x]]

(* glob.glob of *.symtab.json, and the files rmc-link-restrictions reads.  *)
In(d, artifacts) == [k \in {x \in DOMAIN artifacts : x.deps = d} |-> artifacts[k]]

-----------------------------------------------------------------------------
(* The process.  cl: its command line; flags: RMCFLAGS; rustflags:         *)
(* RUSTFLAGS in os.environ; todo: units cargo has not looked at; covered:  *)
(* all units of the last build; compiled: units compiled by the run so     *)
(* far; program: the tables linked; libraries, applied: the C files and    *)
(* the restrictions that went in; judged: CBMC gave a verdict; runnable:   *)
(* the tables of the runnable C program (of these two, one or none);       *)
(* unlucky: a tool failed that could have succeeded.                       *)
NoRun == [status |-> "none", pc |-> "exit", cl |-> None, args |-> None, started |-> None,
          rustflags |-> None, flags |-> None, todo |-> {}, covered |-> {}, compiled |-> {},
          program |-> None, libraries |-> <<>>, applied |-> {}, judged |-> FALSE, runnable |-> {},
          retcode |-> None, unlucky |-> FALSE]

Running == run.status = "running"
Raise(r) == [r EXCEPT !.pc = "exit", !.retcode = 1]
Unlucky(r) == [Raise(r) EXCEPT !.unlucky = TRUE]

Init ==
    /\ version = [p \in Packages |-> 0] /\ members = Packages
    /\ tables = <<>> /\ restrictions = <<>>
    /\ run = NoRun /\ runs = 0

main(cl) ==
    /\ ~Running /\ runs < MaxRuns /\ runs' = runs + 1
    /\ run' = [NoRun EXCEPT !.status = "running", !.cl = cl, !.args = parse_args(cl),
                            !.pc = IF cl.gen_c_runnable THEN "build runnable" ELSE "build",
                            !.started = version, !.rustflags = cl.rustflags]
    /\ UNCHANGED <<version, members, tables, restrictions>>

(* A mutant: the user's RUSTFLAGS are lost.                                *)
compiler_flags_own(a, gen_c, rustflags) ==
    [gen_c |-> gen_c, restrict_vtable |-> a.restrict_vtable, rustflags |-> "none"]

compiler_flags(a, gen_c, rustflags) ==
    [gen_c |-> gen_c, restrict_vtable |-> a.restrict_vtable, rustflags |-> rustflags]

(* The units of cargo build, and of cargo test --no-run.                   *)
Units(a) == [pkg : members, test : IF a.tests THEN BOOLEAN ELSE {FALSE}]

(* cargo_build up to the call of cargo: build_env is os.environ itself.  A *)
(* command that is only printed fails in print_rmc_step_status if the run  *)
(* is verbose.                                                             *)
cargo_build(here, there, gen_c) ==
    /\ run.pc = here
    /\ run' = IF run.args.dry_run
              THEN IF run.args.verbose THEN Raise(run)
                   ELSE [run EXCEPT !.pc = there, !.rustflags = "--rmc-flags"]
              ELSE [run EXCEPT !.pc = there, !.rustflags = "--rmc-flags",
                               !.flags = compiler_flags(run.args, gen_c, run.rustflags),
                               !.todo = Units(run.args), !.covered = Units(run.args)]
    /\ UNCHANGED <<version, members, tables, restrictions, runs>>

(* cargo tracks the source and RUSTFLAGS, which is always --rmc-flags, but *)
(* not RMCFLAGS.                                                           *)
Key(u) == [deps |-> cargo_deps(run.args), unit |-> u]
Fresh(u) == Key(u) \in DOMAIN tables /\ tables[Key(u)].version = version[u.pkg]

Skip(u) ==
    /\ Fresh(u) /\ run' = [run EXCEPT !.todo = @ \ {u}]
    /\ UNCHANGED <<version, members, tables, restrictions, runs>>

(* A mutant: restrictions that are there are kept.                         *)
CompileKeepsRestrictions(u) ==
    LET made == [version |-> version[u.pkg], flags |-> run.flags]
    IN  /\ ~Fresh(u) /\ run.flags.rustflags # "--rmc-flags"
        /\ tables' = Put(tables, Key(u), made)
        /\ restrictions' = IF run.flags.restrict_vtable
                           THEN Put(restrictions, Key(u), IF Key(u) \in DOMAIN restrictions
                                                          THEN restrictions[Key(u)]
                                                          ELSE made.version)
                           ELSE restrictions
        /\ run' = [run EXCEPT !.todo = @ \ {u}, !.compiled = @ \cup {u}]
        /\ UNCHANGED <<version, members, runs>>

(* rmc-rustc and the compiler behind it; --rmc-flags inside RMCFLAGS is an *)
(* option rustc does not know.                                             *)
Compile(u) ==
    LET made == [version |-> version[u.pkg], flags |-> run.flags]
    IN  /\ ~Fresh(u) /\ run.flags.rustflags # "--rmc-flags"
        /\ tables' = Put(tables, Key(u), made)
        /\ restrictions' = IF run.flags.restrict_vtable
                           THEN Put(restrictions, Key(u), made.version) ELSE restrictions
        /\ run' = [run EXCEPT !.todo = @ \ {u}, !.compiled = @ \cup {u}]
        /\ UNCHANGED <<version, members, runs>>

(* Mutants: a failed build is tolerated; a unit that fails is tried again. *)
CompileErrorTolerated(u) ==
    /\ ~Fresh(u)
    /\ run' = [run EXCEPT !.todo = {}, !.unlucky = TRUE]
    /\ UNCHANGED <<version, members, tables, restrictions, runs>>
CompileErrorRetried(u) ==
    /\ ~Fresh(u)
    /\ run' = [run EXCEPT !.unlucky = ~@]
    /\ UNCHANGED <<version, members, tables, restrictions, runs>>

(* The compiler fails, cargo with it, and cargo_build raises.              *)
CompileError(u) ==
    /\ ~Fresh(u)
    /\ run' = IF run.flags.rustflags = "--rmc-flags" THEN Raise([run EXCEPT !.todo = {}])
              ELSE Unlucky([run EXCEPT !.todo = {}])
    /\ UNCHANGED <<version, members, tables, restrictions, runs>>

-----------------------------------------------------------------------------
(* goto-cc: every C file must be there.  A path is not a string, and a     *)
(* command with one in it cannot be printed.                               *)
CanLink(a) ==
    /\ a.c_lib = <<>> \/ ~(a.verbose \/ a.dry_run)
    /\ a.dry_run \/ \A k \in DOMAIN a.c_lib : At(a.cwd, a.c_lib[k]) \in CFiles

(* cargo run --manifest-path src/tools/rmc-link-restrictions/Cargo.toml.   *)
process_vtable_restrictions(a) == a.dry_run \/ a.cwd = RmcRoot

Linked(a) == In(driver_deps(a, FALSE), restrictions)

(* The tools succeed, one of them fails, or the inputs make one fail.      *)
Tools(can, done) == IF ~can THEN run' = Raise(run)
                    ELSE run' = done \/ (~run.args.dry_run /\ run' = Unlucky(run))

(* The part of main that makes cbmc_runnable.c.                            *)
link_runnable ==
    LET a == run.args
        found == In(driver_deps(a, FALSE), tables)
    IN  /\ Running /\ run.pc = "link runnable" /\ run.todo = {}
        /\ IF a.only_codegen THEN run' = [run EXCEPT !.pc = "exit", !.retcode = 0]
           ELSE Tools(/\ DOMAIN found # {} /\ CanLink(a)
                      /\ a.restrict_vtable => process_vtable_restrictions(a),
                      [run EXCEPT !.pc = "build",
                                  !.runnable = IF a.dry_run THEN {} ELSE {found}])
        /\ UNCHANGED <<version, members, tables, restrictions, runs>>

(* A mutant: the search does not know of --build-target.                   *)
PatternNoTriple(a) == driver_deps(a, FALSE)

pattern(a) == driver_deps(a, a.build_target)

(* From the second cargo_build to the goto binary; in a dry run one table  *)
(* is made up.                                                             *)
link ==
    LET a == run.args
        found == In(pattern(a), tables)
    IN  /\ Running /\ run.pc = "link" /\ run.todo = {}
        /\ IF a.only_codegen THEN run' = [run EXCEPT !.pc = "exit", !.retcode = 0]
           ELSE Tools((a.dry_run \/ DOMAIN found # {}) /\ CanLink(a),
                      [run EXCEPT !.pc = "instrument", !.libraries = a.c_lib,
                                  !.program = IF a.dry_run THEN None ELSE found])
        /\ UNCHANGED <<version, members, tables, restrictions, runs>>

(* --gen-c, which may read restrictions but leaves the program as it is,   *)
(* --gen-symbols, and the calls of goto-instrument.                        *)
instrument ==
    LET a == run.args
        restricted == a.restrict_vtable /\ a.undefined_function_checks
    IN  /\ Running /\ run.pc = "instrument"
        /\ Tools(a.restrict_vtable /\ (a.gen_c \/ a.undefined_function_checks)
                    => process_vtable_restrictions(a),
                 [run EXCEPT !.pc = "cbmc",
                             !.applied = IF restricted /\ ~a.dry_run THEN {Linked(a)} ELSE {}])
        /\ UNCHANGED <<version, members, tables, restrictions, runs>>

CBMC_VERIFICATION_FAILURE_EXIT_CODE == 10

(* run_cbmc or run_visualize: success, verification failure, or an error.  *)
run_cbmc ==
    /\ Running /\ run.pc = "cbmc"
    /\ \E code \in IF run.args.dry_run THEN {0} ELSE {0, CBMC_VERIFICATION_FAILURE_EXIT_CODE, 6} :
          run' = [run EXCEPT !.pc = "exit", !.judged = ~run.args.dry_run /\ code # 6,
                             !.retcode = IF code = CBMC_VERIFICATION_FAILURE_EXIT_CODE
                                            /\ run.args.allow_cbmc_verification_failure
                                         THEN 0 ELSE code]
    /\ UNCHANGED <<version, members, tables, restrictions, runs>>

Exit ==
    /\ Running /\ run.pc = "exit" /\ run' = [run EXCEPT !.status = "exited"]
    /\ UNCHANGED <<version, members, tables, restrictions, runs>>

(* The process and the tools it runs.                                      *)
Step ==
    \/ Running /\ cargo_build("build runnable", "link runnable", TRUE)
    \/ Running /\ cargo_build("build", "link", FALSE)
    \/ Running /\ \E u \in run.todo : Skip(u) \/ Compile(u) \/ CompileError(u)
    \/ link_runnable \/ link \/ instrument \/ run_cbmc \/ Exit

(* The user.                                                               *)
Kill ==
    /\ Running /\ run' = [run EXCEPT !.status = "killed", !.todo = {}]
    /\ UNCHANGED <<version, members, tables, restrictions, runs>>
Edit(p) ==
    /\ version[p] < MaxVersion /\ version' = [version EXCEPT ![p] = @ + 1]
    /\ UNCHANGED <<members, tables, restrictions, run, runs>>
RemovePackage(p) ==
    /\ members # {p} /\ members' = members \ {p}
    /\ UNCHANGED <<version, tables, restrictions, run, runs>>

Next ==
    \/ Step \/ Kill
    \/ \E cl \in CommandLines : main(cl)
    \/ \E p \in members : Edit(p) \/ RemovePackage(p)

(* cargo, the compiler and the CBMC tools return.                          *)
Spec == Init /\ [][Next]_vars /\ WF_vars(Step)

-----------------------------------------------------------------------------
Versions == 0 .. MaxVersion
Flags == [gen_c : BOOLEAN, restrict_vtable : BOOLEAN, rustflags : {"none", "user"}]
(* Restrictions are found only beside a table of the same unit, which is   *)
(* not older than they are, and no table was compiled with --rmc-flags     *)
(* among the RMC flags.                                                    *)
TypeOK ==
    /\ version \in [Packages -> Versions] /\ members \subseteq Packages
    /\ \A k \in DOMAIN tables : tables[k] \in [version : Versions, flags : Flags]
    /\ \A k \in DOMAIN restrictions : k \in DOMAIN tables /\ restrictions[k] <= tables[k].version
    /\ run.status \in {"none", "running", "exited", "killed"}
    /\ run.retcode \in {None, 0, 1, 6, 10}
    /\ runs \in 0 .. MaxRuns

(* cargo, in the crate, and the driver mean the same directory.            *)
SameDeps(a, triple) == cargo_deps(a) = driver_deps(a, triple)

(* Every unit the run has built is in the program, from a source that was  *)
(* current during the run.                                                 *)
Current(program) ==
    \A u \in run.covered : /\ Key(u) \in DOMAIN program
                           /\ program[Key(u)].version >= run.started[u.pkg]

(* What CBMC judges, and the runnable C program, contain every package and *)
(* its current source, whatever earlier runs, failed builds and killed     *)
(* runs left in the target directory, if the paths of the run lead cargo   *)
(* and the driver to one directory (cargo-rmc:56-71, 27-34).               *)
CoversCrate ==
    /\ run.judged /\ SameDeps(run.args, run.args.build_target) => Current(run.program)
    /\ \A program \in run.runnable : SameDeps(run.args, FALSE) => Current(program)

(* A table the run compiled itself was compiled under the run's flags and  *)
(* the user's RUSTFLAGS, though cargo_build replaces RUSTFLAGS in its own  *)
(* environment: a second build of the run compiles nothing, so that with   *)
(* --gen-c-runnable CBMC judges the tables of the gen-c passes.            *)
FlagsOfRun ==
    run.judged /\ SameDeps(run.args, run.args.build_target) =>
        \A u \in run.compiled \cap run.covered :
            run.program[Key(u)].flags = [gen_c |-> run.args.gen_c_runnable,
                                         restrict_vtable |-> run.args.restrict_vtable,
                                         rustflags |-> run.args.rustflags]

(* Restrictions are applied if asked for and undefined functions are       *)
(* checked.  A table compiled with --restrict-vtable is judged under the   *)
(* restrictions of the same source, though they are separate files; tables *)
(* made for a --build-target are judged under none of theirs.              *)
RestrictionsMatch ==
    run.judged =>
        LET a == run.args
        IN  /\ (run.applied # {}) <=> (a.restrict_vtable /\ a.undefined_function_checks)
            /\ \A r \in run.applied, k \in DOMAIN run.program :
                  IF a.build_target THEN k \notin DOMAIN r
                  ELSE run.program[k].flags.restrict_vtable =>
                          k \in DOMAIN r /\ r[k] = run.program[k].version

(* How often a file is among the libraries.                                *)
Times(files, f) == Len(SelectSeq(files, LAMBDA p : At(run.args.cwd, p) = f))

(* Every library named on the command line is linked, and so is every one  *)
(* of the toml, rooted at the toml's directory; without a toml each is     *)
(* given to goto-cc once, with one those of the command line that survive  *)
(* the change of root are given twice (rmc_flags.py:68-94).                *)
LibrariesLinked ==
    run.judged =>
        LET a == run.args
            Rooted(libs) == [k \in DOMAIN libs |-> fix_paths(a, libs[k])]
            all == run.cl.c_lib \o IF a.no_config_toml THEN <<>>
                               ELSE Rooted(Toml.c_lib) \o Rooted(run.cl.c_lib)
        IN  \A f \in CFiles : Times(run.libraries, f) = Times(all, f)

(* Why a run may fail.                                                     *)
Excuse ==
    LET a == run.args
        given == run.cl.c_lib
    IN  \/ a.verbose /\ (a.dry_run \/ a.c_lib # <<>>)
        \/ a.dry_run /\ (a.gen_c_runnable \/ a.c_lib # <<>>)
        \/ ~SameDeps(a, a.build_target)
        \/ a.gen_c_runnable /\ (a.build_target \/ version # run.started)
        \/ a.restrict_vtable /\ a.cwd # RmcRoot
        \/ ~a.no_config_toml /\ \E k \in DOMAIN given :
               At(a.cwd, fix_paths(a, given[k])) # At(a.cwd, given[k])

(* Apart from tools that fail of their own, a run ends in an error only if *)
(* it is a verbose dry run; prints a command that has a C library in it;   *)
(* looks for tables elsewhere than cargo puts them; makes a runnable       *)
(* program of tables that are under a triple or not there yet, or of       *)
(* sources edited meanwhile; links restrictions outside RMC's repository;  *)
(* or names a library relative to another directory than the toml's.       *)
FailsOnlyFor == run.status = "exited" /\ run.retcode = 1 /\ ~run.unlucky => Excuse

(* A run that is started comes to an end, however the sources change.      *)
Ends == Running ~> ~Running
=============================================================================
