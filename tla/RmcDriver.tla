----------------------------- MODULE RmcDriver -----------------------------
(***************************************************************************)
(* The driver of a single file: scripts/rmc with the steps of rmc.py.      *)
(* Several driver processes run in one directory, as the tests do, and     *)
(* each runs the compiler and the CBMC tools one after another; they       *)
(* communicate through files, which outlive a process.  A tool is a step:  *)
(* it reads its inputs and writes its outputs or fails.  Of a file the     *)
(* model keeps which source it comes from, whether the gen-c passes made   *)
(* it, and whose function pointer restrictions were applied to it.         *)
(***************************************************************************)
EXTENDS Naturals, Sequences

CONSTANTS Jobs,          \* driver processes
          Inputs,        \* base names of Rust files in the directory
          CommandLines,  \* the arguments a run may be started with
          Dir,           \* stands for the directory, in names of shared files
          None,
          MaxVersion,    \* a source is edited up to this version
          MaxRuns        \* so many runs are started

(* Where a file comes from, and what there is to know of it.               *)
Origins == [src : Inputs, version : Nat]
Contents == [origin : Origins \cup {None}, gen_c : BOOLEAN, restrictions : Origins \cup {None}]

ASSUME DriverAssumption ==
    /\ Dir \notin Inputs /\ MaxVersion \in Nat /\ MaxRuns \in Nat
    /\ None \notin {0, 1, 6, 10} /\ None \notin Contents
    /\ \A a \in CommandLines : a.keep_temps \in BOOLEAN /\ a.dry_run \in BOOLEAN

VARIABLES files,   \* the content of every file that exists
          job,     \* the state of every process
          runs     \* runs started so far

vars == <<files, job, runs>>

-----------------------------------------------------------------------------
(* Files and commands.                                                     *)
File(i, kind) == [of |-> i, kind |-> kind]
Exists(f) == f \in DOMAIN files
Write(out, c) == [f \in DOMAIN files \cup out |-> IF f \in out THEN c ELSE files[f]]

Linked == File(Dir, "linked-restrictions")
Deps   == File(Dir, "debug/deps")

Origin(i, v) == [src |-> i, version |-> v]
Content(o) == [origin |-> o, gen_c |-> FALSE, restrictions |-> None]
Broken == Content(None)

(* A command reads its files, the main one among them, and writes out;     *)
(* temps are registered for deletion before it runs.  When it fails the    *)
(* run ends with an error, unless failure is ignored, and then what it     *)
(* printed may have been kept as its output.                               *)
Command(main, out, temps) ==
    [main |-> main, reads |-> {main}, out |-> out, temps |-> temps,
     gen_c |-> FALSE, on_failure |-> "error"]

(* What the command writes: its main input, transformed.                   *)
Result(cmd) ==
    LET c == files[cmd.main]
    IN  [c EXCEPT !.gen_c = @ \/ cmd.gen_c,
                  !.restrictions = IF Linked \in cmd.reads THEN files[Linked].origin ELSE @]

(* Mutants, of the operators after them: a failed conversion is ignored;   *)
(* the linked program is not registered; restrictions that were linked     *)
(* before are used again.                                                  *)
ConversionIgnored(i, json, out) ==
    [Command(File(i, json), {File(i, out)}, {File(i, out)}) EXCEPT !.on_failure = "ignore"]
LinkUnregistered(i, src, dst) == Command(File(i, src), {File(i, dst)}, {})
RestrictionsCached(restrictions) ==
    IF Exists(Linked) THEN Command(Linked, {Linked}, {}) ELSE Command(restrictions, {Linked}, {})

compile_single_rust_file(i, a, output_filename, gen_c) ==
    LET base == {File(i, "type_map"), File(i, "rmc-metadata")}
        restrictions == IF a.restrict_vtable THEN {File(i, "restrictions")} ELSE {}
    IN  [Command(File(i, "rs"), {File(i, "symtab")} \cup base \cup restrictions,
                 {File(i, output_filename)} \cup base) EXCEPT !.gen_c = gen_c]

symbol_table_to_gotoc(i, json, out) == Command(File(i, json), {File(i, out)}, {File(i, out)})

link_c_lib(i, src, dst) == Command(File(i, src), {File(i, dst)}, {File(i, dst)})

process_vtable_restrictions(restrictions) == Command(restrictions, {Linked}, {})

run_goto_instrument(input, output, restrictions) ==
    LET cmd == Command(input, {output}, {})
    IN  IF restrictions = None THEN <<cmd>>
        ELSE <<process_vtable_restrictions(restrictions),
               [cmd EXCEPT !.reads = @ \cup {Linked}]>>

(* The cbmc and cbmc-viewer commands of --visualize after the first.       *)
run_visualize(i) ==
    LET goto == File(i, "goto")
        To(kind) == [Command(goto, {File(Dir, kind)}, {}) EXCEPT !.on_failure = "keep output"]
    IN  <<To("coverage"), To("property"),
          [Command(File(Dir, "results"), {File(Dir, "report")}, {}) EXCEPT
              !.on_failure = "ignore",
              !.reads = {goto} \cup {File(Dir, k) : k \in {"results", "coverage", "property"}}]>>

(* The commands of a run before CBMC.                                      *)
main(i, a) ==
    LET goto == File(i, "goto")
        restrictions == IF a.restrict_vtable THEN File(i, "restrictions") ELSE None
        deps == IF a.restrict_vtable THEN Deps ELSE None
        If(flag, commands) == IF flag THEN commands ELSE <<>>
    IN  If(a.gen_c_runnable,
           <<compile_single_rust_file(i, a, "runnable.json", TRUE),
             symbol_table_to_gotoc(i, "runnable.json", "runnable.out"),
             link_c_lib(i, "runnable.out", "runnable.goto")>>
           \o run_goto_instrument(File(i, "runnable.goto"), File(i, "runnable.c"), deps))
        \o <<compile_single_rust_file(i, a, "symtab", FALSE),
             symbol_table_to_gotoc(i, "symtab", "out"), link_c_lib(i, "out", "goto")>>
        \o If(a.gen_c, run_goto_instrument(goto, File(i, "c"), restrictions))
        \o If(a.gen_symbols, run_goto_instrument(goto, File(i, "symbols"), None))
        \o (IF a.undefined_function_checks
            THEN run_goto_instrument(goto, goto, restrictions)
                 \o run_goto_instrument(goto, goto, restrictions)
            ELSE run_goto_instrument(goto, goto, None))

-----------------------------------------------------------------------------
(* The flags CBMC is given, their values left out.                         *)
MEMORY_SAFETY_CHECKS == <<"--bounds-check", "--pointer-check", "--pointer-primitive-check">>
OVERFLOW_CHECKS == <<"--conversion-check", "--div-by-zero-check", "--float-overflow-check",
                     "--nan-check", "--pointer-overflow-check", "--undefined-shift-check">>
UNWINDING_CHECKS == <<"--unwinding-assertions">>

Given(flag, cbmc_args) == \E k \in DOMAIN cbmc_args : cbmc_args[k] = flag

add_set_cbmc_flags(cbmc_args, flags) ==
    cbmc_args \o SelectSeq(flags, LAMBDA f : ~Given(f, cbmc_args))

add_selected_default_cbmc_checks(a) ==
    LET Checks(on, flags) == IF a.default_checks /\ on THEN flags ELSE <<>>
    IN  add_set_cbmc_flags(a.cbmc_args, Checks(a.memory_safety_checks, MEMORY_SAFETY_CHECKS)
                                        \o Checks(a.overflow_checks, OVERFLOW_CHECKS)
                                        \o Checks(a.unwinding_checks, UNWINDING_CHECKS))

(* A flag RMC and CBMC have in common: twice is an error, and the default, *)
(* if there is one, is for a flag given to neither.                        *)
Conflict(a) ==
    \/ a.object_bits /\ Given("--object-bits", a.cbmc_args)
    \/ a.auto_unwind /\ (a.unwind \/ Given("--unwind", a.cbmc_args))
    \/ a.unwind /\ Given("--unwind", a.cbmc_args)

(* A mutant: the default does not look at what CBMC was given.             *)
DefaultAnyway(a, cbmc_args) ==
    cbmc_args \o <<"--object-bits">> \o (IF a.unwind THEN <<"--unwind">> ELSE <<>>)

process_common_cbmc_flags(a, cbmc_args) ==
    cbmc_args
    \o (IF a.object_bits \/ ~Given("--object-bits", cbmc_args) THEN <<"--object-bits">> ELSE <<>>)
    \o (IF a.unwind THEN <<"--unwind">> ELSE <<>>)

(* The end of post_process, and what main adds before it calls CBMC.       *)
CbmcArgs(a) ==
    LET cbmc_args == process_common_cbmc_flags(a, add_selected_default_cbmc_checks(a))
        json_ui == IF a.output_format = "old" THEN <<>> ELSE <<"--json-ui">>
    IN  add_set_cbmc_flags(cbmc_args, json_ui \o <<"--function">>)

-----------------------------------------------------------------------------
(* A process that has not run yet.  todo: commands to come; atexit: files  *)
(* to delete; retcode: None until known; started: the version of the       *)
(* source at the start; checked: the program CBMC was run on; made: files  *)
(* the run has written; shared: another run with --restrict-vtable went on *)
(* at the same time; unlucky: a tool failed that had all its inputs.       *)
NoRun == [status |-> "none", input |-> None, args |-> None, todo |-> <<>>, atexit |-> {},
          retcode |-> None, started |-> 0, checked |-> None, cbmc_args |-> <<>>,
          made |-> {}, shared |-> FALSE, unlucky |-> FALSE]

Running(j) == job[j].status = "running"
Restricting(j) == Running(j) /\ job[j].args.restrict_vtable

Init ==
    /\ files = [f \in {File(i, "rs") : i \in Inputs} |-> Content(Origin(f.of, 0))]
    /\ job = [j \in Jobs |-> NoRun]
    /\ runs = 0

(* parse_args; two processes never work on one file.                       *)
Start(j, i, a) ==
    LET new == [NoRun EXCEPT !.status = "running", !.input = i, !.args = a,
                             !.started = files[File(i, "rs")].origin.version]
        others == {k \in Jobs \ {j} : a.restrict_vtable /\ Restricting(k)}
    IN  /\ ~Running(j) /\ runs < MaxRuns /\ runs' = runs + 1
        /\ \A k \in Jobs : Running(k) => job[k].input # i
        /\ job' = [k \in Jobs |->
                      IF k \in others THEN [job[k] EXCEPT !.shared = TRUE]
                      ELSE IF k # j THEN job[k]
                      ELSE IF Conflict(a) THEN [new EXCEPT !.retcode = 1]
                      ELSE [new EXCEPT !.todo = main(i, a), !.cbmc_args = CbmcArgs(a),
                                       !.shared = others # {}]]
        /\ UNCHANGED files

(* The next command of the run succeeds, or is only printed.               *)
Succeed(j, cmd) ==
    LET dry_run == job[j].args.dry_run
        out == IF dry_run THEN {} ELSE cmd.out
    IN  /\ dry_run \/ \A f \in cmd.reads : Exists(f)
        /\ ~(dry_run /\ job[j].args.verbose)
        /\ files' = Write(out, Result(cmd))
        /\ job' = [job EXCEPT ![j].todo = Tail(@), ![j].made = @ \cup out,
                              ![j].atexit = @ \cup (IF job[j].args.keep_temps THEN {} ELSE cmd.temps)]
        /\ UNCHANGED runs

(* It fails, of its own or because an input is missing; a command that is  *)
(* printed with --verbose fails in print_rmc_step_status.                  *)
Fail(j, cmd) ==
    LET kept == IF cmd.on_failure = "keep output" THEN cmd.out ELSE {}
        dry_run == job[j].args.dry_run
    IN  /\ dry_run => job[j].args.verbose
        /\ files' = Write(kept, Broken)
        /\ job' = [job EXCEPT ![j].todo = IF cmd.on_failure = "error" THEN <<>> ELSE Tail(@),
                              ![j].retcode = IF cmd.on_failure = "error" THEN 1 ELSE @,
                              ![j].made = @ \cup kept,
                              ![j].unlucky = @ \/ \A f \in cmd.reads : Exists(f),
                              ![j].atexit = @ \cup (IF job[j].args.keep_temps THEN {} ELSE cmd.temps)]
        /\ UNCHANGED runs

run_cmd(j) ==
    /\ Running(j) /\ job[j].todo # <<>>
    /\ LET cmd == Head(job[j].todo) IN Succeed(j, cmd) \/ Fail(j, cmd)

(* What cbmc returns: success, verification failure, or an error, which is *)
(* the only outcome without a program.                                     *)
CBMC_VERIFICATION_FAILURE_EXIT_CODE == 10
ExitCodes(goto) == IF Exists(goto) THEN {0, CBMC_VERIFICATION_FAILURE_EXIT_CODE, 6} ELSE {6}

(* The output of CBMC is parsed unless it is in the old format: what an    *)
(* error or a dry run prints is not JSON.                                  *)
Unreadable(a, code) == a.output_format # "old" /\ ~a.visualize /\ (a.dry_run \/ code = 6)

(* run_cbmc or the first command of run_visualize, and the return code.    *)
run_cbmc(j) ==
    LET a == job[j].args
        goto == File(job[j].input, "goto")
        results == {File(Dir, k) : k \in {"results", "coverage", "property"}}
        out == IF a.visualize /\ ~a.dry_run THEN {File(Dir, "results")} ELSE {}
    IN  /\ Running(j) /\ job[j].todo = <<>> /\ job[j].retcode = None
        /\ \E code \in IF a.dry_run THEN {0} ELSE ExitCodes(goto) :
              /\ files' = Write(out, IF code = 6 THEN Broken ELSE files[goto])
              /\ job' = [job EXCEPT
                   ![j].todo = IF a.visualize THEN run_visualize(job[j].input) ELSE <<>>,
                   ![j].retcode = IF Unreadable(a, code) THEN 1
                                  ELSE IF code = CBMC_VERIFICATION_FAILURE_EXIT_CODE
                                          /\ a.allow_cbmc_verification_failure THEN 0
                                  ELSE code,
                   ![j].checked = IF a.dry_run \/ code = 6 THEN None ELSE files[goto],
                   ![j].made = @ \cup out,
                   ![j].atexit = @ \cup (IF a.visualize /\ ~a.keep_temps THEN results ELSE {})]
        /\ UNCHANGED runs

(* A mutant: everything the run has written is deleted.                    *)
ExitDeletesAll(j) ==
    /\ Running(j) /\ job[j].todo = <<>> /\ job[j].retcode # None
    /\ files' = [f \in DOMAIN files \ (job[j].atexit \cup job[j].made) |-> files[f]]
    /\ job' = [job EXCEPT ![j].status = "exited", ![j].atexit = {}]
    /\ UNCHANGED runs

(* sys.exit: the registered files are deleted.                             *)
Exit(j) ==
    /\ Running(j) /\ job[j].todo = <<>> /\ job[j].retcode # None
    /\ files' = [f \in DOMAIN files \ job[j].atexit |-> files[f]]
    /\ job' = [job EXCEPT ![j].status = "exited", ![j].atexit = {}]
    /\ UNCHANGED runs

(* The process is killed: nothing is deleted.                              *)
Kill(j) ==
    /\ Running(j)
    /\ job' = [job EXCEPT ![j].status = "killed", ![j].todo = <<>>, ![j].atexit = {}]
    /\ UNCHANGED <<files, runs>>

(* The user saves a new version of the source.                             *)
Edit(i) ==
    /\ files[File(i, "rs")].origin.version < MaxVersion
    /\ files' = [files EXCEPT ![File(i, "rs")].origin.version = @ + 1]
    /\ UNCHANGED <<job, runs>>

Next ==
    \/ \E j \in Jobs, i \in Inputs, a \in CommandLines : Start(j, i, a)
    \/ \E j \in Jobs : run_cmd(j) \/ run_cbmc(j) \/ Exit(j) \/ Kill(j)
    \/ \E i \in Inputs : Edit(i)

Spec == Init /\ [][Next]_vars

-----------------------------------------------------------------------------
(* The program CBMC judges is compiled from the run's own source, from a   *)
(* version that was current during the run, and by the passes meant for    *)
(* CBMC: files other runs, killed runs or --keep-temps left behind do not  *)
(* find their way into a verdict.                                          *)
VerdictOnOwnSource ==
    \A j \in Jobs : LET c == job[j].checked IN
        c # None => /\ c.origin.src = job[j].input /\ ~c.gen_c
                    /\ c.origin.version >= job[j].started

(* The restrictions applied are those of the run's own program, though     *)
(* linked-restrictions.json belongs to the directory; only runs that go on *)
(* at the same time may get each other's.  Without undefined function      *)
(* checks none are applied.                                                *)
RestrictionsOwn ==
    \A j \in Jobs : LET c == job[j].checked  a == job[j].args IN
        c # None /\ ~job[j].shared =>
            c.restrictions = IF a.restrict_vtable /\ a.undefined_function_checks
                             THEN c.origin ELSE None

(* A run that reports CBMC's verdict has delivered the files it was asked  *)
(* for, and reports success only for a program CBMC has accepted or whose  *)
(* failure the user allows.                                                *)
DeliveredOnSuccess ==
    \A j \in Jobs : LET a == job[j].args IN
        job[j].status = "exited" /\ job[j].retcode \in {0, 10} /\ ~a.dry_run =>
            /\ job[j].checked # None
            /\ a.gen_c => Exists(File(job[j].input, "c"))
            /\ a.gen_symbols => Exists(File(job[j].input, "symbols"))

(* A run that exits, early or not, leaves nothing it wrote behind but what *)
(* was asked for, the restrictions, and the symbol table of the gen-c      *)
(* passes, which is not registered under the name it is written to.        *)
TempsRemoved ==
    [][\A j \in Jobs :
          Running(j) /\ job'[j].status = "exited" /\ ~job[j].args.keep_temps =>
              \A f \in job[j].made \cap DOMAIN files' :
                  \/ f.kind \in {"c", "symbols", "runnable.c", "report",
                                 "restrictions", "linked-restrictions"}
                  \/ job[j].args.gen_c_runnable /\ f.kind = "symtab"]_vars

(* CBMC gets no flag twice, and gets the checks that are on, the entry     *)
(* point and a number of object bits, whatever the user gave it directly.  *)
FlagsOnce ==
    \A j \in Jobs : LET flags == job[j].cbmc_args  a == job[j].args IN
        job[j].checked # None =>
            /\ \A k, l \in DOMAIN flags : flags[k] = flags[l] => k = l
            /\ {"--function", "--object-bits"} \subseteq {flags[k] : k \in DOMAIN flags}
            /\ a.default_checks /\ a.memory_safety_checks =>
                  \A k \in DOMAIN MEMORY_SAFETY_CHECKS : Given(MEMORY_SAFETY_CHECKS[k], flags)

(* "To produce a runnable C program, try passing the `--gen-c-runnable`    *)
(* flag to RMC" (README.md:140): unless some tool fails, a run with the    *)
(* flag leaves a runnable C program.                                       *)
RunnableProduced ==
    \A j \in Jobs :
        /\ job[j].status = "exited" /\ job[j].args.gen_c_runnable
        /\ ~job[j].args.dry_run /\ ~job[j].unlucky /\ ~Conflict(job[j].args)
        => Exists(File(job[j].input, "runnable.c"))
=============================================================================
