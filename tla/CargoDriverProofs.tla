------------------------- MODULE CargoDriverProofs -------------------------
(***************************************************************************)
(* The driver of a crate, for any number of packages, command lines, runs  *)
(* and edits.                                                              *)
(***************************************************************************)
EXTENDS CargoDriver, TLAPS

Status == {"none", "running", "exited", "killed"}
PCs == {"build runnable", "link runnable", "build", "link", "instrument", "cbmc", "exit"}
AllUnits == [pkg : Packages, test : BOOLEAN]

(* What is in the target directory: no table is newer than its source, and *)
(* one compiled with --restrict-vtable has its restrictions beside it.     *)
Files ==
    /\ version \in [Packages -> Versions] /\ members \subseteq Packages /\ members # {}
    /\ \A k \in DOMAIN tables :
          /\ tables[k] \in [version : Versions, flags : Flags]
          /\ k.unit.pkg \in Packages /\ tables[k].version <= version[k.unit.pkg]
          /\ tables[k].flags.restrict_vtable =>
                k \in DOMAIN restrictions /\ restrictions[k] = tables[k].version
    /\ \A k \in DOMAIN restrictions :
          k \in DOMAIN tables /\ restrictions[k] \in Nat /\ restrictions[k] <= tables[k].version

(* The process: no source is older than when the run started, and cargo is *)
(* at work only in a build.                                                *)
Process ==
    /\ DOMAIN run = DOMAIN NoRun
    /\ run.status \in Status /\ run.pc \in PCs /\ run.judged \in BOOLEAN
    /\ run.retcode \in {None, 0, 1, 6, 10} /\ runs \in 0 .. MaxRuns
    /\ (run.status = "none" => run = NoRun) /\ (run.status = "exited" => run.pc = "exit")
    /\ run.status # "none" =>
          /\ run.cl \in CommandLines /\ run.args = parse_args(run.cl)
          /\ run.started \in [Packages -> Versions]
          /\ \A p \in Packages : run.started[p] <= version[p]
    /\ run.covered \subseteq AllUnits /\ run.todo \subseteq run.covered
    /\ run.todo # {} => Running /\ run.pc \in {"link runnable", "link"} /\ ~run.args.dry_run
    /\ run.judged => run.status # "none" /\ run.pc = "exit" /\ ~run.args.dry_run

(* The flags the run's own tables get.                                     *)
Own(a) == [gen_c |-> a.gen_c_runnable, restrict_vtable |-> a.restrict_vtable,
           rustflags |-> a.rustflags]

(* The first build of a run has the user's RUSTFLAGS, a second one has     *)
(* --rmc-flags in their place and cannot compile.                          *)
Flagged ==
    /\ run.pc = "build runnable" =>
          run.args.gen_c_runnable /\ run.rustflags = run.args.rustflags
    /\ run.pc = "link runnable" => run.args.gen_c_runnable /\ run.rustflags = "--rmc-flags"
    /\ run.pc = "build" =>
          run.rustflags = IF run.args.gen_c_runnable THEN "--rmc-flags" ELSE run.args.rustflags
    /\ run.todo # {} =>
          \/ run.flags = Own(run.args)
          \/ /\ run.flags.rustflags = "--rmc-flags"
             /\ run.args.gen_c_runnable /\ run.pc = "link"
    /\ Running => \A u \in run.compiled :
          Key(u) \in DOMAIN tables /\ tables[Key(u)].flags = Own(run.args)

(* The table of u is there and as new as the source was when the run began.*)
Has(u) == Key(u) \in DOMAIN tables /\ tables[Key(u)].version >= run.started[u.pkg]

(* A unit cargo is done with has its table; after a second build every     *)
(* unit had it before.                                                     *)
Built ==
    /\ Running /\ run.pc # "exit" => \A u \in run.covered :
          u \notin run.todo \/ (run.args.gen_c_runnable /\ run.pc = "link") => Has(u)
    /\ run.pc # "exit" =>
          IF run.args.dry_run \/ run.pc = "build runnable"
                \/ (run.pc = "build" /\ ~run.args.gen_c_runnable)
          THEN run.covered = {} /\ run.runnable = {}
          ELSE Units(run.args) \subseteq run.covered /\ run.covered # {}
    /\ \A program \in run.runnable : SameDeps(run.args, FALSE) => Current(program)

(* What the run keeps of the tables when it has linked them.               *)
Judging ==
    /\ Running /\ run.pc = "instrument" /\ ~run.args.dry_run =>
          run.program = In(pattern(run.args), tables)
    /\ (run.pc = "cbmc" /\ ~run.args.dry_run) \/ run.judged =>
          /\ SameDeps(run.args, run.args.build_target) =>
                /\ Current(run.program)
                /\ \A u \in run.compiled \cap run.covered :
                      run.program[Key(u)].flags = Own(run.args)
          /\ (run.applied # {}) <=>
                (run.args.restrict_vtable /\ run.args.undefined_function_checks)
          /\ \A r \in run.applied, k \in DOMAIN run.program :
                IF run.args.build_target THEN k \notin DOMAIN r
                ELSE run.program[k].flags.restrict_vtable =>
                        k \in DOMAIN r /\ r[k] = run.program[k].version

(* A failure that is nobody's bad luck has its reason.                     *)
Failing ==
    run.status # "none" /\ run.pc = "exit" /\ run.retcode = 1 /\ ~run.unlucky => Excuse

IInv == Files /\ Process /\ Flagged /\ Built /\ Judging /\ Failing

-----------------------------------------------------------------------------
(* parse_args changes the target directory and the libraries only.         *)
LEMMA ArgsOf ==
    ASSUME NEW cl \in CommandLines
    PROVE  /\ \A f \in Switches \cup {"cwd", "crate", "rustflags"} : parse_args(cl)[f] = cl[f]
           /\ \A f \in Switches : parse_args(cl)[f] \in BOOLEAN
           /\ parse_args(cl).rustflags \in {"none", "user"}
           /\ parse_args(cl).c_lib = ExtendAction(cl)
<1> DEFINE a == parse_args(cl)
<1>1. DOMAIN cl = Switches \cup {"cwd", "crate", "target_dir", "c_lib", "rustflags"}
  BY CommandLinesAssumption
<1>2. \A f \in Switches \cup {"cwd", "crate", "rustflags"} : a[f] = cl[f]
  BY <1>1 DEF parse_args, Switches
<1>3. a.c_lib = ExtendAction(cl)
  BY <1>1 DEF parse_args
<1> QED BY <1>2, <1>3, CommandLinesAssumption DEF Switches

LEMMA InitIInv == ASSUME Init PROVE IInv
<1> USE DEF Init, NoRun
<1>1. Files
  BY CargoAssumption DEF Files, Versions
<1>2. Process
  BY CargoAssumption DEF Process, Status, PCs, AllUnits, Running
<1>3. Flagged /\ Built /\ Judging /\ Failing
  BY DEF Flagged, Built, Judging, Failing, Running
<1> QED BY <1>1, <1>2, <1>3 DEF IInv

(* The files are changed by the compiler and by the user.                  *)
LEMMA FilesSame ==
    ASSUME Files, UNCHANGED <<version, members, tables, restrictions>>
    PROVE  Files'
BY DEF Files

LEMMA FilesEdit == ASSUME Files, NEW p \in members, Edit(p) PROVE Files'
BY CargoAssumption DEF Files, Edit, Versions

LEMMA FilesRemove == ASSUME Files, NEW p \in members, RemovePackage(p) PROVE Files'
BY DEF Files, RemovePackage

LEMMA FilesCompile ==
    ASSUME IInv, NEW u \in run.todo, Compile(u)
    PROVE  Files'
<1> DEFINE k0 == Key(u)
<1>1. Running /\ run.cl \in CommandLines /\ run.args = parse_args(run.cl) /\ u \in AllUnits
  BY DEF IInv, Process, Running, AllUnits
<1>2. run.flags = Own(run.args)
  BY DEF IInv, Flagged, Compile
<1>3. run.flags \in Flags
  BY <1>1, <1>2, ArgsOf DEF Own, Flags, Switches
<1>4. k0.unit.pkg \in Packages /\ k0.unit = u
  BY <1>1 DEF Key, AllUnits
<1>5. version[u.pkg] \in Versions /\ version[u.pkg] \in Nat
  BY <1>1, CargoAssumption DEF IInv, Files, AllUnits, Versions
<1> DEFINE made == [version |-> version[u.pkg], flags |-> run.flags]
<1>6. /\ made \in [version : Versions, flags : Flags] /\ made.version = version[u.pkg]
      /\ made.flags.restrict_vtable = run.flags.restrict_vtable
  BY <1>3, <1>5
<1>7. /\ DOMAIN tables' = DOMAIN tables \cup {k0}
      /\ \A k \in DOMAIN tables' : tables'[k] = IF k = k0 THEN made ELSE tables[k]
  BY DEF Compile, Put
<1>8. IF run.flags.restrict_vtable
      THEN /\ DOMAIN restrictions' = DOMAIN restrictions \cup {k0}
           /\ \A k \in DOMAIN restrictions' :
                 restrictions'[k] = IF k = k0 THEN version[u.pkg] ELSE restrictions[k]
      ELSE restrictions' = restrictions
  BY <1>6 DEF Compile, Put
<1>9. version' = version /\ members' = members
  BY DEF Compile
<1> HIDE DEF k0, made
<1>10. ASSUME NEW k \in DOMAIN restrictions
       PROVE  k \in DOMAIN tables /\ restrictions[k] \in Nat /\ restrictions[k] <= tables[k].version
                /\ tables[k].version \in Nat /\ tables[k].version <= version[k.unit.pkg]
  BY CargoAssumption DEF IInv, Files, Versions
<1>11. \A k \in DOMAIN tables' :
          /\ tables'[k] \in [version : Versions, flags : Flags]
          /\ k.unit.pkg \in Packages /\ tables'[k].version <= version[k.unit.pkg]
          /\ tables'[k].flags.restrict_vtable =>
                k \in DOMAIN restrictions' /\ restrictions'[k] = tables'[k].version
  BY <1>4, <1>5, <1>6, <1>7, <1>8 DEF IInv, Files
<1>12. \A k \in DOMAIN restrictions' :
          k \in DOMAIN tables' /\ restrictions'[k] \in Nat /\ restrictions'[k] <= tables'[k].version
  BY <1>4, <1>5, <1>6, <1>7, <1>8, <1>10
<1> QED BY <1>9, <1>11, <1>12 DEF IInv, Files

-----------------------------------------------------------------------------
LEMMA RaiseFields ==
    ASSUME NEW r, DOMAIN r = DOMAIN NoRun
    PROVE  /\ DOMAIN Raise(r) = DOMAIN NoRun /\ Raise(r).pc = "exit" /\ Raise(r).retcode = 1
           /\ \A f \in DOMAIN NoRun \ {"pc", "retcode"} : Raise(r)[f] = r[f]
           /\ DOMAIN Unlucky(r) = DOMAIN NoRun /\ Unlucky(r).pc = "exit" /\ Unlucky(r).retcode = 1
           /\ Unlucky(r).unlucky = TRUE
           /\ \A f \in DOMAIN NoRun \ {"pc", "retcode", "unlucky"} : Unlucky(r)[f] = r[f]
BY DEF Raise, Unlucky, NoRun

(* A run that is going on has typed arguments and has judged nothing.      *)
LEMMA RunningFacts ==
    ASSUME IInv, Running
    PROVE  /\ run.cl \in CommandLines /\ run.args = parse_args(run.cl)
           /\ \A f \in Switches : run.args[f] \in BOOLEAN
           /\ run.args.rustflags \in {"none", "user"}
           /\ run.pc # "exit" => run.judged = FALSE
BY ArgsOf DEF IInv, Process, Running

LEMMA UnitFacts ==
    ASSUME IInv, Running, NEW u \in run.covered
    PROVE  /\ u \in AllUnits /\ u.pkg \in Packages
           /\ version[u.pkg] \in Nat /\ run.started[u.pkg] \in Nat
           /\ run.started[u.pkg] <= version[u.pkg]
<1>1. u \in AllUnits /\ u.pkg \in Packages
  BY DEF IInv, Process, AllUnits
<1>2. version \in [Packages -> 0 .. MaxVersion]
  BY DEF IInv, Files, Versions
<1>3. /\ run.started \in [Packages -> 0 .. MaxVersion]
      /\ \A p \in Packages : run.started[p] <= version[p]
  BY DEF IInv, Process, Versions, Running
<1> QED BY <1>1, <1>2, <1>3, CargoAssumption

(* What every step of a going run that leaves the files alone keeps.       *)
SameRun ==
    /\ DOMAIN run' = DOMAIN NoRun /\ UNCHANGED <<version, members, tables, restrictions, runs>>
    /\ run'.cl = run.cl /\ run'.args = run.args /\ run'.started = run.started
    /\ run'.compiled = run.compiled

(* A run comes to its exit without a verdict.                              *)
LEMMA Leaves ==
    ASSUME IInv, Running, run.judged = FALSE, SameRun,
           run'.status = run.status, run'.pc = "exit", run'.todo = {}, run'.retcode \in {0, 1},
           run'.covered = run.covered, run'.runnable = run.runnable, run'.judged = FALSE,
           run'.retcode = 1 /\ ~run'.unlucky => Excuse
    PROVE  IInv'
<1> USE DEF SameRun
<1>1. Files'
  BY FilesSame DEF IInv
<1>2. Process'
  BY RunningFacts DEF IInv, Process, Running, PCs
<1>3. Flagged'
  BY DEF IInv, Flagged, Running, Key
<1>4. Built'
  BY DEF IInv, Built, Running, SameDeps, Current, Key
<1>5. Judging'
  BY DEF Judging, Running
<1>6. Failing'
  BY DEF Failing, Excuse, SameDeps
<1> QED BY <1>1, <1>2, <1>3, <1>4, <1>5, <1>6 DEF IInv

LEMMA LeavesFields ==
    ASSUME IInv, Running, run.judged = FALSE,
           UNCHANGED <<version, members, tables, restrictions, runs>>,
           DOMAIN run' = DOMAIN NoRun, run'.pc = "exit", run'.todo = {}, run'.retcode \in {0, 1},
           \A f \in DOMAIN NoRun \ {"pc", "retcode", "unlucky", "todo"} : run'[f] = run[f],
           run'.retcode = 1 /\ ~run'.unlucky => Excuse
    PROVE  IInv'
<1>1. SameRun
  BY DEF SameRun, NoRun
<1>2. /\ run'.status = run.status /\ run'.covered = run.covered /\ run'.runnable = run.runnable
      /\ run'.judged = FALSE
  BY DEF NoRun
<1> QED BY <1>1, <1>2, Leaves

LEMMA MainIInv == ASSUME IInv, NEW cl \in CommandLines, main(cl) PROVE IInv'
<1>1. /\ UNCHANGED <<version, members, tables, restrictions>>
      /\ ~Running /\ runs < MaxRuns /\ runs' = runs + 1
      /\ DOMAIN run' = DOMAIN NoRun
      /\ run'.status = "running" /\ run'.cl = cl /\ run'.args = parse_args(cl)
      /\ run'.pc = IF cl.gen_c_runnable THEN "build runnable" ELSE "build"
      /\ run'.started = version /\ run'.rustflags = cl.rustflags
      /\ run'.todo = {} /\ run'.covered = {} /\ run'.compiled = {} /\ run'.runnable = {}
      /\ run'.judged = FALSE /\ run'.retcode = None
  BY DEF main, NoRun
<1>2. run'.args.gen_c_runnable = cl.gen_c_runnable /\ run'.args.rustflags = cl.rustflags
  <2>1. parse_args(cl).gen_c_runnable = cl.gen_c_runnable /\ parse_args(cl).rustflags = cl.rustflags
    BY ArgsOf DEF Switches
  <2> QED BY <1>1, <2>1
<1>3. Files'
  BY <1>1, FilesSame DEF IInv
<1>4. Process'
  <2>1. runs' \in 0 .. MaxRuns
    <3>1. runs \in 0 .. MaxRuns
      BY DEF IInv, Process
    <3>2. runs < MaxRuns /\ runs' = runs + 1
      BY <1>1
    <3> QED BY <3>1, <3>2, CargoAssumption
  <2>2. /\ run'.started \in [Packages -> Versions]
        /\ \A p \in Packages : run'.started[p] <= version'[p]
    <3>1. version \in [Packages -> 0 .. MaxVersion]
      BY DEF IInv, Files, Versions
    <3>2. \A p \in Packages : version[p] <= version[p]
      BY <3>1, CargoAssumption
    <3>3. run'.started = version /\ version' = version
      BY <1>1
    <3> QED BY <3>1, <3>2, <3>3 DEF Versions
  <2> QED BY <1>1, <2>1, <2>2 DEF Process, Running, PCs, Status
<1>5. Flagged' /\ Built' /\ Judging' /\ Failing'
  BY <1>1, <1>2 DEF Flagged, Built, Judging, Failing, Running
<1> QED BY <1>3, <1>4, <1>5 DEF IInv

LEMMA ExitIInv == ASSUME IInv, Exit PROVE IInv'
<1>1. /\ UNCHANGED <<version, members, tables, restrictions, runs>>
      /\ Running /\ run.pc = "exit" /\ DOMAIN run' = DOMAIN NoRun /\ run'.status = "exited"
      /\ \A f \in DOMAIN NoRun \ {"status"} : run'[f] = run[f]
  BY DEF IInv, Process, Exit, NoRun
<1>2. \A f \in {"pc", "cl", "args", "started", "todo", "covered", "compiled", "program", "applied",
                "judged", "runnable", "retcode", "unlucky"} : run'[f] = run[f]
  BY <1>1 DEF NoRun
<1>3. Files' /\ Process'
  BY <1>1, <1>2, FilesSame DEF IInv, Process, Running, Status
<1>4. Flagged' /\ Built'
  BY <1>1, <1>2 DEF IInv, Process, Flagged, Built, Running, SameDeps, Current, Key
<1>5. Judging' /\ Failing'
  BY <1>1, <1>2 DEF IInv, Judging, Failing, Excuse, Running, SameDeps, Current, Key
<1> QED BY <1>3, <1>4, <1>5 DEF IInv

LEMMA KillIInv == ASSUME IInv, Kill PROVE IInv'
<1>1. /\ UNCHANGED <<version, members, tables, restrictions, runs>>
      /\ Running /\ DOMAIN run' = DOMAIN NoRun /\ run'.status = "killed" /\ run'.todo = {}
      /\ \A f \in DOMAIN NoRun \ {"status", "todo"} : run'[f] = run[f]
  BY DEF IInv, Process, Kill, NoRun
<1>2. \A f \in {"pc", "cl", "args", "started", "rustflags", "covered", "compiled", "program",
                "applied", "judged", "runnable", "retcode", "unlucky"} : run'[f] = run[f]
  BY <1>1 DEF NoRun
<1>3. Files' /\ Process'
  BY <1>1, <1>2, FilesSame DEF IInv, Process, Running, Status
<1>4. Flagged' /\ Built'
  BY <1>1, <1>2 DEF IInv, Process, Flagged, Built, Running, SameDeps, Current, Key, Units
<1>5. Judging' /\ Failing'
  BY <1>1, <1>2 DEF IInv, Judging, Failing, Excuse, Running, SameDeps, Current, Key
<1> QED BY <1>3, <1>4, <1>5 DEF IInv

LEMMA StutterIInv == ASSUME IInv, UNCHANGED vars PROVE IInv'
<1> USE DEF vars
<1>1. Files' /\ Process' /\ Flagged'
  BY DEF IInv, Files, Process, Flagged, Running, Key
<1>2. Built'
  BY DEF IInv, Built, Running, SameDeps, Current, Key, Units, Has
<1>3. Judging' /\ Failing'
  BY DEF IInv, Judging, Failing, Excuse, Running, SameDeps, Current, Key
<1> QED BY <1>1, <1>2, <1>3 DEF IInv

-----------------------------------------------------------------------------
(* The user edits and removes packages at any time.                        *)
LEMMA EditIInv == ASSUME IInv, NEW p \in members, Edit(p) PROVE IInv'
<1>1. /\ UNCHANGED <<members, tables, restrictions, run, runs>> /\ p \in Packages
      /\ version' = [version EXCEPT ![p] = @ + 1]
  BY DEF IInv, Files, Edit
<1>2. /\ version \in [Packages -> 0 .. MaxVersion] /\ MaxVersion \in Nat
      /\ version'[p] = version[p] + 1
      /\ \A q \in Packages : version[q] <= version'[q] /\ version[q] \in Nat /\ version'[q] \in Nat
  BY <1>1, CargoAssumption DEF IInv, Files, Versions
<1>3. Files'
  BY FilesEdit DEF IInv
<1>4. run.status # "none" =>
         /\ \A q \in Packages : run.started[q] <= version'[q]
         /\ version' # run.started
  <2>1. SUFFICES ASSUME run.status # "none"
                 PROVE  /\ \A q \in Packages : run.started[q] <= version'[q]
                        /\ version' # run.started
    OBVIOUS
  <2>2. run.started \in [Packages -> 0 .. MaxVersion]
        /\ \A q \in Packages : run.started[q] <= version[q]
    BY <2>1 DEF IInv, Process, Versions
  <2> QED BY <1>1, <1>2, <2>2
<1>5. Process' /\ Flagged'
  BY <1>1, <1>4 DEF IInv, Process, Flagged, Running, Key
<1>6. Built' /\ Judging'
  BY <1>1 DEF IInv, Built, Judging, Running, SameDeps, Current, Key, Units, Has
<1>7. Failing'
  BY <1>1, <1>4 DEF IInv, Failing, Excuse, SameDeps
<1> QED BY <1>3, <1>5, <1>6, <1>7 DEF IInv

LEMMA RemoveIInv == ASSUME IInv, NEW p \in members, RemovePackage(p) PROVE IInv'
<1>1. /\ UNCHANGED <<version, tables, restrictions, run, runs>>
      /\ members' = members \ {p}
  BY DEF RemovePackage
<1>2. Files'
  BY FilesRemove DEF IInv
<1>3. Process' /\ Flagged'
  BY <1>1 DEF IInv, Process, Flagged, Running, Key
<1>4. Units(run.args)' \subseteq Units(run.args)
  BY <1>1 DEF Units
<1>5. Built'
  BY <1>1, <1>4 DEF IInv, Built, Running, SameDeps, Current, Key, Has
<1>6. Judging' /\ Failing'
  BY <1>1 DEF IInv, Judging, Failing, Excuse, Running, SameDeps, Current, Key
<1> QED BY <1>2, <1>3, <1>5, <1>6 DEF IInv

-----------------------------------------------------------------------------
LEMMA RunCbmcIInv == ASSUME IInv, run_cbmc PROVE IInv'
<1>1. PICK code \in {0, 10, 6} :
         run' = [run EXCEPT !.pc = "exit", !.judged = ~run.args.dry_run /\ code # 6,
                            !.retcode = IF code = 10 /\ run.args.allow_cbmc_verification_failure
                                        THEN 0 ELSE code]
  BY DEF run_cbmc, CBMC_VERIFICATION_FAILURE_EXIT_CODE
<1>2. /\ UNCHANGED <<version, members, tables, restrictions, runs>>
      /\ Running /\ run.pc = "cbmc" /\ DOMAIN run = DOMAIN NoRun
      /\ run.judged = FALSE /\ run.todo = {} /\ run.args.dry_run \in BOOLEAN
  <2>1. run.args.dry_run \in BOOLEAN /\ run.judged = FALSE
    BY RunningFacts DEF run_cbmc, Switches
  <2> QED BY <2>1 DEF run_cbmc, IInv, Process
<1>3. /\ DOMAIN run' = DOMAIN NoRun /\ run'.pc = "exit"
      /\ run'.judged = (~run.args.dry_run /\ code # 6) /\ run'.retcode \in {0, 10, 6}
      /\ \A f \in {"status", "cl", "args", "started", "todo", "covered", "compiled", "program",
                    "applied", "runnable"} : run'[f] = run[f]
  BY <1>1, <1>2 DEF NoRun
<1>4. run'.judged \in BOOLEAN /\ (run'.judged => ~run.args.dry_run)
  BY <1>1, <1>3
<1>5. Files' /\ Process'
  BY <1>2, <1>3, <1>4, FilesSame DEF IInv, Process, Running, PCs
<1>6. Flagged' /\ Built'
  BY <1>2, <1>3 DEF IInv, Flagged, Built, Running, SameDeps, Current, Key
<1>7. Judging'
  BY <1>2, <1>3, <1>4 DEF IInv, Judging, Running, SameDeps, Current, Key
<1>8. Failing'
  BY <1>3 DEF Failing
<1> QED BY <1>5, <1>6, <1>7, <1>8 DEF IInv

LEMMA SkipIInv == ASSUME IInv, Running, NEW u \in run.todo, Skip(u) PROVE IInv'
<1>1. /\ UNCHANGED <<version, members, tables, restrictions, runs>> /\ DOMAIN run' = DOMAIN NoRun
      /\ run'.todo = run.todo \ {u}
      /\ \A f \in {"status", "pc", "cl", "args", "started", "flags", "rustflags", "covered",
                    "compiled", "program", "applied", "judged", "runnable", "retcode", "unlucky"} :
             run'[f] = run[f]
  BY DEF Skip, IInv, Process, NoRun
<1>2. Has(u)
  <2>1. u \in run.covered
    BY DEF IInv, Process
  <2> QED BY <2>1, UnitFacts DEF Skip, Fresh, Has
<1>3. Files' /\ Process'
  BY <1>1, FilesSame DEF IInv, Process, Running
<1>4. Flagged'
  <2>1. run.pc \in {"link runnable", "link"} /\ run.todo # {}
    BY DEF IInv, Process
  <2> QED BY <1>1, <2>1 DEF IInv, Flagged, Running, Key
<1>5. Built'
  BY <1>1, <1>2 DEF IInv, Built, Running, SameDeps, Current, Key, Units, Has
<1>6. Judging' /\ Failing'
  BY <1>1 DEF IInv, Process, Judging, Failing
<1> QED BY <1>3, <1>4, <1>5, <1>6 DEF IInv

LEMMA CompileIInv == ASSUME IInv, Running, NEW u \in run.todo, Compile(u) PROVE IInv'
<1>1. /\ UNCHANGED <<version, members, runs>> /\ DOMAIN run' = DOMAIN NoRun
      /\ run'.todo = run.todo \ {u} /\ run'.compiled = run.compiled \cup {u}
      /\ \A f \in {"status", "pc", "cl", "args", "started", "flags", "rustflags", "covered",
                    "program", "applied", "judged", "runnable", "retcode", "unlucky"} :
             run'[f] = run[f]
  BY DEF Compile, IInv, Process, NoRun
<1>2. /\ DOMAIN tables' = DOMAIN tables \cup {Key(u)}
      /\ tables'[Key(u)] = [version |-> version[u.pkg], flags |-> run.flags]
      /\ \A k \in DOMAIN tables : k # Key(u) => tables'[k] = tables[k]
  BY DEF Compile, Put
<1>3. run.pc \in {"link runnable", "link"} /\ run.todo # {} /\ u \in run.covered
  BY DEF IInv, Process
<1>4. run.flags = Own(run.args)
  BY <1>3 DEF IInv, Flagged, Compile
<1>5. \A v \in run.covered : Has(v) \/ v = u => Has(v)'
  <2>1. version[u.pkg] >= run.started[u.pkg]
    <3>1. /\ version[u.pkg] \in Nat /\ run.started[u.pkg] \in Nat
          /\ run.started[u.pkg] <= version[u.pkg]
      BY <1>3, UnitFacts
    <3> QED BY <3>1
  <2>2. \A v : Key(v)' = Key(v) /\ (Key(v) = Key(u) => v = u)
    BY <1>1 DEF Key
  <2>3. run'.started = run.started
    BY <1>1
  <2>4. tables'[Key(u)].version = version[u.pkg]
    BY <1>2
  <2> QED BY <1>2, <2>1, <2>2, <2>3, <2>4 DEF Has
<1>6. Files'
  BY FilesCompile
<1>7. Process'
  BY <1>1 DEF IInv, Process, Running
<1>8. Flagged'
  <2>1. \A v \in run'.compiled :
           Key(v)' \in DOMAIN tables' /\ tables'[Key(v)'].flags = Own(run.args)
    <3>1. \A v : Key(v)' = Key(v)
      BY <1>1 DEF Key
    <3>2. tables'[Key(u)].flags = Own(run.args)
      BY <1>2, <1>4
    <3>3. \A v \in run.compiled : Key(v) \in DOMAIN tables /\ tables[Key(v)].flags = Own(run.args)
      BY DEF IInv, Flagged
    <3> QED BY <1>1, <1>2, <3>1, <3>2, <3>3
  <2> QED BY <1>1, <1>3, <1>4, <2>1 DEF IInv, Flagged
<1>9. Built'
  BY <1>1, <1>3, <1>5 DEF IInv, Built, Running, SameDeps, Current, Key, Units
<1>10. Judging' /\ Failing'
  BY <1>1, <1>3 DEF IInv, Process, Judging, Failing
<1> QED BY <1>6, <1>7, <1>8, <1>9, <1>10 DEF IInv

(* In a second build, which cannot compile, a unit is stale only if it was *)
(* edited while the run was going on.                                      *)
LEMMA CompileErrorIInv == ASSUME IInv, Running, NEW u \in run.todo, CompileError(u) PROVE IInv'
<1> DEFINE r == [run EXCEPT !.todo = {}]
<1>1. DOMAIN r = DOMAIN NoRun /\ r.todo = {}
      /\ \A f \in DOMAIN NoRun \ {"todo"} : r[f] = run[f]
  BY DEF IInv, Process, NoRun
<1>2. /\ run.pc \in {"link runnable", "link"} /\ run.todo # {}
      /\ u \in run.covered /\ run.judged = FALSE
  BY DEF IInv, Process
<1> HIDE DEF r
<1>3. CASE run.flags.rustflags = "--rmc-flags"
  <2>1. run' = Raise(r)
    BY <1>3 DEF CompileError, r
  <2>2. run.args.gen_c_runnable /\ run.pc = "link"
    <3>1. run.flags # Own(run.args)
      BY <1>3, RunningFacts DEF Own
    <3> QED BY <1>2, <3>1 DEF IInv, Flagged
  <2>3. Has(u)
    BY <1>2, <2>2 DEF IInv, Built
  <2>4. tables[Key(u)].version \in Nat /\ tables[Key(u)].version <= version[u.pkg]
    <3>1. Key(u) \in DOMAIN tables /\ Key(u).unit = u
      BY <2>3 DEF Has, Key
    <3> QED BY <3>1, CargoAssumption DEF IInv, Files, Versions
  <2>5. version[u.pkg] # run.started[u.pkg]
    <3>1. Key(u) \in DOMAIN tables /\ tables[Key(u)].version >= run.started[u.pkg]
      BY <2>3 DEF Has
    <3>2. tables[Key(u)].version # version[u.pkg]
      BY <3>1 DEF CompileError, Fresh
    <3>3. version[u.pkg] \in Nat /\ run.started[u.pkg] \in Nat
      BY <1>2, UnitFacts
    <3> QED BY <2>4, <3>1, <3>2, <3>3
  <2>6. Excuse
    BY <2>2, <2>5 DEF Excuse
  <2>7. /\ DOMAIN run' = DOMAIN NoRun /\ run'.pc = "exit" /\ run'.retcode = 1
        /\ \A f \in DOMAIN NoRun \ {"pc", "retcode"} : run'[f] = r[f]
    BY <1>1, <2>1, RaiseFields
  <2>8. /\ run'.todo = {}
        /\ \A f \in DOMAIN NoRun \ {"pc", "retcode", "unlucky", "todo"} : run'[f] = run[f]
    BY <1>1, <2>7 DEF NoRun
  <2> QED BY <1>2, <2>6, <2>7, <2>8, LeavesFields DEF CompileError
<1>4. CASE run.flags.rustflags # "--rmc-flags"
  <2>1. run' = Unlucky(r)
    BY <1>4 DEF CompileError, r
  <2>2. /\ DOMAIN run' = DOMAIN NoRun /\ run'.pc = "exit" /\ run'.retcode = 1 /\ run'.unlucky = TRUE
        /\ \A f \in DOMAIN NoRun \ {"pc", "retcode", "unlucky"} : run'[f] = r[f]
    BY <1>1, <2>1, RaiseFields
  <2>3. /\ run'.todo = {}
        /\ \A f \in DOMAIN NoRun \ {"pc", "retcode", "unlucky", "todo"} : run'[f] = run[f]
    BY <1>1, <2>2 DEF NoRun
  <2> QED BY <1>2, <2>2, <2>3, LeavesFields DEF CompileError
<1> QED BY <1>3, <1>4

-----------------------------------------------------------------------------
(* The ways a run leaves when its tools fail or are not wanted.            *)
LEMMA RaiseIInv ==
    ASSUME IInv, Running, run.pc # "exit", run.todo = {},
           UNCHANGED <<version, members, tables, restrictions, runs>>,
           \/ run' = Raise(run) /\ Excuse
           \/ run' = Unlucky(run)
           \/ run' = [run EXCEPT !.pc = "exit", !.retcode = 0]
    PROVE  IInv'
<1>1. DOMAIN run = DOMAIN NoRun /\ run.judged = FALSE
  BY DEF IInv, Process
<1>2. /\ DOMAIN run' = DOMAIN NoRun /\ run'.pc = "exit"
      /\ \A f \in DOMAIN NoRun \ {"pc", "retcode", "unlucky"} : run'[f] = run[f]
      /\ run'.retcode \in {0, 1} /\ (run'.retcode = 1 /\ ~run'.unlucky => Excuse)
  <2>1. CASE run' = Raise(run) /\ Excuse
    BY <1>1, <2>1, RaiseFields
  <2>2. CASE run' = Unlucky(run)
    BY <1>1, <2>2, RaiseFields
  <2>3. CASE run' = [run EXCEPT !.pc = "exit", !.retcode = 0]
    <3>1. /\ DOMAIN run' = DOMAIN NoRun /\ run'.pc = "exit" /\ run'.retcode = 0
          /\ \A f \in DOMAIN NoRun \ {"pc", "retcode"} : run'[f] = run[f]
      BY <1>1, <2>3 DEF NoRun
    <3> QED BY <3>1
  <2> QED BY <2>1, <2>2, <2>3
<1>3. run'.todo = {}
  BY <1>2 DEF NoRun
<1> QED BY <1>1, <1>2, <1>3, LeavesFields

(* Sequences as functions.                                                 *)
LEMMA SeqIsFunction ==
    ASSUME NEW S, NEW s \in Seq(S)
    PROVE  /\ Len(s) \in Nat /\ DOMAIN s = 1 .. Len(s)
           /\ \A k \in DOMAIN s : s[k] \in S
OBVIOUS

LEMMA FunctionIsSeq ==
    ASSUME NEW S, NEW n \in Nat, NEW s \in [1 .. n -> S]
    PROVE  s \in Seq(S)
OBVIOUS

LEMMA ConcatIndex ==
    ASSUME NEW S, NEW s \in Seq(S), NEW t \in Seq(S), NEW k \in DOMAIN (s \o t)
    PROVE  \/ k - Len(s) \in DOMAIN t /\ (s \o t)[k] = t[k - Len(s)]
           \/ k \in DOMAIN s /\ (s \o t)[k] = s[k]
<1>1. Len(s) \in Nat /\ Len(t) \in Nat /\ DOMAIN s = 1 .. Len(s) /\ DOMAIN t = 1 .. Len(t)
  OBVIOUS
<1>2. s \o t \in Seq(S) /\ Len(s \o t) = Len(s) + Len(t)
  OBVIOUS
<1>3. k \in 1 .. Len(s) + Len(t)
  BY <1>2
<1>4. CASE k <= Len(s)
  BY <1>1, <1>3, <1>4
<1>5. CASE k > Len(s)
  BY <1>1, <1>3, <1>5
<1> QED BY <1>1, <1>3, <1>4, <1>5

(* goto-cc misses a library only where fix_paths has moved it.             *)
LEMMA CannotLink == ASSUME IInv, Running, ~CanLink(run.args) PROVE Excuse
<1> DEFINE a == run.args
           cl == run.cl
           default == cl.c_lib \o Toml.c_lib
           rooted == [k \in DOMAIN default |-> fix_paths(cl, default[k])]
<1>1. cl \in CommandLines /\ a = parse_args(cl) /\ a.c_lib = ExtendAction(cl) /\ a.cwd = cl.cwd
      /\ a.crate = cl.crate /\ a.no_config_toml = cl.no_config_toml
      /\ a.verbose \in BOOLEAN /\ a.dry_run \in BOOLEAN /\ a.no_config_toml \in BOOLEAN
  BY RunningFacts, ArgsOf DEF Switches
<1>2. CASE a.c_lib # <<>> /\ (a.verbose \/ a.dry_run)
  BY <1>2 DEF Excuse
<1>3. CASE ~(a.c_lib # <<>> /\ (a.verbose \/ a.dry_run))
  <2>1. PICK k \in DOMAIN a.c_lib : At(a.cwd, a.c_lib[k]) \notin CFiles
    BY <1>3 DEF CanLink
  <2>2. ~cl.no_config_toml
    BY <1>1, <2>1, LibrariesAssumption DEF ExtendAction
  <2>3. a.c_lib = rooted \o cl.c_lib
    BY <1>1, <2>2 DEF ExtendAction
  <2>4. /\ cl.c_lib \in Seq(Paths) /\ Toml.c_lib \in Seq(Paths)
        /\ cl.crate \in Paths
    BY <1>1, CommandLinesAssumption
  <2>5. default \in Seq(Paths)
    BY <2>4
  <2>6. \A q \in Paths : fix_paths(cl, q) \in Paths
    BY <2>4 DEF fix_paths, joinpath, Path, Paths
  <2> HIDE DEF default
  <2>7. rooted \in Seq(Paths) /\ DOMAIN rooted = DOMAIN default
    <3>1. \A j \in DOMAIN default : default[j] \in Paths
      BY <2>5, SeqIsFunction
    <3>2. rooted \in [DOMAIN default -> Paths]
      BY <2>6, <3>1
    <3> HIDE DEF rooted
    <3>3. rooted \in [1 .. Len(default) -> Paths] /\ Len(default) \in Nat
      BY <2>5, <3>2, SeqIsFunction
    <3> QED BY <3>2, <3>3, FunctionIsSeq
  <2>8. \A j \in DOMAIN default : rooted[j] = fix_paths(cl, default[j])
    OBVIOUS
  <2> HIDE DEF rooted
  <2>9. \/ k - Len(rooted) \in DOMAIN cl.c_lib /\ a.c_lib[k] = cl.c_lib[k - Len(rooted)]
        \/ k \in DOMAIN rooted /\ a.c_lib[k] = rooted[k]
    BY <2>1, <2>3, <2>4, <2>7, ConcatIndex
  <2>10. CASE k - Len(rooted) \in DOMAIN cl.c_lib /\ a.c_lib[k] = cl.c_lib[k - Len(rooted)]
    BY <1>1, <2>1, <2>10, LibrariesAssumption
  <2>11. CASE k \in DOMAIN rooted /\ a.c_lib[k] = rooted[k]
    <3>1. k \in DOMAIN default /\ a.c_lib[k] = fix_paths(cl, default[k])
      BY <2>7, <2>8, <2>11
    <3>2. \/ k - Len(cl.c_lib) \in DOMAIN Toml.c_lib /\ default[k] = Toml.c_lib[k - Len(cl.c_lib)]
          \/ k \in DOMAIN cl.c_lib /\ default[k] = cl.c_lib[k]
      BY <2>4, <3>1, ConcatIndex DEF default
    <3>3. CASE k - Len(cl.c_lib) \in DOMAIN Toml.c_lib
               /\ default[k] = Toml.c_lib[k - Len(cl.c_lib)]
      BY <1>1, <2>1, <2>2, <3>1, <3>3, LibrariesAssumption
    <3>4. CASE k \in DOMAIN cl.c_lib /\ default[k] = cl.c_lib[k]
      <4>1. At(a.cwd, cl.c_lib[k]) \in CFiles
        BY <1>1, <3>4, LibrariesAssumption
      <4>2. fix_paths(a, cl.c_lib[k]) = fix_paths(cl, cl.c_lib[k])
        BY <1>1 DEF fix_paths
      <4>3. At(a.cwd, fix_paths(a, cl.c_lib[k])) # At(a.cwd, cl.c_lib[k])
        BY <2>1, <3>1, <3>4, <4>1, <4>2
      <4> QED BY <1>1, <2>2, <3>4, <4>3 DEF Excuse
    <3> QED BY <3>2, <3>3, <3>4
  <2> QED BY <2>9, <2>10, <2>11
<1> QED BY <1>2, <1>3

-----------------------------------------------------------------------------
(* A build starts: the first of a run, or one after --gen-c-runnable, whose*)
(* units are among those of the first.                                     *)
LEMMA CargoBuildIInv ==
    ASSUME IInv, Running, NEW here, NEW there, NEW gen_c, cargo_build(here, there, gen_c),
           \/ here = "build runnable" /\ there = "link runnable" /\ gen_c = TRUE
           \/ here = "build" /\ there = "link" /\ gen_c = FALSE
    PROVE  IInv'
<1> DEFINE a == run.args
           U == Units(run.args)
<1>1. /\ UNCHANGED <<version, members, tables, restrictions, runs>>
      /\ run.pc = here /\ run.pc # "exit" /\ DOMAIN run = DOMAIN NoRun /\ run.judged = FALSE
      /\ run.todo = {}
  BY DEF cargo_build, IInv, Process
<1>2. CASE a.dry_run /\ a.verbose
  <2>1. Excuse /\ run' = Raise(run)
    BY <1>2 DEF Excuse, cargo_build
  <2> QED BY <1>1, <2>1, RaiseIInv
<1>3. CASE a.dry_run /\ ~a.verbose
  <2>1. /\ DOMAIN run' = DOMAIN NoRun /\ run'.pc = there /\ run'.rustflags = "--rmc-flags"
        /\ \A f \in {"status", "cl", "args", "started", "todo", "covered", "compiled",
                      "judged", "runnable", "retcode"} : run'[f] = run[f]
    BY <1>1, <1>3 DEF cargo_build, NoRun
  <2>2. Files' /\ Process'
    BY <1>1, <2>1, FilesSame DEF IInv, Process, Running, PCs
  <2>3. Flagged'
    BY <1>1, <2>1 DEF IInv, Flagged, Running, Key
  <2>4. run.covered = {} /\ run.runnable = {}
    BY <1>1, <1>3 DEF IInv, Built
  <2>5. Built' /\ Judging' /\ Failing'
    BY <1>1, <1>3, <2>1, <2>4 DEF Built, Judging, Failing
  <2> QED BY <2>2, <2>3, <2>5 DEF IInv
<1>4. CASE ~a.dry_run
  <2>1. /\ DOMAIN run' = DOMAIN NoRun /\ run'.pc = there
        /\ run'.rustflags = "--rmc-flags" /\ run'.flags = compiler_flags(a, gen_c, run.rustflags)
        /\ run'.todo = U /\ run'.covered = U
        /\ \A f \in {"status", "cl", "args", "started", "compiled", "judged", "runnable",
                      "retcode"} : run'[f] = run[f]
    BY <1>1, <1>4 DEF cargo_build, NoRun
  <2>2. U \subseteq AllUnits /\ U # {} /\ U' = U
    <3>1. PICK q : q \in members
      BY DEF IInv, Files
    <3>2. [pkg |-> q, test |-> FALSE] \in U
      BY <3>1 DEF Units
    <3>3. members \subseteq Packages
      BY DEF IInv, Files
    <3> QED BY <1>1, <2>1, <3>2, <3>3 DEF Units, AllUnits
  <2>3. Files' /\ Process'
    BY <1>1, <1>4, <2>1, <2>2, FilesSame DEF IInv, Process, Running, PCs
  <2>4. Flagged'
    <3>1. a.gen_c_runnable \in BOOLEAN
      BY RunningFacts DEF Switches
    <3>2. \/ run'.flags = Own(a)
          \/ run'.flags.rustflags = "--rmc-flags" /\ a.gen_c_runnable /\ there = "link"
      <4>1. CASE here = "build runnable"
        <5>1. a.gen_c_runnable = TRUE /\ gen_c = TRUE /\ run.rustflags = a.rustflags
          BY <1>1, <3>1, <4>1 DEF IInv, Flagged
        <5> QED BY <2>1, <5>1 DEF compiler_flags, Own
      <4>2. CASE here = "build" /\ a.gen_c_runnable
        <5>1. run.rustflags = "--rmc-flags" /\ there = "link"
          BY <1>1, <4>2 DEF IInv, Flagged
        <5> QED BY <2>1, <4>2, <5>1 DEF compiler_flags
      <4>3. CASE here = "build" /\ ~a.gen_c_runnable
        <5>1. a.gen_c_runnable = FALSE /\ gen_c = FALSE /\ run.rustflags = a.rustflags
          BY <1>1, <3>1, <4>3 DEF IInv, Flagged
        <5> QED BY <2>1, <5>1 DEF compiler_flags, Own
      <4> QED BY <4>1, <4>2, <4>3
    <3> QED BY <1>1, <2>1, <3>2 DEF IInv, Flagged, Running, Key
  <2>5. ASSUME a.gen_c_runnable, here = "build" PROVE Built'
    <3>1. U \subseteq run.covered /\ \A u \in U : Has(u)
      <4>1. U \subseteq run.covered
        BY <1>1, <1>4, <2>5 DEF IInv, Built
      <4>2. \A u \in run.covered : Has(u)
        BY <1>1 DEF IInv, Built
      <4> HIDE DEF U
      <4> QED BY <4>1, <4>2
    <3>2. \A u \in U : Has(u)'
      BY <1>1, <2>1, <3>1 DEF Has, Key
    <3>3. \A program \in run.runnable : SameDeps(a, FALSE) => Current(program)'
      BY <1>1, <2>1, <3>1 DEF IInv, Built, Current, Key
    <3>4. /\ run'.args = run.args /\ run'.covered = U /\ run'.runnable = run.runnable
          /\ run'.pc = "link" /\ Units(run.args)' = U
      BY <1>1, <2>1, <2>5 DEF Units
    <3>5. U # {} /\ \A u \in U : Has(u)'
      BY <2>2, <3>2
    <3>6. \A program \in run'.runnable : SameDeps(run.args, FALSE)' => Current(program)'
      BY <3>3, <3>4 DEF SameDeps
    <3> HIDE DEF U
    <3>7. \A u \in run'.covered : Has(u)'
      BY <3>4, <3>5
    <3>8. Units(run.args)' \subseteq run'.covered /\ run'.covered # {}
      BY <3>4, <3>5
    <3>9. ~run'.args.dry_run /\ run'.pc = "link"
      BY <1>4, <3>4
    <3> QED BY <3>6, <3>7, <3>8, <3>9 DEF Built, Units
  <2>6. ASSUME ~(a.gen_c_runnable /\ here = "build") PROVE Built'
    <3>1. run.runnable = {}
      BY <1>1, <1>4, <2>6 DEF IInv, Built
    <3>2. ~(a.gen_c_runnable /\ there = "link")
      BY <1>1, <2>6
    <3>3. /\ run'.args = run.args /\ run'.covered = U /\ run'.todo = U /\ run'.runnable = {}
          /\ run'.pc = there /\ Units(run.args)' = U /\ there \in {"link runnable", "link"}
      BY <1>1, <2>1, <3>1 DEF Units
    <3>4. U # {}
      BY <2>2
    <3> HIDE DEF U
    <3>5. \A u \in run'.covered : u \in run'.todo
      BY <3>3
    <3>6. Units(run.args)' \subseteq run'.covered /\ run'.covered # {}
      BY <3>3, <3>4
    <3>7. /\ ~run'.args.dry_run /\ run'.pc \in {"link runnable", "link"}
          /\ ~(run'.args.gen_c_runnable /\ run'.pc = "link") /\ run'.runnable = {}
      BY <1>4, <3>2, <3>3
    <3> QED BY <3>5, <3>6, <3>7 DEF Built, Units
  <2>7. Judging' /\ Failing'
    BY <1>1, <2>1 DEF Judging, Failing
  <2> QED BY <2>3, <2>4, <2>5, <2>6, <2>7 DEF IInv
<1> QED BY <1>2, <1>3, <1>4

(* Where cargo and the driver look in one directory, the driver finds what *)
(* cargo is done with.                                                     *)
LEMMA Found ==
    ASSUME IInv, Running, NEW triple, SameDeps(run.args, triple), \A u \in run.covered : Has(u)
    PROVE  Current(In(driver_deps(run.args, triple), tables))
BY DEF Current, In, Has, Key, SameDeps

LEMMA FoundNone ==
    ASSUME IInv, Running, NEW triple, SameDeps(run.args, triple),
           run.covered # {}, \A u \in run.covered : Has(u)
    PROVE  DOMAIN In(driver_deps(run.args, triple), tables) # {}
BY Found DEF Current

LEMMA LinkRunnableIInv == ASSUME IInv, link_runnable PROVE IInv'
<1> DEFINE a == run.args
           found == In(driver_deps(run.args, FALSE), tables)
           can == /\ DOMAIN found # {} /\ CanLink(a)
                  /\ a.restrict_vtable => process_vtable_restrictions(a)
           done == [run EXCEPT !.pc = "build", !.runnable = IF a.dry_run THEN {} ELSE {found}]
<1>1. /\ UNCHANGED <<version, members, tables, restrictions, runs>>
      /\ Running /\ run.pc = "link runnable" /\ run.todo = {} /\ run.judged = FALSE
      /\ DOMAIN run = DOMAIN NoRun /\ a.gen_c_runnable /\ run.rustflags = "--rmc-flags"
  BY DEF link_runnable, IInv, Process, Flagged
<1>2. \A u \in run.covered : Has(u)
  BY <1>1 DEF IInv, Built
<1>3. ASSUME ~can PROVE Excuse
  <2>1. CASE a.dry_run
    BY <1>1, <2>1 DEF Excuse
  <2>2. CASE ~CanLink(a)
    BY <1>1, <2>2, CannotLink
  <2>3. CASE a.restrict_vtable /\ ~process_vtable_restrictions(a)
    BY <2>3 DEF Excuse, process_vtable_restrictions
  <2>4. CASE ~a.dry_run /\ DOMAIN found = {}
    <3>1. run.covered # {}
      BY <1>1, <2>4 DEF IInv, Built
    <3>2. ~SameDeps(a, FALSE)
      BY <1>1, <1>2, <2>4, <3>1, FoundNone
    <3>3. a.build_target \in BOOLEAN
      BY <1>1, RunningFacts DEF Switches
    <3>4. CASE a.build_target = TRUE
      BY <1>1, <3>4 DEF Excuse
    <3>5. CASE a.build_target = FALSE
      <4>1. ~SameDeps(a, a.build_target)
        BY <3>2, <3>5
      <4> QED BY <4>1 DEF Excuse
    <3> QED BY <3>3, <3>4, <3>5
  <2> QED BY <1>3, <2>1, <2>2, <2>3, <2>4
<1>4. \/ run' = [run EXCEPT !.pc = "exit", !.retcode = 0]
      \/ run' = Raise(run) /\ Excuse
      \/ run' = Unlucky(run)
      \/ run' = done
  BY <1>3 DEF link_runnable, Tools
<1>5. ASSUME run' = done PROVE IInv'
  <2>1. /\ DOMAIN run' = DOMAIN NoRun /\ run'.pc = "build"
        /\ run'.runnable = (IF a.dry_run THEN {} ELSE {found})
        /\ \A f \in {"status", "cl", "args", "started", "rustflags", "todo", "covered", "compiled",
                      "judged", "retcode"} : run'[f] = run[f]
    BY <1>1, <1>5 DEF NoRun
  <2> HIDE DEF found, done
  <2>2. Files' /\ Process'
    BY <1>1, <2>1, FilesSame DEF IInv, Process, Running, PCs
  <2>3. Flagged'
    BY <1>1, <2>1 DEF IInv, Flagged, Running, Key
  <2>4. SameDeps(a, FALSE) => Current(found)
    BY <1>1, <1>2, Found DEF found
  <2>5. \A program \in run'.runnable : SameDeps(run.args, FALSE)' => Current(program)'
    BY <1>1, <2>1, <2>4 DEF SameDeps, Current, Key
  <2>6. \A u \in run'.covered : Has(u)'
    BY <1>1, <1>2, <2>1 DEF Has, Key
  <2>7. IF run'.args.dry_run THEN run'.covered = {} /\ run'.runnable = {}
        ELSE Units(run.args)' \subseteq run'.covered /\ run'.covered # {}
    BY <1>1, <2>1 DEF IInv, Built, Units
  <2>8. Built'
    BY <1>1, <2>1, <2>5, <2>6, <2>7 DEF Built
  <2>9. Judging' /\ Failing'
    BY <1>1, <2>1 DEF Judging, Failing
  <2> QED BY <2>2, <2>3, <2>8, <2>9 DEF IInv
<1> QED BY <1>1, <1>4, <1>5, RaiseIInv

LEMMA LinkIInv == ASSUME IInv, link PROVE IInv'
<1> DEFINE a == run.args
           found == In(pattern(run.args), tables)
           can == (a.dry_run \/ DOMAIN found # {}) /\ CanLink(a)
           done == [run EXCEPT !.pc = "instrument", !.libraries = a.c_lib,
                               !.program = IF a.dry_run THEN None ELSE found]
<1>1. /\ UNCHANGED <<version, members, tables, restrictions, runs>>
      /\ Running /\ run.pc = "link" /\ run.todo = {} /\ run.judged = FALSE
      /\ DOMAIN run = DOMAIN NoRun
  BY DEF link, IInv, Process
<1>2. ASSUME ~can PROVE Excuse
  <2>1. CASE ~CanLink(a)
    BY <1>1, <2>1, CannotLink
  <2>2. CASE ~a.dry_run /\ DOMAIN found = {}
    <3>1. run.covered # {} /\ \A u \in run.covered : Has(u)
      BY <1>1, <2>2 DEF IInv, Built
    <3>2. ~SameDeps(a, a.build_target)
      BY <1>1, <2>2, <3>1, FoundNone DEF pattern
    <3> QED BY <3>2 DEF Excuse
  <2> QED BY <1>2, <2>1, <2>2
<1>3. \/ run' = [run EXCEPT !.pc = "exit", !.retcode = 0]
      \/ run' = Raise(run) /\ Excuse
      \/ run' = Unlucky(run)
      \/ run' = done
  BY <1>2 DEF link, Tools
<1>4. ASSUME run' = done PROVE IInv'
  <2>1. /\ DOMAIN run' = DOMAIN NoRun /\ run'.pc = "instrument"
        /\ run'.program = (IF a.dry_run THEN None ELSE found)
        /\ \A f \in {"status", "cl", "args", "started", "rustflags", "todo", "covered", "compiled",
                      "judged", "runnable", "retcode"} : run'[f] = run[f]
    BY <1>1, <1>4 DEF NoRun
  <2> HIDE DEF done
  <2>2. Files' /\ Process'
    BY <1>1, <2>1, FilesSame DEF IInv, Process, Running, PCs
  <2>3. Flagged'
    BY <1>1, <2>1, SMTT(30) DEF IInv, Flagged, Running, Key
  <2>4. Built'
    BY <1>1, <2>1, ZenonT(60) DEF IInv, Built, Running, SameDeps, Current, Key, Units, Has
  <2>5. ~run'.args.dry_run => run'.program = In(pattern(run'.args), tables')
    BY <1>1, <2>1
  <2>6. Judging'
    BY <1>1, <2>1, <2>5 DEF Judging, In, pattern, driver_deps
  <2>7. Failing'
    BY <2>1 DEF Failing
  <2> QED BY <2>2, <2>3, <2>4, <2>6, <2>7 DEF IInv
<1> QED BY <1>1, <1>3, <1>4, RaiseIInv

LEMMA InstrumentIInv == ASSUME IInv, instrument PROVE IInv'
<1> DEFINE a == run.args
           restricted == a.restrict_vtable /\ a.undefined_function_checks
           can == a.restrict_vtable /\ (a.gen_c \/ a.undefined_function_checks)
                     => process_vtable_restrictions(a)
           applied == IF restricted /\ ~a.dry_run THEN {Linked(a)} ELSE {}
           done == [run EXCEPT !.pc = "cbmc", !.applied = applied]
<1>1. /\ UNCHANGED <<version, members, tables, restrictions, runs>>
      /\ Running /\ run.pc = "instrument" /\ run.todo = {} /\ run.judged = FALSE
      /\ DOMAIN run = DOMAIN NoRun
  BY DEF instrument, IInv, Process
<1>2. ASSUME ~can PROVE Excuse
  BY <1>2 DEF process_vtable_restrictions, Excuse
<1>3. \/ run' = Raise(run) /\ Excuse
      \/ run' = Unlucky(run)
      \/ run' = done
  BY <1>2 DEF instrument, Tools
<1>4. ASSUME run' = done PROVE IInv'
  <2>1. /\ DOMAIN run' = DOMAIN NoRun /\ run'.pc = "cbmc" /\ run'.applied = applied
        /\ \A f \in {"status", "cl", "args", "started", "rustflags", "todo", "covered", "compiled",
                      "program", "judged", "runnable", "retcode"} : run'[f] = run[f]
    BY <1>1, <1>4 DEF NoRun
  <2> HIDE DEF done
  <2>2. Files' /\ Process'
    BY <1>1, <2>1, FilesSame DEF IInv, Process, Running, PCs
  <2>3. Flagged'
    BY <1>1, <2>1, SMTT(30) DEF IInv, Flagged, Running, Key
  <2>4. Built'
    BY <1>1, <2>1, ZenonT(60) DEF IInv, Built, Running, SameDeps, Current, Key, Units, Has
  <2>5. Failing'
    BY <2>1 DEF Failing
  <2>6. ASSUME ~a.dry_run PROVE Judging'
    <3>1. run.program = In(pattern(a), tables)
      BY <1>1, <2>6 DEF IInv, Judging
    <3>2. SameDeps(a, a.build_target) =>
             /\ Current(run.program)
             /\ \A u \in run.compiled \cap run.covered : run.program[Key(u)].flags = Own(a)
      <4>1. SUFFICES ASSUME SameDeps(a, a.build_target)
                     PROVE  /\ Current(run.program)
                            /\ \A u \in run.compiled \cap run.covered :
                                  run.program[Key(u)].flags = Own(a)
        OBVIOUS
      <4>2. \A u \in run.covered : Has(u)
        BY <1>1 DEF IInv, Built
      <4>3. Current(run.program)
        BY <1>1, <3>1, <4>1, <4>2, Found DEF pattern
      <4>4. \A u \in run.compiled : Key(u) \in DOMAIN tables /\ tables[Key(u)].flags = Own(a)
        BY <1>1 DEF IInv, Flagged
      <4>5. \A u \in run.covered : Key(u) \in DOMAIN run.program
        BY <4>3 DEF Current
      <4>6. \A k \in DOMAIN run.program : run.program[k] = tables[k]
        BY <3>1 DEF In
      <4> QED BY <4>3, <4>4, <4>5, <4>6
    <3>3. (applied # {}) <=> (a.restrict_vtable /\ a.undefined_function_checks)
      BY <2>6
    <3>4. ASSUME NEW r \in applied, NEW k \in DOMAIN run.program
          PROVE  IF a.build_target THEN k \notin DOMAIN r
                 ELSE run.program[k].flags.restrict_vtable =>
                         k \in DOMAIN r /\ r[k] = run.program[k].version
      <4>1. /\ r = In(driver_deps(a, FALSE), restrictions)
            /\ k \in DOMAIN tables /\ k.deps = driver_deps(a, a.build_target)
            /\ run.program[k] = tables[k]
        BY <3>1, <3>4 DEF In, Linked, pattern
      <4>2. a.build_target \in BOOLEAN
        BY <1>1, RunningFacts DEF Switches
      <4>3. CASE a.build_target = TRUE
        BY <4>1, <4>3 DEF In, driver_deps, deps
      <4>4. CASE a.build_target = FALSE
        <5>1. tables[k].flags.restrict_vtable =>
                 k \in DOMAIN restrictions /\ restrictions[k] = tables[k].version
          BY <4>1 DEF IInv, Files
        <5> QED BY <4>1, <4>4, <5>1 DEF In
      <4> QED BY <4>2, <4>3, <4>4
    <3> HIDE DEF applied
    <3>5. /\ run'.pc = "cbmc" /\ run'.args = run.args /\ run'.program = run.program
          /\ run'.applied = applied /\ run'.compiled = run.compiled /\ run'.covered = run.covered
          /\ run'.started = run.started
      BY <2>1
    <3>6. SameDeps(run.args, run.args.build_target)' =>
             /\ Current(run.program)'
             /\ \A u \in run'.compiled \cap run'.covered :
                   run'.program[Key(u)'].flags = Own(run'.args)
      BY <3>2, <3>5 DEF SameDeps, Current, Key
    <3>7. /\ (run'.applied # {}) <=>
               (run'.args.restrict_vtable /\ run'.args.undefined_function_checks)
          /\ \A r \in run'.applied, k \in DOMAIN run'.program :
                IF run'.args.build_target THEN k \notin DOMAIN r
                ELSE run'.program[k].flags.restrict_vtable =>
                        k \in DOMAIN r /\ r[k] = run'.program[k].version
      BY <3>3, <3>4, <3>5
    <3> QED BY <3>5, <3>6, <3>7 DEF Judging
  <2>7. ASSUME a.dry_run PROVE Judging'
    BY <1>1, <2>1, <2>7 DEF Judging
  <2> QED BY <2>2, <2>3, <2>4, <2>5, <2>6, <2>7 DEF IInv
<1> QED BY <1>1, <1>3, <1>4, RaiseIInv

LEMMA StepIInv == ASSUME IInv, Step PROVE IInv'
<1>1. CASE Running /\ cargo_build("build runnable", "link runnable", TRUE)
  BY <1>1, CargoBuildIInv
<1>2. CASE Running /\ cargo_build("build", "link", FALSE)
  BY <1>2, CargoBuildIInv
<1>3. ASSUME Running, NEW u \in run.todo, Skip(u) \/ Compile(u) \/ CompileError(u) PROVE IInv'
  BY <1>3, SkipIInv, CompileIInv, CompileErrorIInv
<1> QED BY <1>1, <1>2, <1>3, LinkRunnableIInv, LinkIInv, InstrumentIInv, RunCbmcIInv, ExitIInv
        DEF Step

(* The induction: no step of the process, its tools or the user breaks it. *)
LEMMA Inductive == Spec => []IInv
<1>1. Init => IInv
  BY InitIInv
<1>2. IInv /\ [Next]_vars => IInv'
  <2> SUFFICES ASSUME IInv, [Next]_vars PROVE IInv'
    OBVIOUS
  <2>1. CASE Step
    BY <2>1, StepIInv
  <2>2. CASE Kill
    BY <2>2, KillIInv
  <2>3. ASSUME NEW cl \in CommandLines, main(cl) PROVE IInv'
    BY <2>3, MainIInv
  <2>4. ASSUME NEW p \in members, Edit(p) \/ RemovePackage(p) PROVE IInv'
    BY <2>4, EditIInv, RemoveIInv
  <2>5. CASE UNCHANGED vars
    BY <2>5, StutterIInv
  <2> QED BY <2>1, <2>2, <2>3, <2>4, <2>5 DEF Next
<1> QED BY <1>1, <1>2, PTL DEF Spec

-----------------------------------------------------------------------------
(* Files, return codes and counters have their types: in the target        *)
(* directory restrictions lie beside a table that is not older, and no     *)
(* table was compiled with --rmc-flags among the RMC flags.                *)
THEOREM Typed == Spec => []TypeOK
<1>1. IInv => TypeOK
  BY DEF IInv, Files, Process, TypeOK, Status
<1> QED BY <1>1, Inductive, PTL

(* Whatever earlier runs, edits and kills left in the target directory,    *)
(* what CBMC judges and what the runnable C program is made of contain     *)
(* every package of the build, from a source not older than the run        *)
(* (cargo-rmc:56-71, 27-34).                                               *)
THEOREM CrateCovered == Spec => []CoversCrate
<1>1. IInv => CoversCrate
  BY DEF IInv, Judging, Built, CoversCrate
<1> QED BY <1>1, Inductive, PTL

(* A table the run compiled was compiled under its flags and the user's    *)
(* RUSTFLAGS, though the second cargo_build finds --rmc-flags in their     *)
(* place (rmc.py:267-298).                                                 *)
THEOREM FlagsAreOfRun == Spec => []FlagsOfRun
<1>1. IInv => FlagsOfRun
  BY DEF IInv, Judging, FlagsOfRun, Own
<1> QED BY <1>1, Inductive, PTL

(* A table compiled with --restrict-vtable is judged under the             *)
(* restrictions of its own source; one for a --build-target under none.    *)
THEOREM RestrictionsOfTables == Spec => []RestrictionsMatch
<1>1. IInv => RestrictionsMatch
  BY DEF IInv, Judging, RestrictionsMatch
<1> QED BY <1>1, Inductive, PTL

(* A run whose tools all work fails only for one of the reasons in Excuse. *)
THEOREM FailuresExcused == Spec => []FailsOnlyFor
<1>1. IInv => FailsOnlyFor
  BY DEF IInv, Process, Failing, FailsOnlyFor
<1> QED BY <1>1, Inductive, PTL
=============================================================================
