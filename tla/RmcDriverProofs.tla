-------------------------- MODULE RmcDriverProofs --------------------------
(***************************************************************************)
(* The driver of a single file, for any number of processes, sources,      *)
(* command lines and edits.                                                *)
(***************************************************************************)
EXTENDS RmcDriver, TLAPS

Elements(s) == {s[k] : k \in DOMAIN s}
IsSeq(s) == s \in Seq(Elements(s))
Fields == {"main", "reads", "out", "temps", "gen_c", "on_failure"}

(* A source is its own origin.                                             *)
Store ==
    /\ \A f \in DOMAIN files : files[f] \in Contents
    /\ \A i \in Inputs :
          /\ File(i, "rs") \in DOMAIN files /\ files[File(i, "rs")].gen_c = FALSE
          /\ files[File(i, "rs")].origin.version \in Nat
          /\ files[File(i, "rs")].origin = Origin(i, files[File(i, "rs")].origin.version)

(* What a run on i may write and delete, and what may stay.                *)
Mine(i, f) == f.of \in {i, Dir} /\ f.kind # "rs"
Temporary(i, f) == Mine(i, f) /\ f.kind \notin {"c", "symbols"}
Stays(a, f) ==
    \/ f.kind \in {"c", "symbols", "runnable.c", "report", "restrictions", "linked-restrictions"}
    \/ a.gen_c_runnable /\ f.kind = "symtab"

CommandOK(i, cmd) ==
    /\ \A f \in cmd.out : Mine(i, f)
    /\ \A f \in cmd.temps : Temporary(i, f)
    /\ cmd.main \in cmd.reads /\ cmd.gen_c \in BOOLEAN

(* The processes: two that run have different sources.                     *)
Process(j) ==
    /\ DOMAIN job[j] = DOMAIN NoRun
    /\ IsSeq(job[j].todo)
    /\ \A k \in DOMAIN job[j].todo : CommandOK(job[j].input, job[j].todo[k])
    /\ Running(j) =>
          /\ job[j].input \in Inputs /\ job[j].args \in CommandLines /\ job[j].started \in Nat
          /\ job[j].started <= files[File(job[j].input, "rs")].origin.version
          /\ \A f \in job[j].atexit : Temporary(job[j].input, f)
          /\ \A k \in Jobs : k # j /\ Running(k) => job[k].input # job[j].input

(* A file made from the run's own source, as it was during the run.        *)
Fresh(j, kind) ==
    LET f == File(job[j].input, kind)
    IN  /\ Exists(f) /\ files[f].origin.src = job[j].input /\ files[f].gen_c = FALSE
        /\ files[f].origin.version \in Nat /\ files[f].origin.version >= job[j].started

(* Commands before the program is linked, and after.                       *)
Before(i, a, cmd) ==
    cmd.on_failure = "error" /\ \A f \in cmd.out : f \in cmd.temps \/ Stays(a, f)
After(i, a, cmd) ==
    LET goto == File(i, "goto")
    IN  /\ cmd.on_failure = "error" /\ \A f \in cmd.out : f = goto \/ Stays(a, f)
        /\ goto \in cmd.out => cmd.main = goto /\ cmd.gen_c = FALSE

Compile(i, a) == compile_single_rust_file(i, a, "symtab", FALSE)
Convert(i) == symbol_table_to_gotoc(i, "symtab", "out")
Link(i) == link_c_lib(i, "out", "goto")

(* n commands, then the three that make the program, then the others.      *)
Planned(i, a, s, n) ==
    /\ n + 3 <= Len(s) /\ \A k \in 1 .. n : Before(i, a, s[k])
    /\ s[n + 1] = Compile(i, a) /\ s[n + 2] = Convert(i) /\ s[n + 3] = Link(i)
    /\ \A k \in n + 4 .. Len(s) : After(i, a, s[k])

(* Where the run is with its program.                                      *)
Stage(j) ==
    LET i == job[j].input  a == job[j].args  s == job[j].todo
        Rest(n) == \A k \in n .. Len(s) : After(i, a, s[k])
    IN  \/ \E n \in Nat : Planned(i, a, s, n)
        \/ 2 <= Len(s) /\ s[1] = Convert(i) /\ s[2] = Link(i) /\ Rest(3) /\ Fresh(j, "symtab")
        \/ 1 <= Len(s) /\ s[1] = Link(i) /\ Rest(2) /\ Fresh(j, "out")
        \/ Rest(1) /\ Fresh(j, "goto") /\ (a.keep_temps \/ File(i, "goto") \in job[j].atexit)

(* A file the run is asked for is there or has its command to come.        *)
Coming(j, kind) ==
    LET f == File(job[j].input, kind)
    IN  Exists(f) \/ \E k \in DOMAIN job[j].todo : f \in job[j].todo[k].out

Working(j) ==
    Running(j) /\ job[j].retcode = None =>
        /\ \A k \in DOMAIN job[j].todo : job[j].todo[k].on_failure = "error"
        /\ ~job[j].args.dry_run => Stage(j)
        /\ ~job[j].args.dry_run /\ job[j].args.gen_c => Coming(j, "c")
        /\ ~job[j].args.dry_run /\ job[j].args.gen_symbols => Coming(j, "symbols")

(* After the verdict only the commands of --visualize are left.            *)
Report(a, atexit, cmd) ==
    /\ cmd.on_failure # "error"
    /\ \A f \in cmd.out : f \in atexit \/ Stays(a, f) \/ a.keep_temps
Reporting(j) ==
    Running(j) /\ job[j].retcode # None =>
        \A k \in DOMAIN job[j].todo : Report(job[j].args, job[j].atexit, job[j].todo[k])

Registered(j) ==
    Running(j) /\ ~job[j].args.keep_temps =>
        \A f \in job[j].made : f \in job[j].atexit \/ Stays(job[j].args, f)

Verdict(j) ==
    /\ job[j].checked # None =>
          /\ job[j].checked.origin.src = job[j].input /\ ~job[j].checked.gen_c
          /\ job[j].checked.origin.version >= job[j].started
    /\ job[j].status \in {"running", "exited"} /\ job[j].retcode \in {0, 10} /\ ~job[j].args.dry_run =>
          /\ job[j].checked # None
          /\ job[j].args.gen_c => Exists(File(job[j].input, "c"))
          /\ job[j].args.gen_symbols => Exists(File(job[j].input, "symbols"))

JobInv(j) == Process(j) /\ Working(j) /\ Reporting(j) /\ Registered(j) /\ Verdict(j)

IInv == DOMAIN job = Jobs /\ Store /\ \A j \in Jobs : JobInv(j)

-----------------------------------------------------------------------------
(* What the files of another run see of a step: nothing.                   *)
Apart(i) ==
    \A f \in DOMAIN files :
        /\ f.of # i /\ f.of # Dir => f \in DOMAIN files' /\ files'[f] = files[f]
        /\ f.kind \in {"c", "symbols"} => f \in DOMAIN files'

LEMMA FileFields == ASSUME NEW i, NEW kind PROVE File(i, kind).of = i /\ File(i, kind).kind = kind
BY DEF File

LEMMA WriteFiles ==
    ASSUME IInv, NEW i \in Inputs, NEW out, NEW c, \A f \in out : Mine(i, f),
           out # {} => c \in Contents, files' = Write(out, c)
    PROVE  /\ Store' /\ Apart(i)
           /\ \A f \in out : f \in DOMAIN files' /\ files'[f] = c
           /\ \A f \in DOMAIN files : f \in DOMAIN files' /\ (f \notin out => files'[f] = files[f])
           /\ \A x \in Inputs : files'[File(x, "rs")] = files[File(x, "rs")]
<1>1. /\ DOMAIN files' = DOMAIN files \cup out
      /\ \A f \in out : files'[f] = c
      /\ \A f \in DOMAIN files : f \notin out => files'[f] = files[f]
  BY DEF Write
<1>2. \A x \in Inputs : File(x, "rs") \notin out /\ File(x, "rs") \in DOMAIN files
  BY FileFields DEF Mine, IInv, Store
<1>3. Store'
  BY <1>1, <1>2 DEF IInv, Store
<1>4. Apart(i)
  BY <1>1 DEF Apart, Mine
<1> QED BY <1>1, <1>2, <1>3, <1>4

(* A job that makes no step keeps its invariant, whatever another one does *)
(* on another source.                                                      *)
LEMMA OtherJob ==
    ASSUME IInv, Store', NEW k \in Jobs, DOMAIN job'[k] = DOMAIN NoRun,
           \A f \in DOMAIN NoRun \ {"shared"} : job'[k][f] = job[k][f],
           \A f \in DOMAIN files : f.kind \in {"c", "symbols"} => f \in DOMAIN files',
           Running(k) => \A kind \in {"symtab", "out", "goto"} :
               LET f == File(job[k].input, kind)
               IN  f \in DOMAIN files => f \in DOMAIN files' /\ files'[f] = files[f],
           Running(k) => files[File(job[k].input, "rs")].origin.version
                            <= files'[File(job[k].input, "rs")].origin.version,
           Running(k) => \A l \in Jobs : l # k /\ Running(l)' => job'[l].input # job[k].input
    PROVE  JobInv(k)'
<1>1. \A f \in {"status", "input", "args", "todo", "atexit", "retcode", "started", "checked", "made"} :
         job'[k][f] = job[k][f]
  BY DEF NoRun
<1>2. JobInv(k)
  BY DEF IInv
<1>3. Process(k)'
  <2>1. Running(k) =>
           /\ files[File(job[k].input, "rs")].origin.version \in Nat
           /\ files'[File(job[k].input, "rs")].origin.version \in Nat
    BY <1>2 DEF JobInv, Process, IInv, Store
  <2>2. Running(k) => job[k].started <= files'[File(job[k].input, "rs")].origin.version
    BY <1>2, <2>1 DEF JobInv, Process
  <2> QED BY <1>1, <1>2, <2>2 DEF JobInv, Process, Running
<1>4. \A kind \in {"symtab", "out", "goto"} : Running(k) /\ Fresh(k, kind) => Fresh(k, kind)'
  BY <1>1 DEF Fresh, Exists
<1>5. Running(k) /\ Stage(k) => Stage(k)'
  BY <1>1, <1>4 DEF Stage
<1>6. \A kind \in {"c", "symbols"} : Coming(k, kind) => Coming(k, kind)'
  BY <1>1, FileFields DEF Coming, Exists
<1>7. Working(k)'
  BY <1>1, <1>2, <1>5, <1>6 DEF JobInv, Working, Running
<1>8. Reporting(k)' /\ Registered(k)'
  BY <1>1, <1>2 DEF JobInv, Reporting, Registered, Running
<1>9. Verdict(k)'
  BY <1>1, <1>2, FileFields DEF JobInv, Verdict, Exists
<1> QED BY <1>3, <1>7, <1>8, <1>9 DEF JobInv

LEMMA InitIInv == ASSUME Init PROVE IInv
<1>1. /\ DOMAIN files = {File(i, "rs") : i \in Inputs}
      /\ \A i \in Inputs : files[File(i, "rs")] = Content(Origin(i, 0))
  BY FileFields DEF Init
<1>2. \A i \in Inputs : Content(Origin(i, 0)) \in Contents
  BY DEF Content, Origin, Contents, Origins
<1>3. Store
  <2>1. \A i \in Inputs : /\ Content(Origin(i, 0)).origin = Origin(i, 0)
                          /\ Content(Origin(i, 0)).gen_c = FALSE /\ Origin(i, 0).version = 0
    BY DEF Content, Origin
  <2> QED BY <1>1, <1>2, <2>1 DEF Store
<1>4. DOMAIN job = Jobs /\ \A j \in Jobs : job[j] = NoRun
  BY DEF Init
<1>5. ASSUME NEW j \in Jobs PROVE JobInv(j)
  <2>1. /\ DOMAIN job[j] = DOMAIN NoRun /\ job[j].todo = <<>> /\ job[j].status = "none"
        /\ job[j].checked = None
    BY <1>4 DEF NoRun
  <2>2. IsSeq(job[j].todo) /\ DOMAIN job[j].todo = {}
    BY <2>1 DEF IsSeq
  <2> QED BY <2>1, <2>2 DEF JobInv, Process, Working, Reporting, Registered, Verdict, Running
<1> QED BY <1>3, <1>4, <1>5 DEF IInv

-----------------------------------------------------------------------------
(* The commands of a run.                                                  *)
LEMMA GenCFields ==
    ASSUME NEW c, DOMAIN c = Fields, NEW v, NEW d, d = [c EXCEPT !.gen_c = v]
    PROVE  /\ d.main = c.main /\ d.reads = c.reads /\ d.out = c.out /\ d.temps = c.temps
           /\ d.gen_c = v /\ d.on_failure = c.on_failure
BY DEF Fields

LEMMA ReadsFields ==
    ASSUME NEW c, DOMAIN c = Fields, NEW v, NEW d, d = [c EXCEPT !.reads = @ \cup v]
    PROVE  /\ d.main = c.main /\ d.reads = c.reads \cup v /\ d.out = c.out /\ d.temps = c.temps
           /\ d.gen_c = c.gen_c /\ d.on_failure = c.on_failure
BY DEF Fields

LEMMA CompileOK ==
    ASSUME NEW i \in Inputs, NEW a, NEW o \in {"runnable.json", "symtab"}, NEW gen_c \in BOOLEAN,
           o = "runnable.json" => a.gen_c_runnable
    PROVE  LET c == compile_single_rust_file(i, a, o, gen_c)
           IN  /\ CommandOK(i, c) /\ Before(i, a, c) /\ c.gen_c = gen_c
               /\ c.main = File(i, "rs") /\ c.reads = {File(i, "rs")} /\ File(i, "symtab") \in c.out
<1> DEFINE base == {File(i, "type_map"), File(i, "rmc-metadata")}
           restrictions == IF a.restrict_vtable THEN {File(i, "restrictions")} ELSE {}
           out == {File(i, "symtab")} \cup base \cup restrictions
           temps == {File(i, o)} \cup base
           c == compile_single_rust_file(i, a, o, gen_c)
<1>2. /\ c.main = File(i, "rs") /\ c.reads = {File(i, "rs")} /\ c.out = out
      /\ c.temps = temps /\ c.gen_c = gen_c /\ c.on_failure = "error"
  <2> DEFINE c0 == Command(File(i, "rs"), out, temps)
  <2>1. c = [c0 EXCEPT !.gen_c = gen_c]
    BY DEF compile_single_rust_file
  <2> HIDE DEF c, out, temps
  <2>2. /\ DOMAIN c0 = Fields /\ c0.main = File(i, "rs") /\ c0.reads = {File(i, "rs")}
        /\ c0.out = out /\ c0.temps = temps /\ c0.on_failure = "error"
    BY DEF Command, Fields
  <2> HIDE DEF c0
  <2> QED BY <2>1, <2>2, GenCFields
<1>3. \A f \in out : Mine(i, f)
  BY FileFields DEF Mine
<1>4. \A f \in temps : Temporary(i, f)
  BY FileFields DEF Mine, Temporary
<1>5. \A f \in out : f \in temps \/ Stays(a, f)
  BY FileFields DEF Stays
<1>6. File(i, "symtab") \in out
  OBVIOUS
<1> HIDE DEF c, out, temps
<1>7. CommandOK(i, c) /\ Before(i, a, c)
  BY <1>2, <1>3, <1>4, <1>5 DEF CommandOK, Before
<1> QED BY <1>2, <1>6, <1>7 DEF c

LEMMA ConvertOK ==
    ASSUME NEW i \in Inputs, NEW a, NEW src,
           NEW o \in {"runnable.out", "out", "runnable.goto", "goto"}
    PROVE  LET c == Command(File(i, src), {File(i, o)}, {File(i, o)})
           IN  /\ CommandOK(i, c) /\ Before(i, a, c) /\ c.gen_c = FALSE
               /\ c.main = File(i, src) /\ c.reads = {File(i, src)} /\ c.out = {File(i, o)}
               /\ c.temps = {File(i, o)}
<1> DEFINE c == Command(File(i, src), {File(i, o)}, {File(i, o)})
<1>2. /\ c.main = File(i, src) /\ c.reads = {File(i, src)} /\ c.out = {File(i, o)}
      /\ c.temps = {File(i, o)} /\ c.gen_c = FALSE /\ c.on_failure = "error"
  BY DEF Command, Fields
<1> HIDE DEF c
<1>3. Mine(i, File(i, o)) /\ Temporary(i, File(i, o))
  BY FileFields DEF Mine, Temporary
<1>4. CommandOK(i, c) /\ Before(i, a, c)
  BY <1>2, <1>3, Zenon DEF CommandOK, Before
<1> QED BY <1>2, <1>4 DEF c

(* run_goto_instrument on a program of the run.                            *)
LEMMA InstrumentOK ==
    ASSUME NEW i \in Inputs, NEW a, NEW src, NEW r,
           NEW o \in {"runnable.c", "c", "symbols", "goto"}, o = "goto" => src = "goto"
    PROVE  LET s == run_goto_instrument(File(i, src), File(i, o), r)
           IN  /\ IsSeq(s) /\ Len(s) \in {1, 2} /\ File(i, o) \in s[Len(s)].out
               /\ \A c \in Elements(s) : /\ CommandOK(i, c) /\ After(i, a, c)
                                         /\ o # "goto" => Before(i, a, c)
<1> DEFINE cmd == Command(File(i, src), {File(i, o)}, {})
           pre == Command(r, {Linked}, {})
           post == [cmd EXCEPT !.reads = @ \cup {Linked}]
           s == run_goto_instrument(File(i, src), File(i, o), r)
<1>2. /\ DOMAIN cmd = Fields /\ cmd.main = File(i, src) /\ cmd.reads = {File(i, src)}
      /\ cmd.out = {File(i, o)} /\ cmd.temps = {} /\ cmd.gen_c = FALSE /\ cmd.on_failure = "error"
  BY DEF Command, Fields
<1> HIDE DEF cmd
<1>3. /\ post.main = File(i, src) /\ post.reads = {File(i, src), Linked}
      /\ post.out = {File(i, o)} /\ post.temps = {}
      /\ post.gen_c = FALSE /\ post.on_failure = "error"
  BY <1>2, ReadsFields
<1> HIDE DEF post
<1>4. File(i, "goto") # Linked /\ Linked.of = Dir /\ Linked.kind = "linked-restrictions"
  BY DEF Linked, File
<1>5. ASSUME NEW c \in {cmd, post}
      PROVE  CommandOK(i, c) /\ After(i, a, c) /\ (o # "goto" => Before(i, a, c))
  <2>1. /\ c.main = File(i, src) /\ c.main \in c.reads /\ c.out = {File(i, o)} /\ c.temps = {}
        /\ c.gen_c = FALSE /\ c.on_failure = "error"
    BY <1>2, <1>3
  <2>2. Mine(i, File(i, o)) /\ (o # "goto" => Stays(a, File(i, o)))
    BY FileFields DEF Mine, Stays
  <2>3. o # "goto" => File(i, o) # File(i, "goto")
    BY FileFields
  <2> QED BY <2>1, <2>2, <2>3, Zenon DEF CommandOK, After, Before
<1>6. CASE r = None
  <2>1. s = <<cmd>>
    BY <1>6 DEF run_goto_instrument, cmd
  <2> HIDE DEF s
  <2>2. DOMAIN s = {1} /\ s[1] = cmd /\ Len(s) = 1 /\ Elements(s) = {cmd}
    BY <2>1 DEF Elements
  <2>3. IsSeq(s)
    BY <2>1, <2>2 DEF IsSeq
  <2> QED BY <1>2, <1>5, <2>2, <2>3 DEF s
<1>7. CASE r # None
  <2>1. s = <<pre, post>>
    BY <1>7 DEF run_goto_instrument, process_vtable_restrictions, cmd, post
  <2> HIDE DEF s
  <2>2. /\ pre.out = {Linked} /\ pre.temps = {} /\ pre.on_failure = "error"
        /\ pre.main \in pre.reads /\ pre.gen_c = FALSE
    BY DEF Command, Fields
  <2> HIDE DEF pre
  <2>3. CommandOK(i, pre) /\ After(i, a, pre) /\ Before(i, a, pre)
    BY <1>4, <2>2, Zenon DEF CommandOK, After, Before, Mine, Stays
  <2>4. DOMAIN s = {1, 2} /\ s[1] = pre /\ s[2] = post /\ Len(s) = 2 /\ Elements(s) = {pre, post}
    BY <2>1 DEF Elements
  <2>5. IsSeq(s)
    BY <2>1, <2>4 DEF IsSeq
  <2> QED BY <1>3, <1>5, <2>3, <2>4, <2>5 DEF s
<1> QED BY <1>6, <1>7

LEMMA Indices == ASSUME NEW s, IsSeq(s) PROVE Len(s) \in Nat /\ DOMAIN s = 1 .. Len(s)
BY DEF IsSeq

Joined(s, t, u) ==
    /\ IsSeq(u) /\ Len(u) = Len(s) + Len(t) /\ Elements(u) = Elements(s) \cup Elements(t)
    /\ \A k \in 1 .. Len(s) : u[k] = s[k]
    /\ \A k \in 1 .. Len(t) : u[Len(s) + k] = t[k]
    /\ \A k \in Len(s) + 1 .. Len(u) : u[k] \in Elements(t)

LEMMA Concat == ASSUME NEW s, NEW t, IsSeq(s), IsSeq(t) PROVE Joined(s, t, s \o t)
<1> DEFINE u == s \o t
<1> DEFINE S == Elements(s) \cup Elements(t)
<1>1. s \in Seq(S) /\ t \in Seq(S)
  <2>1. s \in Seq(Elements(s)) /\ t \in Seq(Elements(t)) /\ Elements(s) \subseteq S /\ Elements(t) \subseteq S
    BY DEF IsSeq
  <2> HIDE DEF S
  <2> QED BY <2>1
<1> HIDE DEF S
<1>2. u \in Seq(S) /\ Len(u) = Len(s) + Len(t) /\ Len(s) \in Nat /\ Len(t) \in Nat
  BY <1>1
<1>3. /\ \A k \in 1 .. Len(s) : u[k] = s[k]
      /\ \A k \in 1 .. Len(t) : u[Len(s) + k] = t[k]
      /\ \A k \in Len(s) + 1 .. Len(u) : u[k] = t[k - Len(s)] /\ k - Len(s) \in 1 .. Len(t)
  BY <1>1, <1>2
<1> HIDE DEF u
<1>4. DOMAIN s = 1 .. Len(s) /\ DOMAIN t = 1 .. Len(t) /\ DOMAIN u = 1 .. Len(u)
  BY <1>1, <1>2
<1>5. \A k \in Len(s) + 1 .. Len(u) : u[k] \in Elements(t)
  BY <1>3, <1>4 DEF Elements
<1>6. Elements(u) \subseteq S
  BY <1>2, <1>4 DEF Elements
<1>7. S \subseteq Elements(u)
  <2>1. ASSUME NEW k \in DOMAIN s PROVE s[k] \in Elements(u)
    <3>1. k \in DOMAIN u /\ u[k] = s[k]
      BY <1>2, <1>3, <1>4
    <3> QED BY <3>1 DEF Elements
  <2>2. ASSUME NEW k \in DOMAIN t PROVE t[k] \in Elements(u)
    <3>1. Len(s) + k \in DOMAIN u /\ u[Len(s) + k] = t[k]
      BY <1>2, <1>3, <1>4
    <3> QED BY <3>1 DEF Elements
  <2> QED BY <2>1, <2>2 DEF Elements, S
<1>8. Elements(u) = S
  BY <1>6, <1>7
<1>9. IsSeq(u)
  BY <1>2, <1>8 DEF IsSeq
<1>10. Elements(u) = Elements(s) \cup Elements(t)
  BY <1>8 DEF S
<1> HIDE DEF S
<1> QED BY <1>2, <1>3, <1>5, <1>9, <1>10 DEF Joined, u

(* What main adds on condition.                                            *)
LEMMA Optional ==
    ASSUME NEW i \in Inputs, NEW a, NEW flag, NEW src, NEW r, NEW s,
           NEW o \in {"runnable.c", "c", "symbols", "goto"}, o = "goto" => src = "goto",
           s = IF flag THEN run_goto_instrument(File(i, src), File(i, o), r) ELSE <<>>
    PROVE  /\ IsSeq(s) /\ \A c \in Elements(s) : CommandOK(i, c) /\ After(i, a, c)
           /\ flag => \E c \in Elements(s) : File(i, o) \in c.out
<1>1. CASE flag
  <2>1. /\ IsSeq(s) /\ Len(s) \in {1, 2} /\ File(i, o) \in s[Len(s)].out
        /\ \A c \in Elements(s) : CommandOK(i, c) /\ After(i, a, c)
    BY <1>1, InstrumentOK, Zenon
  <2>2. s[Len(s)] \in Elements(s)
    BY <2>1, Indices DEF Elements
  <2> QED BY <2>1, <2>2
<1>2. CASE ~flag
  <2>1. s = <<>> /\ IsSeq(s) /\ Elements(s) = {}
    BY <1>2 DEF IsSeq, Elements
  <2> QED BY <1>2, <2>1
<1> QED BY <1>1, <1>2

LEMMA Three ==
    ASSUME NEW x, NEW y, NEW z, NEW s, s = <<x, y, z>>
    PROVE  /\ IsSeq(s) /\ Len(s) = 3 /\ s[1] = x /\ s[2] = y /\ s[3] = z /\ Elements(s) = {x, y, z}
<1>1. DOMAIN s = 1 .. 3 /\ s[1] = x /\ s[2] = y /\ s[3] = z /\ Len(s) = 3
  OBVIOUS
<1>2. Elements(s) = {x, y, z}
  BY <1>1 DEF Elements
<1>3. s \in Seq({x, y, z})
  OBVIOUS
<1> QED BY <1>1, <1>2, <1>3 DEF IsSeq

(* The commands that make the runnable C program.                          *)
LEMMA RunnableOK ==
    ASSUME NEW i \in Inputs, NEW a, NEW deps, NEW s,
           s = IF a.gen_c_runnable
               THEN <<compile_single_rust_file(i, a, "runnable.json", TRUE),
                      symbol_table_to_gotoc(i, "runnable.json", "runnable.out"),
                      link_c_lib(i, "runnable.out", "runnable.goto")>>
                    \o run_goto_instrument(File(i, "runnable.goto"), File(i, "runnable.c"), deps)
               ELSE <<>>
    PROVE  IsSeq(s) /\ \A c \in Elements(s) : CommandOK(i, c) /\ Before(i, a, c)
<1> DEFINE x == compile_single_rust_file(i, a, "runnable.json", TRUE)
           y == symbol_table_to_gotoc(i, "runnable.json", "runnable.out")
           z == link_c_lib(i, "runnable.out", "runnable.goto")
           w == <<x, y, z>>
           g == run_goto_instrument(File(i, "runnable.goto"), File(i, "runnable.c"), deps)
<1>1. CASE a.gen_c_runnable
  <2>1. CommandOK(i, x) /\ Before(i, a, x)
    BY <1>1, CompileOK, Zenon
  <2>2. CommandOK(i, y) /\ Before(i, a, y)
    BY ConvertOK, Zenon DEF symbol_table_to_gotoc
  <2>3. CommandOK(i, z) /\ Before(i, a, z)
    BY ConvertOK, Zenon DEF link_c_lib
  <2>4. IsSeq(g) /\ \A c \in Elements(g) : CommandOK(i, c) /\ Before(i, a, c)
    BY InstrumentOK, Zenon
  <2>5. s = w \o g
    BY <1>1
  <2> HIDE DEF x, y, z, g
  <2>6. IsSeq(w) /\ Elements(w) = {x, y, z}
    BY Three
  <2> HIDE DEF w
  <2>7. IsSeq(s) /\ Elements(s) = Elements(w) \cup Elements(g)
    BY <2>4, <2>5, <2>6, Concat, Zenon DEF Joined
  <2> QED BY <2>1, <2>2, <2>3, <2>4, <2>6, <2>7, Zenon
<1>2. CASE ~a.gen_c_runnable
  <2>1. s = <<>> /\ IsSeq(s) /\ Elements(s) = {}
    BY <1>2 DEF IsSeq, Elements
  <2> QED BY <2>1, Zenon
<1> QED BY <1>1, <1>2, Zenon

(* The commands that check for undefined functions or only add the library *)
(* model.                                                                  *)
LEMMA UndefinedOK ==
    ASSUME NEW i \in Inputs, NEW a, NEW r, NEW s,
           s = IF a.undefined_function_checks
               THEN run_goto_instrument(File(i, "goto"), File(i, "goto"), r)
                    \o run_goto_instrument(File(i, "goto"), File(i, "goto"), r)
               ELSE run_goto_instrument(File(i, "goto"), File(i, "goto"), None)
    PROVE  IsSeq(s) /\ \A c \in Elements(s) : CommandOK(i, c) /\ After(i, a, c)
<1> DEFINE g(x) == run_goto_instrument(File(i, "goto"), File(i, "goto"), x)
<1>1. \A x : IsSeq(g(x)) /\ \A c \in Elements(g(x)) : CommandOK(i, c) /\ After(i, a, c)
  BY InstrumentOK, Zenon
<1>2. s = g(r) \o g(r) \/ s = g(None)
  OBVIOUS
<1> HIDE DEF g
<1>3. CASE s = g(r) \o g(r)
  <2>1. IsSeq(s) /\ Elements(s) = Elements(g(r)) \cup Elements(g(r))
    BY <1>1, <1>3, Concat, Zenon DEF Joined
  <2> QED BY <1>1, <2>1
<1>4. CASE s = g(None)
  BY <1>1, <1>4, Zenon
<1> QED BY <1>2, <1>3, <1>4

LEMMA MainPlan ==
    ASSUME NEW i \in Inputs, NEW a, NEW s, s = main(i, a)
    PROVE  /\ IsSeq(s) /\ \A c \in Elements(s) : CommandOK(i, c) /\ c.on_failure = "error"
           /\ \E n \in Nat : Planned(i, a, s, n)
           /\ a.gen_c => \E c \in Elements(s) : File(i, "c") \in c.out
           /\ a.gen_symbols => \E c \in Elements(s) : File(i, "symbols") \in c.out
<1> DEFINE goto == File(i, "goto")
           restrictions == IF a.restrict_vtable THEN File(i, "restrictions") ELSE None
           deps == IF a.restrict_vtable THEN Deps ELSE None
           P == IF a.gen_c_runnable
                THEN <<compile_single_rust_file(i, a, "runnable.json", TRUE),
                       symbol_table_to_gotoc(i, "runnable.json", "runnable.out"),
                       link_c_lib(i, "runnable.out", "runnable.goto")>>
                     \o run_goto_instrument(File(i, "runnable.goto"), File(i, "runnable.c"), deps)
                ELSE <<>>
           M == <<compile_single_rust_file(i, a, "symtab", FALSE),
                  symbol_table_to_gotoc(i, "symtab", "out"), link_c_lib(i, "out", "goto")>>
           C == IF a.gen_c THEN run_goto_instrument(goto, File(i, "c"), restrictions) ELSE <<>>
           S == IF a.gen_symbols THEN run_goto_instrument(goto, File(i, "symbols"), None) ELSE <<>>
           U == IF a.undefined_function_checks
                THEN run_goto_instrument(goto, goto, restrictions)
                     \o run_goto_instrument(goto, goto, restrictions)
                ELSE run_goto_instrument(goto, goto, None)
           s1 == P \o M
           s2 == s1 \o C
           s3 == s2 \o S
<1>1. s = s3 \o U
  BY DEF main
<1>2. IsSeq(P) /\ \A c \in Elements(P) : CommandOK(i, c) /\ Before(i, a, c)
  BY RunnableOK, Zenon
<1>3. /\ IsSeq(C) /\ \A c \in Elements(C) : CommandOK(i, c) /\ After(i, a, c)
      /\ a.gen_c => \E c \in Elements(C) : File(i, "c") \in c.out
  BY Optional, Zenon
<1>4. /\ IsSeq(S) /\ \A c \in Elements(S) : CommandOK(i, c) /\ After(i, a, c)
      /\ a.gen_symbols => \E c \in Elements(S) : File(i, "symbols") \in c.out
  BY Optional, Zenon
<1>5. IsSeq(U) /\ \A c \in Elements(U) : CommandOK(i, c) /\ After(i, a, c)
  BY UndefinedOK, Zenon
<1>6. M = <<Compile(i, a), Convert(i), Link(i)>>
  BY DEF Compile, Convert, Link
<1> HIDE DEF P, M, C, S, U
<1>7. IsSeq(M) /\ Len(M) = 3 /\ M[1] = Compile(i, a) /\ M[2] = Convert(i) /\ M[3] = Link(i)
      /\ Elements(M) = {Compile(i, a), Convert(i), Link(i)}
  BY <1>6, Three
<1>8. \A c \in Elements(M) : CommandOK(i, c) /\ Before(i, a, c)
  <2>1. CommandOK(i, Compile(i, a)) /\ Before(i, a, Compile(i, a))
    BY CompileOK, Zenon DEF Compile
  <2>2. CommandOK(i, Convert(i)) /\ Before(i, a, Convert(i))
    BY ConvertOK, Zenon DEF Convert, symbol_table_to_gotoc
  <2>3. CommandOK(i, Link(i)) /\ Before(i, a, Link(i))
    BY ConvertOK, Zenon DEF Link, link_c_lib
  <2> QED BY <1>7, <2>1, <2>2, <2>3
<1>9. /\ IsSeq(s1) /\ Len(s1) = Len(P) + 3 /\ Elements(s1) = Elements(P) \cup Elements(M)
      /\ \A k \in 1 .. Len(P) : s1[k] = P[k]
      /\ \A k \in 1 .. 3 : s1[Len(P) + k] = M[k]
  <2>1. Joined(P, M, s1)
    BY <1>2, <1>7, Concat
  <2> QED BY <2>1, <1>7 DEF Joined
<1> HIDE DEF s1
<1>10. /\ IsSeq(s2) /\ Len(s2) = Len(s1) + Len(C) /\ Elements(s2) = Elements(s1) \cup Elements(C)
       /\ \A k \in 1 .. Len(s1) : s2[k] = s1[k]
       /\ \A k \in Len(s1) + 1 .. Len(s2) : s2[k] \in Elements(C)
  <2>1. Joined(s1, C, s2)
    BY <1>3, <1>9, Concat
  <2> QED BY <2>1 DEF Joined
<1> HIDE DEF s2
<1>11. /\ IsSeq(s3) /\ Len(s3) = Len(s2) + Len(S) /\ Elements(s3) = Elements(s2) \cup Elements(S)
       /\ \A k \in 1 .. Len(s2) : s3[k] = s2[k]
       /\ \A k \in Len(s2) + 1 .. Len(s3) : s3[k] \in Elements(S)
  <2>1. Joined(s2, S, s3)
    BY <1>4, <1>10, Concat
  <2> QED BY <2>1 DEF Joined
<1> HIDE DEF s3
<1>12. /\ IsSeq(s) /\ Len(s) = Len(s3) + Len(U) /\ Elements(s) = Elements(s3) \cup Elements(U)
       /\ \A k \in 1 .. Len(s3) : s[k] = s3[k]
       /\ \A k \in Len(s3) + 1 .. Len(s) : s[k] \in Elements(U)
  <2>1. Joined(s3, U, s)
    BY <1>1, <1>5, <1>11, Concat
  <2> QED BY <2>1 DEF Joined
<1>13. Elements(s) = Elements(P) \cup Elements(M) \cup Elements(C) \cup Elements(S) \cup Elements(U)
  BY <1>9, <1>10, <1>11, <1>12
<1>14. \A c \in Elements(s) : CommandOK(i, c) /\ c.on_failure = "error"
  BY <1>2, <1>3, <1>4, <1>5, <1>8, <1>13 DEF Before, After
<1>15. /\ Len(P) \in Nat /\ Len(s1) \in Nat /\ Len(s2) \in Nat /\ Len(s3) \in Nat /\ Len(s) \in Nat
       /\ Len(C) \in Nat /\ Len(S) \in Nat /\ Len(U) \in Nat
  BY <1>2, <1>3, <1>4, <1>5, <1>9, <1>10, <1>11, <1>12, Indices
<1>16. Len(P) + 3 = Len(s1) /\ Len(s1) <= Len(s2) /\ Len(s2) <= Len(s3) /\ Len(s3) <= Len(s)
  BY <1>9, <1>10, <1>11, <1>12, <1>15
<1>17. Planned(i, a, s, Len(P))
  <2>1. \A k \in 1 .. Len(s1) : s[k] = s1[k]
    BY <1>10, <1>11, <1>12, <1>15, <1>16
  <2>2. ASSUME NEW k \in 1 .. Len(P) PROVE Before(i, a, s[k])
    <3>1. s[k] = P[k] /\ k \in DOMAIN P
      BY <1>2, <1>9, <1>15, <1>16, <2>1, Indices
    <3> QED BY <1>2, <3>1 DEF Elements
  <2>3. s[Len(P) + 1] = Compile(i, a) /\ s[Len(P) + 2] = Convert(i) /\ s[Len(P) + 3] = Link(i)
    BY <1>7, <1>9, <1>15, <1>16, <2>1
  <2>4. ASSUME NEW k \in Len(P) + 4 .. Len(s) PROVE After(i, a, s[k])
    <3>1. CASE k \in 1 .. Len(s2)
      <4>1. s[k] = s2[k] /\ k \in Len(s1) + 1 .. Len(s2)
        BY <1>11, <1>12, <1>15, <1>16, <3>1
      <4> QED BY <1>3, <1>10, <4>1
    <3>2. CASE k \in Len(s2) + 1 .. Len(s3)
      <4>1. s[k] = s3[k]
        BY <1>12, <1>15, <1>16, <3>2
      <4> QED BY <1>4, <1>11, <3>2, <4>1
    <3>3. CASE k \in Len(s3) + 1 .. Len(s)
      BY <1>5, <1>12, <3>3
    <3> QED BY <1>15, <1>16, <3>1, <3>2, <3>3
  <2> QED BY <1>15, <1>16, <2>2, <2>3, <2>4 DEF Planned
<1> QED BY <1>3, <1>4, <1>12, <1>13, <1>14, <1>15, <1>17

(* The commands of --visualize after CBMC.                                 *)
LEMMA VisualizeOK ==
    ASSUME NEW i \in Inputs, NEW s, s = run_visualize(i)
    PROVE  /\ IsSeq(s)
           /\ \A c \in Elements(s) :
                 /\ CommandOK(i, c) /\ c.on_failure # "error"
                 /\ \A f \in c.out : f.of = Dir /\ f.kind \in {"coverage", "property", "report"}
                                     /\ f = File(Dir, f.kind)
<1> DEFINE goto == File(i, "goto")
           To(kind) == [Command(goto, {File(Dir, kind)}, {}) EXCEPT !.on_failure = "keep output"]
           reads == {goto} \cup {File(Dir, k) : k \in {"results", "coverage", "property"}}
           x == To("coverage")
           y == To("property")
           z == [Command(File(Dir, "results"), {File(Dir, "report")}, {}) EXCEPT
                    !.on_failure = "ignore", !.reads = reads]
<1>1. s = <<x, y, z>>
  BY Zenon DEF run_visualize
<1>2. \A kind : /\ To(kind).main = goto /\ To(kind).reads = {goto} /\ To(kind).out = {File(Dir, kind)}
                /\ To(kind).temps = {} /\ To(kind).gen_c = FALSE
                /\ To(kind).on_failure = "keep output"
  <2> TAKE kind
  <2> DEFINE c0 == Command(goto, {File(Dir, kind)}, {})
  <2>1. /\ DOMAIN c0 = Fields /\ c0.main = goto /\ c0.reads = {goto} /\ c0.out = {File(Dir, kind)}
        /\ c0.temps = {} /\ c0.gen_c = FALSE
    BY DEF Command, Fields
  <2> HIDE DEF c0
  <2>2. To(kind) = [c0 EXCEPT !.on_failure = "keep output"]
    BY DEF c0
  <2> HIDE DEF To
  <2> QED BY <2>1, <2>2, Zenon DEF Fields
<1>3. /\ z.main = File(Dir, "results") /\ z.reads = reads /\ z.out = {File(Dir, "report")}
      /\ z.temps = {} /\ z.gen_c = FALSE /\ z.on_failure = "ignore"
  <2> DEFINE c0 == Command(File(Dir, "results"), {File(Dir, "report")}, {})
  <2>1. /\ DOMAIN c0 = Fields /\ c0.main = File(Dir, "results") /\ c0.out = {File(Dir, "report")}
        /\ c0.temps = {} /\ c0.gen_c = FALSE
    BY DEF Command, Fields
  <2> HIDE DEF c0
  <2>2. z = [c0 EXCEPT !.on_failure = "ignore", !.reads = reads]
    BY DEF c0
  <2> HIDE DEF z, reads
  <2> QED BY <2>1, <2>2 DEF Fields
<1>4. File(Dir, "results") \in reads
  OBVIOUS
<1> HIDE DEF x, y, z, reads
<1>5. \A kind \in {"coverage", "property", "report"} :
         LET f == File(Dir, kind) IN /\ Mine(i, f) /\ f.of = Dir /\ f.kind = kind
  BY FileFields DEF Mine
<1>6. /\ x.main \in x.reads /\ x.gen_c = FALSE /\ x.on_failure # "error" /\ x.temps = {}
      /\ x.out = {File(Dir, "coverage")}
  BY <1>2 DEF x
<1>7. /\ y.main \in y.reads /\ y.gen_c = FALSE /\ y.on_failure # "error" /\ y.temps = {}
      /\ y.out = {File(Dir, "property")}
  BY <1>2 DEF y
<1>8. /\ z.main \in z.reads /\ z.gen_c = FALSE /\ z.on_failure # "error" /\ z.temps = {}
      /\ z.out = {File(Dir, "report")}
  BY <1>3, <1>4
<1>9. IsSeq(s) /\ Elements(s) = {x, y, z}
  BY <1>1, Three
<1>10. ASSUME NEW c \in {x, y, z}
       PROVE  /\ CommandOK(i, c) /\ c.on_failure # "error"
              /\ \A f \in c.out : /\ f.of = Dir /\ f.kind \in {"coverage", "property", "report"}
                                  /\ f = File(Dir, f.kind)
  <2>1. /\ c.main \in c.reads /\ c.gen_c = FALSE /\ c.on_failure # "error" /\ c.temps = {}
        /\ \E kind \in {"coverage", "property", "report"} : c.out = {File(Dir, kind)}
    BY <1>6, <1>7, <1>8
  <2> QED BY <1>5, <2>1, Zenon DEF CommandOK
<1> QED BY <1>9, <1>10

-----------------------------------------------------------------------------
(* A step of one run: the others keep their invariants.                    *)
LEMMA Others ==
    ASSUME IInv, NEW j \in Jobs, Running(j), Store', Apart(job[j].input),
           \A x \in Inputs : files'[File(x, "rs")] = files[File(x, "rs")],
           \A k \in Jobs \ {j} : job'[k] = job[k], job'[j].input = job[j].input
    PROVE  \A k \in Jobs \ {j} : JobInv(k)'
<1> TAKE k \in Jobs \ {j}
<1>1. Process(k) /\ Process(j)
  BY DEF IInv, JobInv
<1>2. DOMAIN job'[k] = DOMAIN NoRun /\ \A f \in DOMAIN NoRun \ {"shared"} : job'[k][f] = job[k][f]
  BY <1>1 DEF Process
<1>3. \A f \in DOMAIN files : f.kind \in {"c", "symbols"} => f \in DOMAIN files'
  BY DEF Apart
<1>4. Running(k) => \A kind \in {"symtab", "out", "goto"} :
         LET f == File(job[k].input, kind)
         IN  f \in DOMAIN files => f \in DOMAIN files' /\ files'[f] = files[f]
  BY <1>1, FileFields, DriverAssumption DEF Apart, Process
<1>5. Running(k) => files[File(job[k].input, "rs")].origin.version
                       <= files'[File(job[k].input, "rs")].origin.version
  <2>1. Running(k) => /\ files[File(job[k].input, "rs")].origin.version \in Nat
                      /\ files'[File(job[k].input, "rs")] = files[File(job[k].input, "rs")]
    BY <1>1 DEF Process, IInv, Store
  <2> QED BY <2>1
<1>6. Running(k) => \A l \in Jobs : l # k /\ Running(l)' => job'[l].input # job[k].input
  BY <1>1 DEF Process, Running
<1> QED BY <1>2, <1>3, <1>4, <1>5, <1>6, OtherJob

LEMMA SeqOfElements == ASSUME NEW S, NEW s \in Seq(S) PROVE IsSeq(s)
<1>1. Len(s) \in Nat /\ s \in [1 .. Len(s) -> S]
  OBVIOUS
<1>2. \A k \in 1 .. Len(s) : s[k] \in Elements(s)
  BY <1>1 DEF Elements
<1>3. s \in [1 .. Len(s) -> Elements(s)]
  BY <1>1, <1>2
<1> QED BY <1>1, <1>3 DEF IsSeq

LEMMA TailFacts ==
    ASSUME NEW s, IsSeq(s), s # <<>>
    PROVE  /\ Head(s) = s[1] /\ 1 \in DOMAIN s /\ IsSeq(Tail(s)) /\ Len(s) \in Nat \ {0}
           /\ Len(Tail(s)) = Len(s) - 1 /\ DOMAIN Tail(s) = 1 .. Len(s) - 1
           /\ DOMAIN s = 1 .. Len(s)
           /\ \A k \in 1 .. Len(s) - 1 : Tail(s)[k] = s[k + 1] /\ k + 1 \in DOMAIN s
<1> DEFINE t == Tail(s)
<1>1. s \in Seq(Elements(s)) /\ Len(s) \in Nat \ {0} /\ DOMAIN s = 1 .. Len(s) /\ Head(s) = s[1]
  BY DEF IsSeq
<1>2. /\ t \in Seq(Elements(s)) /\ Len(t) = Len(s) - 1 /\ DOMAIN t = 1 .. Len(s) - 1
      /\ \A k \in 1 .. Len(s) - 1 : t[k] = s[k + 1]
  BY <1>1
<1> HIDE DEF t
<1>3. IsSeq(t)
  BY <1>2, SeqOfElements
<1>4. 1 \in DOMAIN s /\ \A k \in 1 .. Len(s) - 1 : k + 1 \in DOMAIN s
  BY <1>1
<1> QED BY <1>1, <1>2, <1>3, <1>4 DEF t

(* A command of j has been run: what it does to the files and to the job.  *)
Ran(j, cmd) ==
    /\ Running(j) /\ job[j].todo # <<>> /\ cmd = job[j].todo[1]
    /\ \A f \in cmd.reads : Exists(f)
    /\ \A f \in cmd.out : f \in DOMAIN files' /\ files'[f] = Result(cmd)
    /\ \A f \in DOMAIN files : f \in DOMAIN files' /\ (f \notin cmd.out => files'[f] = files[f])
    /\ job'[j].todo = Tail(job[j].todo) /\ job'[j].input = job[j].input
    /\ job'[j].args = job[j].args /\ job'[j].started = job[j].started
    /\ job'[j].atexit = job[j].atexit \cup (IF job[j].args.keep_temps THEN {} ELSE cmd.temps)

LEMMA ResultOf ==
    ASSUME IInv, NEW cmd, \A f \in cmd.reads : Exists(f), cmd.main \in cmd.reads, cmd.gen_c \in BOOLEAN
    PROVE  /\ Result(cmd) \in Contents /\ Result(cmd).origin = files[cmd.main].origin
           /\ files[cmd.main].gen_c = FALSE /\ cmd.gen_c = FALSE => Result(cmd).gen_c = FALSE
<1> DEFINE c == files[cmd.main]
           r == IF Linked \in cmd.reads THEN files[Linked].origin ELSE c.restrictions
<1>1. c \in Contents /\ (Linked \in cmd.reads => files[Linked] \in Contents)
  BY DEF IInv, Store, Exists
<1>2. r \in Origins \cup {None} /\ c.gen_c \in BOOLEAN
  BY <1>1 DEF Contents
<1>3. Result(cmd) = [c EXCEPT !.gen_c = c.gen_c \/ cmd.gen_c, !.restrictions = r]
  BY DEF Result
<1> HIDE DEF c, r
<1>4. (c.gen_c \/ cmd.gen_c) \in BOOLEAN
  BY <1>2
<1>5. /\ Result(cmd) \in Contents /\ Result(cmd).origin = c.origin
      /\ Result(cmd).gen_c = (c.gen_c \/ cmd.gen_c)
  BY <1>1, <1>2, <1>3, <1>4, Zenon DEF Contents
<1> QED BY <1>5 DEF c

LEMMA FreshMade ==
    ASSUME IInv, NEW j \in Jobs, NEW cmd, Ran(j, cmd), NEW kind, NEW src,
           File(job[j].input, kind) \in cmd.out, cmd.main = File(job[j].input, src),
           cmd.gen_c = FALSE, src = "rs" \/ Fresh(j, src)
    PROVE  Fresh(j, kind)'
<1> DEFINE i == job[j].input
           c == files[File(i, src)]
<1>1. /\ i \in Inputs /\ job[j].started \in Nat /\ cmd.main \in cmd.reads
      /\ job[j].started <= files[File(i, "rs")].origin.version
  <2>1. Process(j) /\ Running(j) /\ 1 \in DOMAIN job[j].todo
    BY TailFacts, Zenon DEF IInv, JobInv, Process, Ran
  <2> QED BY <2>1 DEF Process, CommandOK, Ran
<1>2. /\ c.origin.src = i /\ c.gen_c = FALSE /\ c.origin.version \in Nat
      /\ c.origin.version >= job[j].started
  <2>1. CASE src = "rs"
    <3>1. c.gen_c = FALSE /\ c.origin.version \in Nat /\ c.origin = Origin(i, c.origin.version)
      BY <1>1, <2>1 DEF IInv, Store
    <3>2. c.origin.src = i
      BY <3>1 DEF Origin
    <3> QED BY <1>1, <2>1, <3>1, <3>2
  <2>2. CASE Fresh(j, src)
    BY <2>2 DEF Fresh
  <2> QED BY <2>1, <2>2, Zenon
<1>3. /\ files'[File(i, kind)] = Result(cmd) /\ File(i, kind) \in DOMAIN files'
      /\ Result(cmd).origin = c.origin /\ Result(cmd).gen_c = FALSE
  BY <1>1, <1>2, ResultOf, Zenon DEF Ran
<1>4. job'[j].input = i /\ job'[j].started = job[j].started
  BY DEF Ran
<1> HIDE DEF i, c
<1> QED BY <1>2, <1>3, <1>4 DEF Fresh, Exists

LEMMA Makers ==
    ASSUME NEW i \in Inputs, NEW a
    PROVE  /\ Before(i, a, Compile(i, a)) /\ Compile(i, a).gen_c = FALSE
           /\ Compile(i, a).main = File(i, "rs") /\ File(i, "symtab") \in Compile(i, a).out
           /\ Before(i, a, Convert(i)) /\ Convert(i).gen_c = FALSE
           /\ Convert(i).main = File(i, "symtab") /\ Convert(i).out = {File(i, "out")}
           /\ Before(i, a, Link(i)) /\ Link(i).gen_c = FALSE /\ Link(i).main = File(i, "out")
           /\ Link(i).out = {File(i, "goto")} /\ Link(i).temps = {File(i, "goto")}
<1>1. /\ Before(i, a, Compile(i, a)) /\ Compile(i, a).gen_c = FALSE
      /\ Compile(i, a).main = File(i, "rs") /\ File(i, "symtab") \in Compile(i, a).out
  BY CompileOK, Zenon DEF Compile
<1>2. /\ Before(i, a, Convert(i)) /\ Convert(i).gen_c = FALSE
      /\ Convert(i).main = File(i, "symtab") /\ Convert(i).out = {File(i, "out")}
  BY ConvertOK, Zenon DEF Convert, symbol_table_to_gotoc
<1>3. /\ Before(i, a, Link(i)) /\ Link(i).gen_c = FALSE /\ Link(i).main = File(i, "out")
      /\ Link(i).out = {File(i, "goto")} /\ Link(i).temps = {File(i, "goto")}
  BY ConvertOK, Zenon DEF Link, link_c_lib
<1> QED BY <1>1, <1>2, <1>3

(* The program takes shape: from one stage to the next.                    *)
LEMMA StageStep ==
    ASSUME IInv, NEW j \in Jobs, NEW cmd, Ran(j, cmd), Stage(j)
    PROVE  /\ Stage(j)'
           /\ ~job[j].args.keep_temps =>
                 \A f \in cmd.out : f \in job'[j].atexit \/ Stays(job[j].args, f)
<1> DEFINE i == job[j].input
           a == job[j].args
           s == job[j].todo
           t == Tail(s)
           Rest(u, n) == \A k \in n .. Len(u) : After(i, a, u[k])
<1>1. /\ i \in Inputs /\ IsSeq(s) /\ s # <<>> /\ CommandOK(i, cmd) /\ cmd = s[1]
      /\ cmd.main \in cmd.reads /\ cmd.gen_c \in BOOLEAN
  <2>1. Process(j) /\ Running(j) /\ 1 \in DOMAIN job[j].todo
    BY TailFacts DEF IInv, JobInv, Process, Ran
  <2> QED BY <2>1 DEF Process, CommandOK, Ran
<1>2. /\ Len(s) \in Nat \ {0} /\ Len(t) \in Nat /\ Len(t) = Len(s) - 1
      /\ \A k \in 1 .. Len(t) : t[k] = s[k + 1]
  BY <1>1, TailFacts
<1>3. job'[j].todo = t /\ job'[j].input = i /\ job'[j].args = a
  BY DEF Ran
<1>4. job'[j].atexit = job[j].atexit \cup (IF a.keep_temps THEN {} ELSE cmd.temps)
  BY DEF Ran
<1> HIDE DEF i, a, s, t
<1>5. \A n \in Nat : n >= 2 /\ Rest(s, n) => Rest(t, n - 1)
  BY <1>2
<1>6. Before(i, a, cmd) => (~a.keep_temps => \A f \in cmd.out : f \in job'[j].atexit \/ Stays(a, f))
  BY <1>4 DEF Before
<1>7. ASSUME NEW n \in Nat, Planned(i, a, s, n) PROVE Stage(j)' /\ Before(i, a, cmd)
  <2>1. CASE n = 0
    <3>1. /\ cmd = Compile(i, a) /\ s[2] = Convert(i) /\ s[3] = Link(i) /\ 3 <= Len(s) /\ Rest(s, 4)
      BY <1>1, <1>7, <2>1 DEF Planned
    <3>2. t[1] = Convert(i) /\ t[2] = Link(i) /\ 2 <= Len(t) /\ Rest(t, 3)
      BY <1>2, <1>5, <3>1
    <3>3. /\ Before(i, a, cmd) /\ cmd.gen_c = FALSE /\ cmd.main = File(i, "rs")
          /\ File(i, "symtab") \in cmd.out
      <4>1. i \in Inputs /\ cmd = Compile(i, a)
        BY <1>1, <3>1
      <4> QED BY <4>1, Makers, Zenon
    <3>4. Fresh(j, "symtab")'
      BY <3>3, FreshMade, Zenon DEF i
    <3> QED BY <1>3, <3>2, <3>3, <3>4 DEF Stage
  <2>2. CASE n # 0
    <3>1. n - 1 \in Nat /\ Before(i, a, cmd)
      BY <1>1, <1>7, <2>2 DEF Planned
    <3>2. n + 3 <= Len(s)
      BY <1>7 DEF Planned
    <3>3. \A k \in 1 .. n - 1 : Before(i, a, t[k])
      BY <1>2, <1>7, <3>2 DEF Planned
    <3>4. /\ t[(n - 1) + 1] = Compile(i, a) /\ t[(n - 1) + 2] = Convert(i)
          /\ t[(n - 1) + 3] = Link(i) /\ (n - 1) + 3 <= Len(t)
      BY <1>2, <1>7, <3>2, <2>2 DEF Planned
    <3>5. Rest(t, (n - 1) + 4)
      BY <1>2, <1>7, <3>2, <2>2 DEF Planned
    <3>6. Planned(i, a, t, n - 1)
      BY <3>3, <3>4, <3>5 DEF Planned
    <3> QED BY <1>3, <3>1, <3>6 DEF Stage
  <2> QED BY <2>1, <2>2
<1>8. ASSUME 2 <= Len(s), s[1] = Convert(i), s[2] = Link(i), Rest(s, 3), Fresh(j, "symtab")
      PROVE  Stage(j)' /\ Before(i, a, cmd)
  <2>1. t[1] = Link(i) /\ 1 <= Len(t) /\ Rest(t, 2)
    BY <1>2, <1>5, <1>8
  <2>2. /\ Before(i, a, cmd) /\ cmd.gen_c = FALSE /\ cmd.main = File(i, "symtab")
        /\ cmd.out = {File(i, "out")}
    BY <1>1, <1>8, Makers, Zenon
  <2>3. Fresh(j, "out")'
    BY <1>8, <2>2, FreshMade, Zenon DEF i
  <2> QED BY <1>3, <2>1, <2>2, <2>3 DEF Stage
<1>9. ASSUME 1 <= Len(s), s[1] = Link(i), Rest(s, 2), Fresh(j, "out")
      PROVE  Stage(j)' /\ Before(i, a, cmd)
  <2>1. Rest(t, 1)
    BY <1>2, <1>5, <1>9
  <2>2. /\ Before(i, a, cmd) /\ cmd.gen_c = FALSE /\ cmd.main = File(i, "out")
        /\ cmd.out = {File(i, "goto")} /\ cmd.temps = {File(i, "goto")}
    BY <1>1, <1>9, Makers, Zenon
  <2>3. Fresh(j, "goto")'
    BY <1>9, <2>2, FreshMade, Zenon DEF i
  <2>4. a.keep_temps \/ File(i, "goto") \in job'[j].atexit
    BY <1>4, <2>2
  <2> QED BY <1>3, <2>1, <2>2, <2>3, <2>4 DEF Stage
<1>10. ASSUME Rest(s, 1), Fresh(j, "goto"), a.keep_temps \/ File(i, "goto") \in job[j].atexit
       PROVE  /\ Stage(j)'
              /\ ~a.keep_temps => \A f \in cmd.out : f \in job'[j].atexit \/ Stays(a, f)
  <2>1. Rest(t, 1)
    BY <1>2, <1>10
  <2>2. After(i, a, cmd)
    BY <1>1, <1>2, <1>10
  <2>3. Fresh(j, "goto")'
    <3>1. CASE File(i, "goto") \in cmd.out
      <4>1. cmd.main = File(i, "goto") /\ cmd.gen_c = FALSE
        BY <2>2, <3>1 DEF After
      <4> QED BY <1>10, <3>1, <4>1, FreshMade, Zenon DEF i
    <3>2. CASE File(i, "goto") \notin cmd.out
      <4>1. Exists(File(i, "goto")) /\ Exists(File(i, "goto"))'
            /\ files'[File(i, "goto")] = files[File(i, "goto")] /\ job'[j].started = job[j].started
        BY <1>10, <3>2 DEF Ran, Fresh, Exists, i
      <4> QED BY <1>3, <1>10, <4>1 DEF Fresh, i
    <3> QED BY <3>1, <3>2
  <2>4. a.keep_temps \/ File(i, "goto") \in job'[j].atexit
    BY <1>4, <1>10
  <2>5. ~a.keep_temps => \A f \in cmd.out : f \in job'[j].atexit \/ Stays(a, f)
    BY <2>2, <2>4 DEF After
  <2> QED BY <1>3, <2>1, <2>3, <2>4, <2>5 DEF Stage
<1>11. Stage(j)' /\ (~a.keep_temps => \A f \in cmd.out : f \in job'[j].atexit \/ Stays(a, f))
  BY <1>6, <1>7, <1>8, <1>9, <1>10, Zenon DEF Stage, i, a, s
<1> QED BY <1>11 DEF a

-----------------------------------------------------------------------------
(* One lemma for every action.                                             *)
LEMMA SucceedIInv ==
    ASSUME IInv, NEW j \in Jobs, Running(j), job[j].todo # <<>>,
           NEW cmd, cmd = Head(job[j].todo), Succeed(j, cmd)
    PROVE  IInv'
<1> DEFINE i == job[j].input
           a == job[j].args
           s == job[j].todo
           out == IF a.dry_run THEN {} ELSE cmd.out
<1>1. /\ JobInv(j) /\ i \in Inputs /\ IsSeq(s) /\ CommandOK(i, cmd) /\ cmd = s[1]
      /\ a.dry_run \in BOOLEAN /\ a.keep_temps \in BOOLEAN
      /\ \A k \in DOMAIN s : CommandOK(i, s[k])
  <2>1. JobInv(j) /\ Process(j) /\ 1 \in DOMAIN s /\ cmd = s[1]
    BY TailFacts DEF IInv, JobInv, Process
  <2> QED BY <2>1, DriverAssumption, Zenon DEF Process
<1>2. /\ IsSeq(Tail(s)) /\ Len(s) \in Nat \ {0} /\ DOMAIN s = 1 .. Len(s)
      /\ DOMAIN Tail(s) = 1 .. Len(s) - 1
      /\ \A k \in 1 .. Len(s) - 1 : Tail(s)[k] = s[k + 1] /\ k + 1 \in DOMAIN s
  BY <1>1, TailFacts
<1>3. /\ files' = Write(out, Result(cmd))
      /\ a.dry_run \/ \A f \in cmd.reads : Exists(f)
      /\ DOMAIN job' = Jobs /\ DOMAIN job'[j] = DOMAIN NoRun
      /\ \A k \in Jobs \ {j} : job'[k] = job[k]
      /\ \A x \in {"status", "input", "args", "retcode", "started", "checked"} : job'[j][x] = job[j][x]
      /\ job'[j].todo = Tail(s) /\ job'[j].made = job[j].made \cup out
      /\ job'[j].atexit = job[j].atexit \cup (IF a.keep_temps THEN {} ELSE cmd.temps)
  <2>1. DOMAIN job = Jobs /\ DOMAIN job[j] = DOMAIN NoRun
    BY <1>1 DEF IInv, JobInv, Process
  <2> QED BY <2>1 DEF Succeed, NoRun
<1>4. out # {} => Result(cmd) \in Contents
  BY <1>1, <1>3, ResultOf, Zenon DEF CommandOK
<1>5. /\ Store' /\ Apart(i)
      /\ \A f \in out : f \in DOMAIN files' /\ files'[f] = Result(cmd)
      /\ \A f \in DOMAIN files : f \in DOMAIN files' /\ (f \notin out => files'[f] = files[f])
      /\ \A x \in Inputs : files'[File(x, "rs")] = files[File(x, "rs")]
  <2>1. \A f \in out : Mine(i, f)
    BY <1>1 DEF CommandOK
  <2>2. i \in Inputs /\ files' = Write(out, Result(cmd))
    BY <1>1, <1>3, Zenon
  <2> HIDE DEF out, i
  <2> QED BY <1>4, <2>1, <2>2, WriteFiles
<1>6. ~a.dry_run => Ran(j, cmd)
  BY <1>1, <1>3, <1>5, Zenon DEF Ran
<1>7. \A k \in Jobs \ {j} : JobInv(k)'
  BY <1>3, <1>5, Others, Zenon
<1> HIDE DEF i, a, s, out
<1>8. Process(j)'
  <2>1. \A k \in DOMAIN Tail(s) : CommandOK(i, Tail(s)[k])
    BY <1>1, <1>2, Zenon
  <2>2. \A f \in job'[j].atexit : Temporary(i, f)
    BY <1>1, <1>3, Zenon DEF CommandOK, JobInv, Process, i
  <2>3. Process(j)
    BY <1>1 DEF JobInv
  <2> QED BY <1>2, <1>3, <1>5, <2>1, <2>2, <2>3, Zenon DEF Process, Running, i, a, s
<1>9. Working(j)' /\ (job[j].retcode = None /\ ~a.dry_run /\ ~a.keep_temps =>
                         \A f \in out : f \in job'[j].atexit \/ Stays(a, f))
  <2> SUFFICES ASSUME job[j].retcode = None
               PROVE  Working(j)' /\ (~a.dry_run /\ ~a.keep_temps =>
                                         \A f \in out : f \in job'[j].atexit \/ Stays(a, f))
    BY <1>3, Zenon DEF Working, a
  <2>1. Working(j) /\ Running(j) /\ job[j].retcode = None
    BY <1>1 DEF JobInv
  <2>2. ~a.dry_run => Stage(j)
    BY <2>1 DEF Working, a
  <2>3. ~a.dry_run => /\ Stage(j)'
                      /\ ~a.keep_temps => \A f \in out : f \in job'[j].atexit \/ Stays(a, f)
    BY <1>6, <2>2, StageStep DEF a, out
  <2>4. \A k \in DOMAIN Tail(s) : Tail(s)[k].on_failure = "error"
    BY <1>2, <2>1, Zenon DEF Working, s
  <2>5. ASSUME NEW kind, ~a.dry_run, Coming(j, kind) PROVE Coming(j, kind)'
    <3>1. CASE Exists(File(i, kind))
      BY <1>3, <1>5, <3>1 DEF Coming, Exists, i
    <3>2. CASE File(i, kind) \in cmd.out
      BY <1>3, <1>5, <2>5, <3>2, Zenon DEF Coming, Exists, i, out
    <3>3. ASSUME NEW k \in DOMAIN s, File(i, kind) \in s[k].out, k # 1 PROVE Coming(j, kind)'
      <4>1. k - 1 \in DOMAIN Tail(s) /\ Tail(s)[k - 1] = s[k]
        BY <1>2, <3>3
      <4> QED BY <1>3, <3>3, <4>1 DEF Coming, i
    <3> QED BY <1>1, <2>5, <3>1, <3>2, <3>3, Zenon DEF Coming, i, s
  <2>6. Working(j)'
    BY <1>3, <2>1, <2>3, <2>4, <2>5, Zenon DEF Working, Running, a
  <2> QED BY <2>3, <2>6
<1>10. Reporting(j)' /\ (job[j].retcode # None /\ ~a.keep_temps =>
                            \A f \in out : f \in job'[j].atexit \/ Stays(a, f))
  <2> SUFFICES ASSUME job[j].retcode # None
               PROVE  Reporting(j)' /\ (~a.keep_temps =>
                                           \A f \in out : f \in job'[j].atexit \/ Stays(a, f))
    BY <1>3 DEF Reporting, a
  <2>1. \A k \in DOMAIN s : Report(a, job'[j].atexit, s[k])
    <3>1. \A k \in DOMAIN s : Report(a, job[j].atexit, s[k])
      BY <1>1 DEF JobInv, Reporting, a, s
    <3>2. job[j].atexit \subseteq job'[j].atexit
      BY <1>3
    <3> QED BY <3>1, <3>2 DEF Report
  <2>2. Reporting(j)'
    <3>1. \A k \in DOMAIN Tail(s) : Report(a, job'[j].atexit, Tail(s)[k])
      BY <1>2, <2>1
    <3>2. job'[j].todo = Tail(s) /\ job'[j].args = a
      BY <1>3 DEF a
    <3> QED BY <3>1, <3>2 DEF Reporting
  <2>3. 1 \in DOMAIN s
    BY <1>2
  <2>4. Report(a, job'[j].atexit, cmd)
    BY <1>1, <2>1, <2>3
  <2>5. out \subseteq cmd.out
    BY DEF out
  <2> QED BY <2>2, <2>4, <2>5 DEF Report
<1>11. Registered(j)'
  <2>1. a.dry_run => out = {}
    BY DEF out
  <2>2. ~a.keep_temps => \A f \in out : f \in job'[j].atexit \/ Stays(a, f)
    BY <1>9, <1>10, <2>1
  <2>3. Registered(j)
    BY <1>1 DEF JobInv
  <2> QED BY <1>3, <2>2, <2>3 DEF Registered, Running, a
<1>12. Verdict(j)'
  <2>1. Verdict(j)
    BY <1>1 DEF JobInv
  <2> QED BY <1>3, <1>5, <2>1 DEF Verdict, Exists
<1> QED BY <1>3, <1>5, <1>7, <1>8, <1>9, <1>10, <1>11, <1>12, Zenon DEF IInv, JobInv

LEMMA FailIInv ==
    ASSUME IInv, NEW j \in Jobs, Running(j), job[j].todo # <<>>,
           NEW cmd, cmd = Head(job[j].todo), Fail(j, cmd)
    PROVE  IInv'
<1> DEFINE i == job[j].input
           a == job[j].args
           s == job[j].todo
           kept == IF cmd.on_failure = "keep output" THEN cmd.out ELSE {}
<1>1. /\ JobInv(j) /\ i \in Inputs /\ IsSeq(s) /\ CommandOK(i, cmd) /\ cmd = s[1]
      /\ a.dry_run \in BOOLEAN /\ a.keep_temps \in BOOLEAN
      /\ \A k \in DOMAIN s : CommandOK(i, s[k])
  <2>1. JobInv(j) /\ Process(j) /\ 1 \in DOMAIN s /\ cmd = s[1]
    BY TailFacts DEF IInv, JobInv, Process
  <2> QED BY <2>1, DriverAssumption DEF Process
<1>2. /\ IsSeq(Tail(s)) /\ Len(s) \in Nat \ {0} /\ DOMAIN s = 1 .. Len(s)
      /\ DOMAIN Tail(s) = 1 .. Len(s) - 1
      /\ \A k \in 1 .. Len(s) - 1 : Tail(s)[k] = s[k + 1] /\ k + 1 \in DOMAIN s
  BY <1>1, TailFacts
<1>3. /\ files' = Write(kept, Broken)
      /\ DOMAIN job' = Jobs /\ DOMAIN job'[j] = DOMAIN NoRun
      /\ \A k \in Jobs \ {j} : job'[k] = job[k]
      /\ \A x \in {"status", "input", "args", "started", "checked"} : job'[j][x] = job[j][x]
      /\ job'[j].todo = (IF cmd.on_failure = "error" THEN <<>> ELSE Tail(s))
      /\ job'[j].retcode = (IF cmd.on_failure = "error" THEN 1 ELSE job[j].retcode)
      /\ job'[j].made = job[j].made \cup kept
      /\ job'[j].atexit = job[j].atexit \cup (IF a.keep_temps THEN {} ELSE cmd.temps)
  <2>1. DOMAIN job = Jobs /\ DOMAIN job[j] = DOMAIN NoRun
    BY <1>1 DEF IInv, JobInv, Process
  <2> QED BY <2>1, Zenon DEF Fail, NoRun
<1>4. Broken \in Contents
  BY DEF Broken, Content, Contents
<1>5. /\ Store' /\ Apart(i)
      /\ \A f \in DOMAIN files : f \in DOMAIN files' /\ (f \notin kept => files'[f] = files[f])
      /\ \A x \in Inputs : files'[File(x, "rs")] = files[File(x, "rs")]
  <2>1. \A f \in kept : Mine(i, f)
    BY <1>1, Zenon DEF CommandOK
  <2>2. i \in Inputs /\ files' = Write(kept, Broken)
    BY <1>1, <1>3, Zenon
  <2> HIDE DEF kept, i
  <2> QED BY <1>4, <2>1, <2>2, WriteFiles
<1>6. \A k \in Jobs \ {j} : JobInv(k)'
  BY <1>3, <1>5, Others, Zenon
<1>7. 1 \in DOMAIN s
  BY <1>2
<1>8. kept \subseteq cmd.out
  BY Zenon
<1>9. cmd.on_failure = "error" => kept = {}
  BY Zenon
<1> HIDE DEF i, a, s, kept
<1>10. job[j].retcode = None => cmd.on_failure = "error"
  BY <1>1, <1>7 DEF JobInv, Working, s
<1>11. Process(j)'
  <2>1. IsSeq(job'[j].todo) /\ \A k \in DOMAIN job'[j].todo : CommandOK(i, job'[j].todo[k])
    <3>1. CASE cmd.on_failure = "error"
      <4>1. job'[j].todo = <<>>
        BY <1>3, <3>1
      <4> QED BY <4>1 DEF IsSeq
    <3>2. CASE cmd.on_failure # "error"
      <4>1. job'[j].todo = Tail(s)
        BY <1>3, <3>2
      <4> QED BY <1>1, <1>2, <4>1
    <3> QED BY <3>1, <3>2
  <2>2. \A f \in job'[j].atexit : Temporary(i, f)
    BY <1>1, <1>3, Zenon DEF CommandOK, JobInv, Process, i
  <2>3. Process(j)
    BY <1>1 DEF JobInv
  <2> QED BY <1>3, <1>5, <2>1, <2>2, <2>3, Zenon DEF Process, Running, i
<1>12. Working(j)'
  <2>1. job'[j].retcode # None
    BY <1>3, <1>10, DriverAssumption
  <2> QED BY <2>1 DEF Working
<1>13. Reporting(j)' /\ (~a.keep_temps => \A f \in kept : f \in job'[j].atexit \/ Stays(a, f))
  <2>1. CASE cmd.on_failure = "error"
    <3>1. job'[j].todo = <<>> /\ kept = {}
      BY <1>3, <1>9, <2>1
    <3> QED BY <3>1 DEF Reporting
  <2>2. CASE cmd.on_failure # "error"
    <3>1. job[j].retcode # None /\ job'[j].todo = Tail(s)
      BY <1>3, <1>10, <2>2
    <3>2. \A k \in DOMAIN s : Report(a, job'[j].atexit, s[k])
      <4>1. \A k \in DOMAIN s : Report(a, job[j].atexit, s[k])
        BY <1>1, <3>1 DEF JobInv, Reporting, a, s
      <4>2. job[j].atexit \subseteq job'[j].atexit
        BY <1>3
      <4> QED BY <4>1, <4>2 DEF Report
    <3>3. Reporting(j)'
      <4>1. \A k \in DOMAIN Tail(s) : Report(a, job'[j].atexit, Tail(s)[k])
        BY <1>2, <3>2
      <4>2. job'[j].todo = Tail(s) /\ job'[j].args = a
        BY <1>3, <3>1 DEF a
      <4> QED BY <4>1, <4>2 DEF Reporting
    <3> QED BY <1>1, <1>7, <1>8, <3>2, <3>3 DEF Report
  <2> QED BY <2>1, <2>2
<1>14. Registered(j)'
  <2>1. Registered(j)
    BY <1>1 DEF JobInv
  <2> QED BY <1>3, <1>13, <2>1 DEF Registered, Running, a
<1>15. Verdict(j)'
  <2>1. Verdict(j)
    BY <1>1 DEF JobInv
  <2>2. job'[j].retcode \in {0, 10} => job'[j].retcode = job[j].retcode
    BY <1>3
  <2> QED BY <1>3, <1>5, <2>1, <2>2, Zenon DEF Verdict, Exists
<1> QED BY <1>3, <1>5, <1>6, <1>11, <1>12, <1>13, <1>14, <1>15 DEF IInv, JobInv

LEMMA ExitIInv ==
    ASSUME IInv, NEW j \in Jobs, Exit(j)
    PROVE  IInv'
<1> DEFINE i == job[j].input
<1>1. JobInv(j) /\ Process(j) /\ i \in Inputs /\ Running(j) /\ job[j].todo = <<>>
  BY DEF IInv, JobInv, Process, Exit
<1>2. /\ DOMAIN files' = DOMAIN files \ job[j].atexit
      /\ \A f \in DOMAIN files \ job[j].atexit : files'[f] = files[f]
      /\ DOMAIN job' = Jobs /\ DOMAIN job'[j] = DOMAIN NoRun
      /\ \A k \in Jobs \ {j} : job'[k] = job[k]
      /\ \A x \in {"input", "args", "todo", "retcode", "started", "checked"} : job'[j][x] = job[j][x]
      /\ job'[j].status = "exited"
  <2>1. DOMAIN job = Jobs /\ DOMAIN job[j] = DOMAIN NoRun
    BY <1>1 DEF IInv, Process
  <2> QED BY <2>1 DEF Exit, NoRun
<1>3. \A f \in job[j].atexit : Temporary(i, f)
  BY <1>1 DEF Process
<1> HIDE DEF i
<1>4. \A x \in Inputs : File(x, "rs") \notin job[j].atexit /\ File(x, "rs") \in DOMAIN files
  BY <1>3, FileFields DEF Temporary, Mine, IInv, Store
<1>5. Store' /\ \A x \in Inputs : files'[File(x, "rs")] = files[File(x, "rs")]
  BY <1>2, <1>4 DEF IInv, Store
<1>6. Apart(i)
  BY <1>2, <1>3 DEF Apart, Temporary, Mine
<1>7. \A k \in Jobs \ {j} : JobInv(k)'
  BY <1>1, <1>2, <1>5, <1>6, Others DEF i
<1>8. JobInv(j)'
  <2>1. Process(j)' /\ ~Running(j)'
    BY <1>1, <1>2, Zenon DEF Process, Running
  <2>2. Verdict(j)'
    <3>1. Verdict(j) /\ job[j].status \in {"running", "exited"}
      BY <1>1 DEF JobInv, Running
    <3>2. \A kind \in {"c", "symbols"} : File(i, kind) \in DOMAIN files => File(i, kind) \in DOMAIN files'
      <4>1. \A kind \in {"c", "symbols"} : File(i, kind) \notin job[j].atexit
        BY <1>3, FileFields DEF Temporary
      <4> QED BY <1>2, <4>1
    <3> QED BY <1>2, <3>1, <3>2 DEF Verdict, Exists, i
  <2> QED BY <2>1, <2>2 DEF JobInv, Working, Reporting, Registered
<1> QED BY <1>2, <1>5, <1>7, <1>8 DEF IInv

LEMMA KillIInv ==
    ASSUME IInv, NEW j \in Jobs, Kill(j)
    PROVE  IInv'
<1>1. JobInv(j) /\ Process(j) /\ Running(j) /\ files' = files
  BY DEF IInv, JobInv, Kill
<1>2. /\ DOMAIN job' = Jobs /\ DOMAIN job'[j] = DOMAIN NoRun
      /\ \A k \in Jobs \ {j} : job'[k] = job[k]
      /\ \A x \in {"input", "args", "retcode", "started", "checked"} : job'[j][x] = job[j][x]
      /\ job'[j].status = "killed" /\ job'[j].todo = <<>>
  <2>1. DOMAIN job = Jobs /\ DOMAIN job[j] = DOMAIN NoRun
    BY <1>1 DEF IInv, Process
  <2> QED BY <2>1 DEF Kill, NoRun
<1>3. Store' /\ Apart(job[j].input)
  BY <1>1 DEF IInv, Store, Apart
<1>4. \A k \in Jobs \ {j} : JobInv(k)'
  BY <1>1, <1>2, <1>3, Others
<1>5. JobInv(j)'
  <2>1. IsSeq(job'[j].todo) /\ DOMAIN job'[j].todo = {}
    BY <1>2 DEF IsSeq
  <2>2. Process(j)' /\ ~Running(j)'
    BY <1>2, <2>1 DEF Process, Running
  <2>3. Verdict(j)'
    BY <1>1, <1>2 DEF JobInv, Verdict
  <2> QED BY <2>2, <2>3 DEF JobInv, Working, Reporting, Registered
<1> QED BY <1>2, <1>3, <1>4, <1>5 DEF IInv

LEMMA CbmcIInv ==
    ASSUME IInv, NEW j \in Jobs, run_cbmc(j)
    PROVE  IInv'
<1> DEFINE i == job[j].input
           a == job[j].args
           goto == File(i, "goto")
           results == {File(Dir, k) : k \in {"results", "coverage", "property"}}
           out == IF a.visualize /\ ~a.dry_run THEN {File(Dir, "results")} ELSE {}
<1>1. /\ JobInv(j) /\ Process(j) /\ i \in Inputs /\ Running(j) /\ job[j].todo = <<>>
      /\ job[j].retcode = None /\ a.dry_run \in BOOLEAN /\ a.keep_temps \in BOOLEAN
  BY DriverAssumption DEF IInv, JobInv, Process, run_cbmc
<1>2. ~a.dry_run => Fresh(j, "goto")
  <2>1. ~a.dry_run => Stage(j)
    BY <1>1 DEF JobInv, Working
  <2>2. Len(job[j].todo) = 0
    BY <1>1
  <2>3. \A n \in Nat : ~Planned(i, a, job[j].todo, n)
    BY <2>2 DEF Planned
  <2> QED BY <2>1, <2>2, <2>3 DEF Stage
<1>3. PICK code \in IF a.dry_run THEN {0} ELSE ExitCodes(goto) :
         /\ files' = Write(out, IF code = 6 THEN Broken ELSE files[goto])
         /\ job' = [job EXCEPT
              ![j].todo = IF a.visualize THEN run_visualize(job[j].input) ELSE <<>>,
              ![j].retcode = IF Unreadable(a, code) THEN 1
                             ELSE IF code = CBMC_VERIFICATION_FAILURE_EXIT_CODE
                                     /\ a.allow_cbmc_verification_failure THEN 0
                             ELSE code,
              ![j].checked = IF a.dry_run \/ code = 6 THEN None ELSE files[goto],
              ![j].made = @ \cup out,
              ![j].atexit = @ \cup (IF a.visualize /\ ~a.keep_temps THEN results ELSE {})]
  BY Zenon DEF run_cbmc
<1>4. code \in {0, 6, 10}
  BY <1>3 DEF ExitCodes, CBMC_VERIFICATION_FAILURE_EXIT_CODE
<1> HIDE DEF out, results, goto
<1>5. /\ DOMAIN job' = Jobs /\ DOMAIN job'[j] = DOMAIN NoRun
      /\ \A k \in Jobs \ {j} : job'[k] = job[k]
      /\ \A x \in {"status", "input", "args", "started"} : job'[j][x] = job[j][x]
      /\ job'[j].todo = (IF a.visualize THEN run_visualize(i) ELSE <<>>)
      /\ job'[j].retcode = (IF Unreadable(a, code) THEN 1
                            ELSE IF code = CBMC_VERIFICATION_FAILURE_EXIT_CODE
                                    /\ a.allow_cbmc_verification_failure THEN 0
                            ELSE code)
      /\ job'[j].checked = (IF a.dry_run \/ code = 6 THEN None ELSE files[goto])
      /\ job'[j].made = job[j].made \cup out
      /\ job'[j].atexit = job[j].atexit \cup (IF a.visualize /\ ~a.keep_temps THEN results ELSE {})
  <2>1. DOMAIN job = Jobs /\ DOMAIN job[j] = DOMAIN NoRun
    BY <1>1 DEF IInv, Process
  <2> QED BY <1>3, <2>1, ZenonT(60) DEF NoRun
<1>6. job'[j].retcode # None /\ (job'[j].retcode \in {0, 10} => code # 6)
  BY <1>4, <1>5, DriverAssumption DEF CBMC_VERIFICATION_FAILURE_EXIT_CODE
<1>7. ~a.dry_run => files[goto] \in Contents /\ files[goto] # None
  <2>1. ~a.dry_run => goto \in DOMAIN files
    BY <1>2 DEF Fresh, Exists, goto
  <2> QED BY <2>1, DriverAssumption DEF IInv, Store
<1> DEFINE c == IF code = 6 THEN Broken ELSE files[goto]
<1>8. out # {} => c \in Contents
  <2>1. Broken \in Contents
    BY DEF Broken, Content, Contents
  <2>2. out # {} => ~a.dry_run
    BY DEF out
  <2> QED BY <1>7, <2>1, <2>2
<1>9. \A f \in out : Mine(i, f) /\ f = File(Dir, "results") /\ a.visualize
  BY FileFields DEF out, Mine
<1>10. /\ Store' /\ Apart(i)
       /\ \A f \in DOMAIN files : f \in DOMAIN files' /\ (f \notin out => files'[f] = files[f])
       /\ \A x \in Inputs : files'[File(x, "rs")] = files[File(x, "rs")]
  <2>1. i \in Inputs /\ files' = Write(out, c)
    BY <1>1, <1>3
  <2> HIDE DEF c, i
  <2> QED BY <1>8, <1>9, <2>1, WriteFiles
<1>11. \A k \in Jobs \ {j} : JobInv(k)'
  BY <1>1, <1>5, <1>10, Others, Zenon
<1>12. /\ IsSeq(job'[j].todo)
       /\ \A k \in DOMAIN job'[j].todo : LET cmd == job'[j].todo[k] IN
             /\ CommandOK(i, cmd) /\ cmd.on_failure # "error"
             /\ \A f \in cmd.out : /\ f.kind \in {"coverage", "property", "report"}
                                   /\ f = File(Dir, f.kind) /\ a.visualize
  <2>1. CASE a.visualize
    <3> DEFINE s == run_visualize(i)
    <3>1. job'[j].todo = s
      BY <1>5, <2>1
    <3>2. IsSeq(s) /\ \A cmd \in Elements(s) :
             /\ CommandOK(i, cmd) /\ cmd.on_failure # "error"
             /\ \A f \in cmd.out : f.kind \in {"coverage", "property", "report"} /\ f = File(Dir, f.kind)
      BY <1>1, VisualizeOK
    <3> HIDE DEF s, i
    <3> QED BY <2>1, <3>1, <3>2 DEF Elements
  <2>2. CASE ~a.visualize
    <3>1. job'[j].todo = <<>>
      BY <1>5, <2>2
    <3> QED BY <3>1 DEF IsSeq
  <2> QED BY <2>1, <2>2
<1> HIDE DEF c
<1>13. Process(j)'
  <2>1. \A f \in results : Temporary(i, f)
    BY FileFields DEF results, Temporary, Mine
  <2>2. \A f \in job'[j].atexit : Temporary(i, f)
    BY <1>1, <1>5, <2>1, Zenon DEF Process
  <2> QED BY <1>1, <1>5, <1>10, <1>12, <2>2, Zenon DEF Process, Running
<1>14. Working(j)'
  BY <1>6 DEF Working
<1>15. Reporting(j)'
  <2>1. a.visualize /\ ~a.keep_temps => results \subseteq job'[j].atexit
    BY <1>5, Zenon
  <2>2. \A kind \in {"coverage", "property"} : File(Dir, kind) \in results
    BY DEF results
  <2>3. ASSUME NEW f, f.kind \in {"coverage", "property", "report"}, f = File(Dir, f.kind), a.visualize
        PROVE  f \in job'[j].atexit \/ Stays(a, f) \/ a.keep_temps
    BY <2>1, <2>2, <2>3, Zenon DEF Stays
  <2>4. \A k \in DOMAIN job'[j].todo : Report(a, job'[j].atexit, job'[j].todo[k])
    BY <1>12, <2>3 DEF Report
  <2>5. job'[j].args = a
    BY <1>5
  <2> QED BY <2>4, <2>5 DEF Reporting
<1>16. Registered(j)'
  <2>1. File(Dir, "results") \in results
    BY DEF results
  <2>2. ~a.keep_temps => out \subseteq job'[j].atexit
    BY <1>5, <1>9, <2>1, Zenon
  <2> QED BY <1>1, <1>5, <2>2 DEF JobInv, Registered, Running
<1>17. Verdict(j)'
  <2>1. job'[j].checked # None =>
           /\ job'[j].checked.origin.src = i /\ job'[j].checked.gen_c = FALSE
           /\ job'[j].checked.origin.version >= job[j].started
    BY <1>2, <1>5 DEF Fresh, goto
  <2>2. ASSUME job'[j].retcode \in {0, 10}, ~a.dry_run
        PROVE  /\ job'[j].checked # None
               /\ a.gen_c => File(i, "c") \in DOMAIN files'
               /\ a.gen_symbols => File(i, "symbols") \in DOMAIN files'
    <3>1. job'[j].checked # None
      BY <1>5, <1>6, <1>7, <2>2
    <3>2. /\ a.gen_c => File(i, "c") \in DOMAIN files
          /\ a.gen_symbols => File(i, "symbols") \in DOMAIN files
      <4>1. DOMAIN job[j].todo = {}
        BY <1>1
      <4>2. (a.gen_c => Coming(j, "c")) /\ (a.gen_symbols => Coming(j, "symbols"))
        BY <1>1, <2>2 DEF JobInv, Working
      <4> QED BY <4>1, <4>2 DEF Coming, Exists
    <3> QED BY <1>10, <3>1, <3>2
  <2> QED BY <1>5, <2>1, <2>2 DEF Verdict, Exists
<1> QED BY <1>5, <1>10, <1>11, <1>13, <1>14, <1>15, <1>16, <1>17, Zenon DEF IInv, JobInv

LEMMA StartIInv ==
    ASSUME IInv, NEW j \in Jobs, NEW i \in Inputs, NEW a \in CommandLines, Start(j, i, a)
    PROVE  IInv'
<1> DEFINE rs == files[File(i, "rs")]
           new == [NoRun EXCEPT !.status = "running", !.input = i, !.args = a,
                                !.started = rs.origin.version]
           others == {k \in Jobs \ {j} : a.restrict_vtable /\ Restricting(k)}
           planned == [new EXCEPT !.todo = main(i, a), !.cbmc_args = CbmcArgs(a),
                                  !.shared = others # {}]
           refused == [new EXCEPT !.retcode = 1]
<1>1. /\ files' = files /\ ~Running(j) /\ DOMAIN job' = Jobs
      /\ \A k \in Jobs : Running(k) => job[k].input # i
      /\ \A k \in Jobs \ {j} : job'[k] = job[k] \/ job'[k] = [job[k] EXCEPT !.shared = TRUE]
      /\ job'[j] = IF Conflict(a) THEN refused ELSE planned
  BY Zenon DEF Start
<1>2. DOMAIN job = Jobs /\ \A k \in Jobs : JobInv(k) /\ Process(k)
  BY DEF IInv, JobInv
<1>3. /\ DOMAIN new = DOMAIN NoRun /\ new.status = "running" /\ new.input = i /\ new.args = a
      /\ new.started = rs.origin.version /\ new.todo = <<>> /\ new.retcode = None
      /\ new.checked = None /\ new.made = {} /\ new.atexit = {}
  <2> DEFINE n == NoRun
  <2>1. /\ n.todo = <<>> /\ n.retcode = None /\ n.checked = None /\ n.made = {} /\ n.atexit = {}
        /\ DOMAIN n = {"status", "input", "args", "todo", "atexit", "retcode", "started",
                       "checked", "cbmc_args", "made", "shared", "unlucky"}
    BY DEF NoRun
  <2>2. new = [n EXCEPT !.status = "running", !.input = i, !.args = a, !.started = rs.origin.version]
    OBVIOUS
  <2> HIDE DEF n, new
  <2>3. DOMAIN new = DOMAIN n
    BY <2>2
  <2>4. /\ new.status = "running" /\ new.input = i /\ new.args = a /\ new.started = rs.origin.version
        /\ new.todo = n.todo /\ new.retcode = n.retcode /\ new.checked = n.checked
        /\ new.made = n.made /\ new.atexit = n.atexit
    BY <2>1, <2>2
  <2> QED BY <2>1, <2>3, <2>4 DEF n
<1> HIDE DEF new, others
<1>4. LET b == job'[j]
      IN  /\ DOMAIN b = DOMAIN NoRun /\ b.status = "running" /\ b.input = i /\ b.args = a
          /\ b.started = rs.origin.version /\ b.checked = None /\ b.made = {} /\ b.atexit = {}
          /\ \/ b.todo = <<>> /\ b.retcode = 1
             \/ b.todo = main(i, a) /\ b.retcode = None
  <2>1. CASE Conflict(a)
    <3>1. job'[j] = [new EXCEPT !.retcode = 1]
      BY <1>1, <2>1
    <3> QED BY <1>3, <3>1 DEF NoRun
  <2>2. CASE ~Conflict(a)
    <3>1. job'[j] = [new EXCEPT !.todo = main(i, a), !.cbmc_args = CbmcArgs(a), !.shared = others # {}]
      BY <1>1, <2>2
    <3> QED BY <1>3, <3>1 DEF NoRun
  <2> QED BY <2>1, <2>2
<1> HIDE DEF planned, refused
<1>5. \A k \in Jobs \ {j} : /\ DOMAIN job'[k] = DOMAIN NoRun
                            /\ \A f \in DOMAIN NoRun \ {"shared"} : job'[k][f] = job[k][f]
  <2> TAKE k \in Jobs \ {j}
  <2>1. DOMAIN job[k] = DOMAIN NoRun
    BY <1>2, Zenon DEF Process
  <2>2. job'[k] = job[k] \/ job'[k] = [job[k] EXCEPT !.shared = TRUE]
    BY <1>1
  <2> QED BY <2>1, <2>2
<1>6. Store'
  BY <1>1 DEF IInv, Store
<1>7. \A k \in Jobs \ {j} : job'[k].status = job[k].status /\ job'[k].input = job[k].input
  BY <1>5, Zenon DEF NoRun
<1>8. ASSUME NEW k \in Jobs \ {j} PROVE JobInv(k)'
  <2>1. Running(k) => \A l \in Jobs : l # k /\ Running(l)' => job'[l].input # job[k].input
    BY <1>1, <1>2, <1>4, <1>7 DEF Process, Running
  <2>2. Running(k) => files[File(job[k].input, "rs")].origin.version
                         <= files'[File(job[k].input, "rs")].origin.version
    <3>1. Running(k) => files[File(job[k].input, "rs")].origin.version \in Nat
      BY <1>2, Zenon DEF IInv, Store, Process
    <3> QED BY <1>1, <3>1
  <2> QED BY <1>1, <1>5, <1>6, <2>1, <2>2, OtherJob
<1>9. /\ rs.origin.version \in Nat /\ rs.origin.version <= rs.origin.version
  BY DEF IInv, Store
<1>10. IsSeq(job'[j].todo) /\ \A k \in DOMAIN job'[j].todo : CommandOK(i, job'[j].todo[k])
  <2>1. CASE job'[j].todo = <<>>
    BY <2>1 DEF IsSeq
  <2>2. CASE job'[j].todo = main(i, a)
    BY <2>2, MainPlan DEF Elements
  <2> QED BY <1>4, <2>1, <2>2
<1>11. Process(j)'
  <2>1. \A k \in Jobs : k # j /\ Running(k)' => job'[k].input # i
    BY <1>1, <1>7 DEF Running
  <2> QED BY <1>1, <1>4, <1>9, <1>10, <2>1 DEF Process, Running
<1>12. Working(j)'
  <2>1. CASE job'[j].retcode = 1
    BY <2>1, DriverAssumption DEF Working
  <2>2. CASE job'[j].retcode = None /\ job'[j].todo = main(i, a)
    <3> DEFINE s == job'[j].todo
    <3>1. /\ \A c \in Elements(s) : c.on_failure = "error"
          /\ \E n \in Nat : Planned(i, a, s, n)
          /\ a.gen_c => \E c \in Elements(s) : File(i, "c") \in c.out
          /\ a.gen_symbols => \E c \in Elements(s) : File(i, "symbols") \in c.out
      BY <2>2, MainPlan, Zenon
    <3>2. \A k \in DOMAIN s : s[k].on_failure = "error"
      BY <3>1 DEF Elements
    <3>3. Stage(j)'
      BY <1>4, <3>1, Zenon DEF Stage
    <3>4. (a.gen_c => Coming(j, "c")') /\ (a.gen_symbols => Coming(j, "symbols")')
      BY <1>4, <3>1, Zenon DEF Coming, Elements
    <3> QED BY <1>4, <3>2, <3>3, <3>4 DEF Working
  <2> QED BY <1>4, <2>1, <2>2
<1>13. Reporting(j)'
  <2>1. job'[j].retcode # None => DOMAIN job'[j].todo = {}
    BY <1>4
  <2> QED BY <2>1 DEF Reporting
<1>14. Registered(j)'
  BY <1>4 DEF Registered
<1>15. Verdict(j)'
  <2>1. job'[j].retcode \notin {0, 10}
    BY <1>4, DriverAssumption
  <2> QED BY <1>4, <2>1 DEF Verdict
<1> QED BY <1>1, <1>6, <1>8, <1>11, <1>12, <1>13, <1>14, <1>15 DEF IInv, JobInv

LEMMA EditIInv ==
    ASSUME IInv, NEW i \in Inputs, Edit(i)
    PROVE  IInv'
<1> DEFINE rs == File(i, "rs")
           v == files[rs].origin.version
<1>1. /\ rs \in DOMAIN files /\ files[rs] \in Contents /\ files[rs].origin = Origin(i, v) /\ v \in Nat
      /\ files[rs].gen_c = FALSE
  BY DEF IInv, Store
<1>2. /\ files' = [files EXCEPT ![rs].origin.version = v + 1] /\ job' = job
  BY DEF Edit
<1> HIDE DEF rs, v
<1>3. /\ DOMAIN files' = DOMAIN files
      /\ \A f \in DOMAIN files : f # rs => files'[f] = files[f]
      /\ files'[rs] = [files[rs] EXCEPT !.origin = [files[rs].origin EXCEPT !.version = v + 1]]
  BY <1>1, <1>2
<1>4. [files[rs].origin EXCEPT !.version = v + 1] = Origin(i, v + 1)
  <2> DEFINE o == files[rs].origin
  <2>1. o = [src |-> i, version |-> v]
    BY <1>1 DEF Origin
  <2>2. [o EXCEPT !.version = v + 1] = [src |-> i, version |-> v + 1]
    BY <2>1
  <2> QED BY <2>2 DEF Origin
<1>5. /\ files'[rs].origin = Origin(i, v + 1) /\ files'[rs].gen_c = FALSE /\ files'[rs] \in Contents
  <2>1. files'[rs] = [files[rs] EXCEPT !.origin = Origin(i, v + 1)]
    BY <1>3, <1>4
  <2>2. Origin(i, v + 1) \in Origins
    BY <1>1 DEF Origin, Origins
  <2> QED BY <1>1, <2>1, <2>2 DEF Contents
<1>6. Origin(i, v + 1).version = v + 1 /\ v + 1 \in Nat /\ v <= v + 1
  BY <1>1 DEF Origin
<1>7. Store'
  <2>1. \A f \in DOMAIN files' : files'[f] \in Contents
    BY <1>3, <1>5 DEF IInv, Store
  <2>2. \A x \in Inputs : x # i => File(x, "rs") # rs
    BY FileFields DEF rs
  <2> QED BY <1>1, <1>3, <1>5, <1>6, <2>1, <2>2, Zenon DEF IInv, Store, rs
<1>8. ASSUME NEW k \in Jobs PROVE JobInv(k)'
  <2>1. Process(k)
    BY DEF IInv, JobInv
  <2>2. DOMAIN job'[k] = DOMAIN NoRun /\ \A f \in DOMAIN NoRun \ {"shared"} : job'[k][f] = job[k][f]
    BY <1>2, <2>1 DEF Process
  <2>3. \A kind \in {"symtab", "out", "goto"} : File(job[k].input, kind) # rs
    BY FileFields DEF rs
  <2>4. Running(k) => files[File(job[k].input, "rs")].origin.version
                         <= files'[File(job[k].input, "rs")].origin.version
    <3>1. CASE job[k].input = i
      <4>1. File(job[k].input, "rs") = rs /\ files[rs].origin.version = v
        BY <3>1 DEF rs, v
      <4> QED BY <1>5, <1>6, <4>1
    <3>2. CASE job[k].input # i
      <4>1. File(job[k].input, "rs") # rs
        BY <3>2, FileFields DEF rs
      <4>2. Running(k) => /\ File(job[k].input, "rs") \in DOMAIN files
                          /\ files[File(job[k].input, "rs")].origin.version \in Nat
        BY <2>1 DEF IInv, Store, Process
      <4> QED BY <1>3, <4>1, <4>2
    <3> QED BY <3>1, <3>2
  <2>5. Running(k) => \A l \in Jobs : l # k /\ Running(l)' => job'[l].input # job[k].input
    BY <1>2, <2>1 DEF Process, Running
  <2> QED BY <1>3, <1>7, <2>2, <2>3, <2>4, <2>5, OtherJob
<1> QED BY <1>2, <1>7, <1>8 DEF IInv

-----------------------------------------------------------------------------
LEMMA StutterIInv == ASSUME IInv, UNCHANGED vars PROVE IInv'
<1>1. files' = files /\ job' = job
  BY DEF vars
<1>2. Store'
  BY <1>1 DEF IInv, Store
<1>3. ASSUME NEW k \in Jobs PROVE JobInv(k)'
  <2>1. Process(k)
    BY DEF IInv, JobInv
  <2>2. Running(k) => files[File(job[k].input, "rs")].origin.version \in Nat
    BY <2>1 DEF IInv, Store, Process
  <2>3. Running(k) => files[File(job[k].input, "rs")].origin.version
                         <= files'[File(job[k].input, "rs")].origin.version
    BY <1>1, <2>2
  <2>4. DOMAIN job'[k] = DOMAIN NoRun /\ \A f \in DOMAIN NoRun \ {"shared"} : job'[k][f] = job[k][f]
    BY <1>1, <2>1 DEF Process
  <2>5. Running(k) => \A l \in Jobs : l # k /\ Running(l)' => job'[l].input # job[k].input
    BY <1>1, <2>1 DEF Process, Running
  <2> QED BY <1>1, <1>2, <2>3, <2>4, <2>5, OtherJob
<1> QED BY <1>1, <1>2, <1>3 DEF IInv

LEMMA Inductive == Spec => []IInv
<1>1. Init => IInv
  BY InitIInv
<1>2. IInv /\ [Next]_vars => IInv'
  <2> SUFFICES ASSUME IInv, [Next]_vars PROVE IInv'
    OBVIOUS
  <2>1. CASE UNCHANGED vars
    BY <2>1, StutterIInv
  <2>2. ASSUME NEW j \in Jobs, NEW i \in Inputs, NEW a \in CommandLines, Start(j, i, a) PROVE IInv'
    BY <2>2, StartIInv
  <2>3. ASSUME NEW j \in Jobs, run_cmd(j) PROVE IInv'
    BY <2>3, SucceedIInv, FailIInv DEF run_cmd
  <2>4. ASSUME NEW j \in Jobs, run_cbmc(j) PROVE IInv'
    BY <2>4, CbmcIInv
  <2>5. ASSUME NEW j \in Jobs, Exit(j) PROVE IInv'
    BY <2>5, ExitIInv
  <2>6. ASSUME NEW j \in Jobs, Kill(j) PROVE IInv'
    BY <2>6, KillIInv
  <2>7. ASSUME NEW i \in Inputs, Edit(i) PROVE IInv'
    BY <2>7, EditIInv
  <2> QED BY <2>1, <2>2, <2>3, <2>4, <2>5, <2>6, <2>7 DEF Next
<1> QED BY <1>1, <1>2, PTL DEF Spec

(* A run of scripts/rmc reports the verdict of CBMC on a program compiled  *)
(* during the run from the file it was given: however many runs share the  *)
(* directory, are killed in it, keep their files or are followed by edits. *)
THEOREM OwnVerdict == Spec => []VerdictOnOwnSource
<1>1. IInv => VerdictOnOwnSource
  BY DEF IInv, JobInv, Verdict, VerdictOnOwnSource
<1> QED BY <1>1, Inductive, PTL

(* A run that exits with CBMC's verdict has run CBMC, and the C program    *)
(* and the symbols it was asked for are there: no other run deletes them.  *)
THEOREM Delivered == Spec => []DeliveredOnSuccess
<1>1. IInv => DeliveredOnSuccess
  BY DEF IInv, JobInv, Verdict, DeliveredOnSuccess
<1> QED BY <1>1, Inductive, PTL

LEMMA ExitOnly ==
    ASSUME IInv, [Next]_vars, NEW j \in Jobs, Running(j), job'[j].status = "exited"
    PROVE  Exit(j)
<1>1. DOMAIN job = Jobs /\ \A k \in Jobs : DOMAIN job[k] = DOMAIN NoRun
  BY DEF IInv, JobInv, Process
<1>2. job[j].status # "exited"
  BY DEF Running
<1>3. CASE UNCHANGED vars
  BY <1>2, <1>3 DEF vars
<1>4. ASSUME NEW k \in Jobs, NEW i \in Inputs, NEW a \in CommandLines, Start(k, i, a) PROVE Exit(j)
  <2>1. job'[j] = job[j] \/ job'[j] = [job[j] EXCEPT !.shared = TRUE]
    BY <1>4, Zenon DEF Start
  <2> QED BY <1>1, <1>2, <2>1 DEF NoRun
<1>5. ASSUME NEW k \in Jobs, run_cmd(k) PROVE Exit(j)
  <2> DEFINE cmd == Head(job[k].todo)
  <2>1. Succeed(k, cmd) \/ Fail(k, cmd)
    BY <1>5 DEF run_cmd
  <2> HIDE DEF cmd
  <2>2. Succeed(k, cmd) => job'[j].status = job[j].status
    BY <1>1 DEF Succeed, NoRun
  <2>3. Fail(k, cmd) => job'[j].status = job[j].status
    <3> SUFFICES ASSUME Fail(k, cmd) PROVE job'[j].status = job[j].status
      OBVIOUS
    <3>1. k # j => job'[j] = job[j]
      BY <1>1, Zenon DEF Fail
    <3>2. "status" \in DOMAIN job[k]
      BY <1>1 DEF NoRun
    <3>3. job'[k].status = job[k].status
      BY <1>1, <3>2, Zenon DEF Fail
    <3> QED BY <3>1, <3>3
  <2> QED BY <1>2, <2>1, <2>2, <2>3
<1>6. ASSUME NEW k \in Jobs, run_cbmc(k) PROVE Exit(j)
  <2>1. job'[j].status = job[j].status
    BY <1>1, <1>6 DEF run_cbmc, NoRun
  <2> QED BY <1>2, <2>1
<1>7. ASSUME NEW k \in Jobs, Exit(k) PROVE Exit(j)
  <2>1. k # j => job'[j] = job[j]
    BY <1>1, <1>7 DEF Exit
  <2> QED BY <1>2, <1>7, <2>1
<1>8. ASSUME NEW k \in Jobs, Kill(k) PROVE Exit(j)
  <2>1. k # j => job'[j] = job[j]
    BY <1>1, <1>8 DEF Kill
  <2>2. job'[k].status = "killed"
    BY <1>1, <1>8 DEF Kill, NoRun
  <2> QED BY <1>2, <2>1, <2>2
<1>9. ASSUME NEW i \in Inputs, Edit(i) PROVE Exit(j)
  BY <1>2, <1>9 DEF Edit
<1> QED BY <1>3, <1>4, <1>5, <1>6, <1>7, <1>8, <1>9 DEF Next

(* atexit: of what a run without --keep-temps has written, its exit leaves *)
(* only what was asked for, the restrictions and the symbol table of the   *)
(* gen-c passes, whichever step the run ends at.                           *)
THEOREM CleansUp == Spec => TempsRemoved
<1>1. IInv /\ [Next]_vars =>
         \A j \in Jobs :
            Running(j) /\ job'[j].status = "exited" /\ ~job[j].args.keep_temps =>
                \A f \in job[j].made \cap DOMAIN files' :
                    \/ f.kind \in {"c", "symbols", "runnable.c", "report",
                                   "restrictions", "linked-restrictions"}
                    \/ job[j].args.gen_c_runnable /\ f.kind = "symtab"
  <2> SUFFICES ASSUME IInv, [Next]_vars, NEW j \in Jobs, Running(j), job'[j].status = "exited",
                      ~job[j].args.keep_temps, NEW f \in job[j].made \cap DOMAIN files'
               PROVE  \/ f.kind \in {"c", "symbols", "runnable.c", "report",
                                     "restrictions", "linked-restrictions"}
                      \/ job[j].args.gen_c_runnable /\ f.kind = "symtab"
    OBVIOUS
  <2>1. f \notin job[j].atexit
    BY ExitOnly, Zenon DEF Exit
  <2>2. Registered(j)
    BY DEF IInv, JobInv
  <2> QED BY <2>1, <2>2 DEF Registered, Stays
<1> QED BY <1>1, Inductive, PTL DEF Spec, TempsRemoved
=============================================================================
