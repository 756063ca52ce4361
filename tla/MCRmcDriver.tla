---------------------------- MODULE MCRmcDriver ----------------------------
(* Instances of RmcDriver: command lines that use every flag.              *)
EXTENDS RmcDriver, TLC

Plain == [restrict_vtable |-> FALSE, gen_c |-> FALSE, gen_c_runnable |-> FALSE,
          gen_symbols |-> FALSE, undefined_function_checks |-> TRUE, visualize |-> FALSE,
          keep_temps |-> FALSE, dry_run |-> FALSE, verbose |-> FALSE,
          allow_cbmc_verification_failure |-> FALSE, output_format |-> "old",
          default_checks |-> TRUE, memory_safety_checks |-> TRUE, overflow_checks |-> TRUE,
          unwinding_checks |-> TRUE, object_bits |-> FALSE, unwind |-> FALSE,
          auto_unwind |-> FALSE, cbmc_args |-> <<>>]

MCCommandLines ==
    { [Plain EXCEPT !.restrict_vtable = TRUE, !.gen_c = TRUE],
      [Plain EXCEPT !.keep_temps = TRUE, !.gen_symbols = TRUE, !.unwind = TRUE,
                    !.undefined_function_checks = FALSE,
                    !.restrict_vtable = TRUE],
      [Plain EXCEPT !.gen_c_runnable = TRUE, !.keep_temps = TRUE],
      [Plain EXCEPT !.dry_run = TRUE, !.gen_c_runnable = TRUE, !.output_format = "terse"],
      [Plain EXCEPT !.dry_run = TRUE, !.verbose = TRUE],
      [Plain EXCEPT !.visualize = TRUE, !.output_format = "regular", !.memory_safety_checks = FALSE,
                    !.undefined_function_checks = FALSE],
      [Plain EXCEPT !.object_bits = TRUE, !.cbmc_args = <<"--object-bits">>],
      [Plain EXCEPT !.auto_unwind = TRUE, !.allow_cbmc_verification_failure = TRUE,
                    !.undefined_function_checks = FALSE, !.output_format = "terse",
                    !.cbmc_args = <<"--pointer-check", "--object-bits", "--function", "--json-ui">>] }

Runnable == {[Plain EXCEPT !.gen_c_runnable = TRUE]}

Symmetry == Permutations(Jobs) \cup Permutations(Inputs)
=============================================================================
