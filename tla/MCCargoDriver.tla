--------------------------- MODULE MCCargoDriver ---------------------------
(* Instances of CargoDriver: a crate in a subdirectory of the place where  *)
(* RMC's repository is, and command lines given in either directory.       *)
EXTENDS CargoDriver

Rel(parts) == Path(FALSE, parts)
Abs(parts) == Path(TRUE, parts)

MCRmcRoot == <<>>
MCCFiles == {<<"crate", "helper.c">>, <<"crate", "lib.c">>, <<"lib.c">>, <<"other.c">>}
MCToml == [target_dir |-> None, c_lib |-> <<Rel(<<"helper.c">>)>>]

Plain == [cwd |-> <<"crate">>, crate |-> Rel(<<>>), no_config_toml |-> FALSE, target_dir |-> None,
          c_lib |-> <<>>, build_target |-> TRUE, tests |-> FALSE, rustflags |-> "none",
          only_codegen |-> FALSE, gen_c |-> FALSE, gen_c_runnable |-> FALSE,
          restrict_vtable |-> FALSE, undefined_function_checks |-> TRUE,
          allow_cbmc_verification_failure |-> FALSE, dry_run |-> FALSE, verbose |-> FALSE]

Elsewhere == [Plain EXCEPT !.cwd = <<>>, !.crate = Abs(<<"crate">>)]
Host == [Elsewhere EXCEPT !.build_target = FALSE]

MCCommandLines ==
    { Plain, [Plain EXCEPT !.verbose = TRUE],
      [Plain EXCEPT !.tests = TRUE, !.rustflags = "user", !.c_lib = <<Rel(<<"lib.c">>)>>],
      [Plain EXCEPT !.gen_c_runnable = TRUE, !.build_target = FALSE, !.rustflags = "user"],
      [Plain EXCEPT !.gen_c_runnable = TRUE, !.only_codegen = TRUE, !.no_config_toml = TRUE,
                    !.verbose = TRUE],
      [Elsewhere EXCEPT !.no_config_toml = TRUE, !.dry_run = TRUE],
      [Elsewhere EXCEPT !.crate = Rel(<<"crate">>), !.allow_cbmc_verification_failure = TRUE],
      [Host EXCEPT !.restrict_vtable = TRUE, !.c_lib = <<Rel(<<"lib.c">>), Abs(<<"other.c">>)>>],
      [Host EXCEPT !.undefined_function_checks = FALSE, !.gen_c = TRUE, !.restrict_vtable = TRUE] }
=============================================================================
