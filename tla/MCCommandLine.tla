--------------------------- MODULE MCCommandLine ---------------------------
(* A small instance of CommandLine for TLC. *)
EXTENDS CommandLine

\* An unset variable, and names with each kind of character; a name with a variable
\* that is expanded again or not, depending on whose name it is.
MCValues == {<<>>, <<"/">>, <<"'", " ">>, <<"$", "$">>, <<"/", "dirname">>, <<"env">>}

=============================================================================
