-------------------------- MODULE MCConfiguration --------------------------
(* Values for the constants of Configuration: a listed secret, one known by *)
(* its prefix, an ordinary variable and a SANTH_ variable.                  *)
EXTENDS Configuration

CONSTANTS token, aws, home, control, value, garbled, x, y, bad

MCNames == {token, aws, home, control}

\* All set, none set, and one that is not UTF-8.
MCHosts == {[n \in MCNames |-> v] : v \in {value, "unset"}}
           \union {[n \in MCNames |-> IF n = home THEN garbled ELSE value]}

MCLists == {{home}, {token, home}, {control}}

MCSettings == {<<token, x>>, <<home, x>>, <<home, y>>, <<control, x>>,
               <<bad, x>>, <<home, bad>>}

\* A file that allows two secrets and sets one twice.
MCFiles == {[Default EXCEPT !.env_mode = "Allowlist", !.env_passthrough = {aws, home},
                            !.env_set = <<<<aws, x>>, <<home, x>>>>]}

\* 2^64 is 16 here: 15 processes and the threads of the user would wrap.
MCNumbers == {1, 15}
=============================================================================
