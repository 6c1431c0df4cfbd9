-------------------------- MODULE MCConfiguration --------------------------
(* Numbers around the limits: IntMax has 17 bits, so that 262 * 500 fits   *)
(* and 263 * 500 does not, and a port can be too large for a port or even  *)
(* for an int.                                                             *)
EXTENDS Configuration, TLC

MCstoi == ("" :> NotANumber) @@ ("debug" :> NotANumber) @@
          ("0" :> 0) @@ ("7x" :> 7) @@ ("262" :> 262) @@ ("263" :> 263) @@
          ("65536" :> 65536) @@ ("131072" :> 131072)

MCValues == DOMAIN MCstoi

MCConfLines == {<<"bootstrap.servers", "other">>, <<"linger.ms", "5">>, <<"linger.ms", "0">>,
                <<"client.id", "a">>, <<"liger.ms", "0">>, Skipped}
MCRejected  == {<<"liger.ms", "0">>}
=============================================================================
