----------------------------- MODULE MCSetupArgs -----------------------------
(***************************************************************************)
(* A small instance of SetupArgs for TLC: every command line of up to      *)
(* three arguments, and some that are too long.                            *)
(***************************************************************************)
EXTENDS SetupArgs, TLC

MCNumbers == "0" :> 0 @@ "2" :> 2 @@ "-1" :> -1 @@ "65536" :> 65536
MCWords == {"", "srv", "db", "port", "f"} \cup DOMAIN MCNumbers
MCStoi == [w \in MCWords |-> IF w \in DOMAIN MCNumbers THEN MCNumbers[w] ELSE NotANumber]

SomeArguments ==
  {<<"srv", "2">>, <<"srv", "0">>, <<"srv", "f">>, <<"srv", "2", "">>, <<"srv", "", "2">>,
   <<"db", "f">>, <<"db", "f", "2">>, <<"db", "f", "">>, <<"db", "", "">>, <<"db", "">>,
   <<"port", "0">>, <<"port", "65536">>, <<"port", "-1">>, <<"port", "f">>,
   <<"f", "2">>, <<"f">>, <<"", "2">>, <<"", "f", "">>, <<"f", "", "", "">>}

MCCommandLines ==
  UNION {[1..n -> SomeArguments] : n \in 0..MaxArguments}
    \cup {<<a, a, a, a>> : a \in SomeArguments}
=============================================================================
