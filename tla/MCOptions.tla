------------------------------ MODULE MCOptions ------------------------------
(***************************************************************************)
(* A small instance of DemoOptions for TLC.                                *)
(***************************************************************************)
EXTENDS DemoOptions

\* One option of each kind, in each of its forms, and the values they may take.
MCArguments ==
    {<<"-h">>, <<"--stream">>, <<"--interactive">>, <<"--list_tools">>,
     <<"--user">>, <<"--user", "=", "hi">>, <<"--user", "=">>,
     <<"--model">>, <<"--api_key", "=", "key">>, <<"--proxy_host", "=", "px">>,
     <<"--max_round_trips">>, <<"--max_round_trips", "=", "0">>,
     <<"--temperature">>, <<"2">>, <<>>}

MCCommandLines == BoundedSeq(MCArguments, 3)

Env(set) == [v \in Variables |-> IF v \in set THEN <<v>> ELSE <<>>]
MCEnvironments ==
    {Env({}), Env(Variables), Env({"OAI_API_KEY"}), Env({"DEEPSEEK_API_KEY"})}

MCStoI == (<<"0">> :> 0) @@ (<<"2">> :> 2)
MCStoD == {<<"0">>, <<"2">>}
=============================================================================
