-------------------------- MODULE MCRequestHandling --------------------------
(* Three questions to one model: what every table of up to three routes      *)
(* promises; what the application answers to each request in every setting   *)
(* of the middlewares; and registrations of two names on two threads.        *)
EXTENDS RequestHandling, TLC

AppPaths == {initializeRouter[i].route.path : i \in DOMAIN initializeRouter}
MCMethod == {"kGet", "kPost", "kOptions"}
MCPattern == {<<"a">>, <<Param>>, <<Param, Param>>}
MCPath == AppPaths \cup {<<"a">>, <<"a", "b">>, <<"a", "">>, <<"nowhere">>}
MCHandler == {"H1", "H2", "RegisterHandler"} \cup
             {initializeRouter[i].route.handler : i \in DOMAIN initializeRouter}

RouteChoices ==
    [kind : {"handler", "callback"}, route : {Route("kGet", <<"a">>, h) : h \in {"H1", "H2"}}]
    \cup
    [kind : {"regexHandler", "regexCallback"},
     route : {Route("kGet", <<Param>>, "H1"), Route("kGet", <<"a">>, "H2"),
              Route("kPost", <<Param>>, "H1"), Route("kGet", <<Param, Param>>, "H2")}]

Ask(method, path) == [method |-> method, path |-> path, origin |-> "site"]
AskRoutes == {Ask(initializeRouter[i].route.method, initializeRouter[i].route.path) :
                 i \in DOMAIN initializeRouter}
Misses == {Ask("kGet", <<"nowhere">>), Ask("kGet", <<"login">>)}
Preflights == [method : {"kOptions"}, path : {<<"entry">>}, origin : Origin]

TableConfigs ==
    [program : UNION {[1..n -> RouteChoices] : n \in 1..3}, chain : {<<>>}, origins : {<<>>},
     asked : {{Ask("kGet", <<"a">>), Ask("kGet", <<"a", "b">>)}}, requests : {1}]
SettingConfigs ==
    [program : {initializeRouter}, chain : {<<>>, <<"limit", "cors">>, <<"cors", "limit">>},
     origins : {<<>>, <<"*">>, <<"site">>, <<"site", "other">>},
     asked : {AskRoutes \cup Misses \cup Preflights}, requests : {1}]
RegistrationConfigs ==
    [program : {initializeRouter}, chain : {<<"limit", "cors">>}, origins : {<<"*">>},
     asked : {{Ask("kPost", <<"register">>)} \cup Preflights}, requests : {3}]
Symmetry == Permutations(Thread)
MCConfigs == TableConfigs \cup SettingConfigs \cup RegistrationConfigs
=============================================================================
