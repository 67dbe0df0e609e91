------------------------- MODULE MCConfigResolution -------------------------
(* Values for the sources: each field may be said or not said by each of     *)
(* them, and the numbers include those a boundary check could miss.          *)
EXTENDS ConfigResolution

MCFiles ==
    [name : {"", "file"}, description : {""}, logFile : {"", "file"}, cliPath : {"", "missing"},
     model : {""}, systemPrompt : {"file"}, port : {0, 9001}, peers : {<<>>, <<"url">>},
     verbose : {FALSE}, timeout : {0, 60}, probe : {0, -1}]

MCEnvironments ==
    [name : {Unset}, description : {Unset}, logFile : {Unset, "env"}, cliPath : {Unset},
     model : {Unset}, systemPrompt : {Unset}, port : {Unset, Garbage, 0, -1, 65536},
     peers : {Unset, <<"url", "">>}, verbose : {Garbage}, timeout : {Unset, Garbage, 0, -5},
     probe : {Unset, -5}]

MCCommandLines ==
    [name : {Unset, "flag"}, description : {Unset}, logFile : {Unset, "flag"}, cliPath : {Unset},
     model : {Unset}, systemPrompt : {Unset}, port : {Unset, 0, -1, 9002},
     peers : {Unset, <<"">>, <<"", "url">>}, verbose : {Unset}, timeout : {Unset},
     probe : {Unset}]
=============================================================================
