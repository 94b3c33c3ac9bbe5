------------------------------ MODULE MCSpider ------------------------------
(***************************************************************************)
(* The service locator with a logger and an application whose factory gets *)
(* the logger, two threads and the janitor.                                *)
(***************************************************************************)
EXTENDS Spider, TLC

ServiceKeys == {"log", "app"}
ServiceLifetimes == ("log" :> {"Resettable", "Scoped"} @@ "app" :> {"Timed"})
ServiceNeeds == ("log" :> <<>> @@ "app" :> <<"log">>)
=============================================================================
