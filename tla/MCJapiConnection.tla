--------------------------- MODULE MCJapiConnection ---------------------------
(***************************************************************************)
(* Values for checking JapiConnection.                                     *)
(***************************************************************************)
EXTENDS JapiConnection

\* A handler, the same name in capitals, attempts at a name of the library and
\* at a new name like those, and the fallback.
MCUserNames ==
  {Lower("get"), Upper("get"), Upper("japi_pushsrv_subscribe"), Lower("japi_own"),
   Lower("request_not_found_handler")}

MCAskedNames ==
  {Lower("get"), Lower("unknown")} \cup
  {Lower(w) : w \in Subscriptions} \cup {Upper(w) : w \in Subscriptions}

MCJapiWords == ToSet(Builtins) \cup {"japi_own"}

=============================================================================
