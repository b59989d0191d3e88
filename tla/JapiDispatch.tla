---------------------------- MODULE JapiDispatch ----------------------------
(***************************************************************************)
(* Requests and their handlers (src/japi.c): the list ctx->requests, which *)
(* japi_init fills with the library's own handlers and the application     *)
(* extends, and japi_process_message, which turns one line into the call   *)
(* of a handler and a response.                                            *)
(*                                                                         *)
(* A name is a word and a spelling: names that differ in case only have    *)
(* the same word. A request is what the code looks at of its text.         *)
(***************************************************************************)
EXTENDS Naturals, Sequences, SequencesExt

CONSTANTS
  UserNames,  \* names the application registers handlers for
  AskedNames, \* names clients ask for
  JapiWords,  \* words that begin with "japi_"
  NULL

Spellings == {"lower", "upper"}
ASSUME NamesAssumption ==
  /\ \A n \in UserNames \cup AskedNames : DOMAIN n = {"word", "spelled"} /\ n.spelled \in Spellings
  /\ NULL \notin UserNames \cup AskedNames

VARIABLES
  requests,    \* ctx->requests, head first
  include_args \* ctx->include_args_in_response

registry == <<requests, include_args>>

Lower(w) == [word |-> w, spelled |-> "lower"]
Upper(w) == [word |-> w, spelled |-> "upper"]

\* What japi_init registers, in this order.
Builtins == <<"japi_request_not_found_handler", "japi_pushsrv_subscribe",
              "japi_pushsrv_unsubscribe", "japi_pushsrv_list", "japi_cmd_list">>
Subscriptions == {"japi_pushsrv_subscribe", "japi_pushsrv_unsubscribe"}

ASSUME WordsAssumption ==
  ToSet(Builtins) \subseteq JapiWords /\ "request_not_found_handler" \notin JapiWords

----------------------------------------------------------------------------
(* The registry. A handler of the library is its word, one of the           *)
(* application is "app".                                                   *)

\* strcasecmp
SameName(m, n) == m.word = n.word

\* Does it begin with "japi_", in that spelling (strncmp)?
Reserved(n) == n.word \in JapiWords /\ n.spelled = "lower"

\* The places of n, and japi_get_request_handler: the first that has it.
Places(n) == {i \in DOMAIN requests : SameName(n, requests[i].name)}
Handler(n) ==
  IF Places(n) = {} THEN "none"
  ELSE requests[CHOOSE i \in Places(n) : \A j \in Places(n) : i <= j].func

\* A reserved name is refused, but not one that is there already.
RegisterRequest_Slip(n) ==
  /\ ~Reserved(n)
  /\ requests' = <<[name |-> n, func |-> "app"]>> \o requests
  /\ UNCHANGED include_args

\* japi_register_request by the application, when it succeeds.
RegisterRequest(n) ==
  /\ Handler(n) = "none"
  /\ ~Reserved(n)
  /\ requests' = <<[name |-> n, func |-> "app"]>> \o requests
  /\ UNCHANGED include_args

\* japi_include_args_in_response
IncludeArgs(b) ==
  /\ include_args' = b
  /\ UNCHANGED requests

\* japi_init, given memory.
DispatchInit ==
  /\ requests = [i \in 1 .. Len(Builtins) |->
                   LET w == Builtins[Len(Builtins) + 1 - i]
                   IN  [name |-> Lower(w), func |-> w]]
  /\ include_args = FALSE

----------------------------------------------------------------------------
(* One request.                                                             *)

\* A text is no JSON ("none"), an object, or another JSON value. An object
\* may have a name, which may be no string, and arguments of any kind.
RequestTexts ==
  [json : {"object"}, name : AskedNames \cup {NULL}, string : BOOLEAN,
   args : {"absent", "object", "other"}]
    \cup
  [json : {"none", "other"}, name : {NULL}, string : {FALSE}, args : {"absent"}]

\* japi_get_value_as_str for the name: it must be there and be a string, or
\* the caller's variable is left as it is.
HasName(t) == t.name # NULL /\ t.string

\* The handler called: the one of that name, else the application's fallback,
\* else the library's.
Called(n) ==
  LET fallback == Handler(Lower("request_not_found_handler"))
  IN  IF Handler(n) # "none" THEN Handler(n)
      ELSE IF fallback # "none" THEN fallback
      ELSE Handler(Lower("japi_request_not_found_handler"))

\* Names are compared with case.
NeedsSocket_Slip(n) == n \in {Lower(w) : w \in Subscriptions}

\* Requests about a subscription are given the descriptor of their client.
NeedsSocket(n) == \E w \in Subscriptions : SameName(n, Lower(w))

\* Arguments are given back when that is switched on and there are some. The
\* response shares the object the descriptor is added to later.
Echo(t, socket) ==
  IF ~include_args THEN "absent" ELSE IF socket THEN "object and socket" ELSE t.args

\* What comes of a request: a response or silence, what the response says of
\* name and arguments, the handler called and whether it was given the
\* descriptor, or the end of the process.
Silence ==
  [end |-> "silent", name |-> NULL, args |-> "absent", called |-> "none", socket |-> FALSE]
NoName == [Silence EXCEPT !.end = "response"]
Abort == [Silence EXCEPT !.end = "abort"]
Response(t, socket) ==
  [end |-> "response", name |-> t.name, args |-> Echo(t, socket),
   called |-> Called(t.name), socket |-> socket]

\* A named request. Absent arguments become the JSON null, and json-c ends the
\* process when it is to add the descriptor to anything but an object.
Named(t) ==
  IF ~NeedsSocket(t.name) THEN Response(t, FALSE)
  ELSE IF t.args = "object" THEN Response(t, TRUE)
  ELSE Abort

\* japi_process_message. Without a name whatever was in req_name decides
\* between silence and a response without a name.
Outcomes(t) ==
  IF t.json = "none" THEN {Silence}
  ELSE IF HasName(t) THEN {Named(t)}
  ELSE {Silence, NoName}

----------------------------------------------------------------------------

\* No name is there twice, in whatever case, so that no handler is out of
\* reach; the library's own handlers are found under their names in any case,
\* which an application cannot take over (japi_register_request).
RegistrySound ==
  /\ \A i, j \in DOMAIN requests : SameName(requests[i].name, requests[j].name) => i = j
  /\ \A w \in ToSet(Builtins) : Handler(Upper(w)) = w

=============================================================================
