---------------------------- MODULE MCHttpRequests ----------------------------
(* An instance of HttpRequests for TLC. *)
EXTENDS HttpRequests

MCOptions ==
  {[api |-> "request", with |-> {}], [api |-> "requestFile", with |-> {"versionHeader"}],
   [api |-> "request", with |-> {"disableAuth", "disableVersion"}],
   [api |-> "http", with |-> {"reportProgress"}]}

\* As in the example of ngx-customapp-jwt/src/public-api.ts.
MCRefreshWith == {"disableAuth", "authHeader"}

Reply(ok, type, body) == [ok |-> ok, type |-> type, body |-> body]

MCReplies ==
  {Reply(TRUE, "protobuf", "message"), Reply(TRUE, "protobuf", "error"),
   Reply(TRUE, "protobuf", "null"), Reply(TRUE, "other", "message"),
   Reply(FALSE, "protobuf", "blank"), Reply(FALSE, "other", "message")}

MCConfig ==
  [http |-> [detectsErrors |-> TRUE, versioned |-> TRUE],
   errors |-> [production |-> TRUE, doNotSend |-> {"HttpErrorResponse"},
               texts |-> {"locale", "no connection"}]]
===============================================================================
