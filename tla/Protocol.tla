------------------------------- MODULE Protocol -------------------------------
(***************************************************************************)
(* handle_client_command of src/network/remote_server.c: what a command    *)
(* does to a client's role and watching, and the line that answers it.     *)
(* "CALL" and "INSIDE" stand for a command whose arguments can be used,    *)
(* "CALL bad", "INSIDE bad" and "ROLE bad" for one whose arguments do not  *)
(* parse or are out of range, and "other" for any other word.              *)
(***************************************************************************)

Role == {"UNKNOWN", "BUTTON", "GUARD"}

Command ==
  {"ROLE GUARD", "ROLE BUTTON", "ROLE bad", "CALL", "CALL bad", "INSIDE", "INSIDE bad",
   "STATUS", "WATCH", "UNWATCH", "other"}

\* A client that never declared a role becomes a button with its first CALL or
\* INSIDE, whatever its arguments.  A role is never changed.
RoleAfter(role, cmd) ==
  IF role # "UNKNOWN" THEN role
  ELSE IF cmd = "ROLE GUARD" THEN "GUARD"
  ELSE IF cmd \in {"ROLE BUTTON", "CALL", "CALL bad", "INSIDE", "INSIDE bad"} THEN "BUTTON"
  ELSE "UNKNOWN"

\* Only a guard's WATCH and UNWATCH count, and a new guard does not watch.
WatchingAfter(role, watching, cmd) ==
  IF role = "GUARD" /\ cmd \in {"WATCH", "UNWATCH"} THEN cmd = "WATCH"
  ELSE watching /\ role # "UNKNOWN"

\* CALL_REJECT and INSIDE_REJECT when server_events_push_... returns an error.
CallAnswers == {"CALL_OK", "CALL_REJECT"}

ButtonAnswers(cmd) ==
  CASE cmd = "CALL"       -> CallAnswers
    [] cmd = "CALL bad"   -> {"CALL_BAD"}
    [] cmd = "INSIDE"     -> {"INSIDE_OK", "INSIDE_REJECT"}
    [] cmd = "INSIDE bad" -> {"INSIDE_BAD"}
    [] OTHER              -> {"UNKNOWN_CMD"}

\* One "status" stands for the lines of all cars.
GuardAnswers(cmd) ==
  CASE cmd = "CALL"     -> CallAnswers
    [] cmd = "CALL bad" -> {"CALL_BAD"}
    [] cmd = "STATUS"   -> {"status"}
    [] cmd = "WATCH"    -> {"WATCH_OK"}
    [] cmd = "UNWATCH"  -> {"UNWATCH_OK"}
    [] OTHER            -> {"UNKNOWN_CMD"}

\* The answers a command may get from the role the client has before it.
Answers(role, cmd) ==
  IF role = "GUARD" THEN GuardAnswers(cmd)
  ELSE IF role = "BUTTON" THEN ButtonAnswers(cmd)
  ELSE IF cmd \in {"ROLE GUARD", "ROLE BUTTON"} THEN {"ROLE_OK"}
  ELSE IF cmd = "ROLE bad" THEN {"ROLE_BAD"}
  ELSE IF RoleAfter(role, cmd) = "BUTTON" THEN ButtonAnswers(cmd)
  ELSE {"Please declare role"}

Answer ==
  {"WELCOME", "Please declare role", "SERVER_BUSY", "ROLE_OK", "ROLE_BAD",
   "CALL_OK", "CALL_REJECT", "CALL_BAD", "INSIDE_OK", "INSIDE_REJECT", "INSIDE_BAD",
   "status", "WATCH_OK", "UNWATCH_OK", "UNKNOWN_CMD"}
=============================================================================
